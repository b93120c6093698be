----------------------------- MODULE MCStreams -----------------------------
EXTENDS Streams

\* An ordered file with a checkpointed named stream.
Base == [data |-> ("" :> <<1, 1, 1>>) @@ ("n" :> <<1, 1>>),
         sparse |-> FALSE, transport |-> "standard", peerRemote |-> FALSE,
         dstStreams |-> TRUE, verify |-> FALSE, journal |-> TRUE]

Unnamed(s) == ("" :> s)

MCFiles ==
    { Base,
      [Base EXCEPT !.data = Unnamed(<<1>>) @@ ("n" :> <<1, 1, 1>>)],
      [Base EXCEPT !.dstStreams = FALSE, !.transport = "redirector"],
      [Base EXCEPT !.data = Unnamed(<<1, 1, 1, 1, 1>>), !.transport = "same_spindle"],
      [Base EXCEPT !.data = Unnamed(<<1, 0, 0, 0, 1>>), !.sparse = TRUE],
      [Base EXCEPT !.data = Unnamed(<<0, 0, 1>>) @@ ("n" :> <<1>>), !.sparse = TRUE,
                   !.verify = TRUE],
      [Base EXCEPT !.data = Unnamed(<<1, 1, 1, 1, 1>>), !.transport = "wsl_dst",
                   !.journal = FALSE],
      [Base EXCEPT !.data = Unnamed(<<1, 1, 1, 1>>), !.transport = "wsl_src",
                   !.journal = FALSE],
      [Base EXCEPT !.data = Unnamed(<<1, 1, 1, 1>>), !.transport = "wsl_src",
                   !.peerRemote = TRUE] }
=============================================================================
