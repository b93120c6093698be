------------------------------ MODULE Pipeline ------------------------------
(***************************************************************************)
(* transfer_pipelined (crates/core/src/transport.rs): one call that copies *)
(* length units through a reader thread, a hash thread at local depth, and *)
(* the writer (the calling thread), joined by bounded channels and two     *)
(* flags: the caller's cancellation probe and the call's own stop flag.    *)
(*                                                                         *)
(* The content of the source is the sequence 1, 2, ..., length, so that    *)
(* what was written and what was hashed can be compared with it.  Waits    *)
(* with a timeout are waits that also give up once their flag is set; a    *)
(* call interrupted by the system is repeated, which is a stutter.         *)
(***************************************************************************)
EXTENDS Naturals, Sequences, SequencesExt

CONSTANTS Length,       \* units to copy
          Request,      \* units of one request
          Panics        \* stages whose callback may panic

ASSUME PipelineAssumption ==
    /\ Length \in Nat \ {0}
    /\ Request \in Nat \ {0}
    /\ Panics \subseteq {"reader", "hasher"}

PIPELINE_BUFFERS == 2
LOCAL_PIPELINE_BUFFERS == 3

VARIABLES
    depth,                  \* buffers, and the capacity of every channel
    canceled, stopped,      \* the caller's flag and the call's own
    free, filled, hashed,   \* the channels; of the free buffers only the number
    reader, read, inHand,   \* the reader: where it is, bytes_read, its packet
    hasher, digest, atHash, \* the hash stage, what consume was given, its packet
    writer, dest, current, result

flagVars == <<canceled, stopped>>
readerVars == <<reader, read, inHand>>
hasherVars == <<hasher, digest, atHash>>
writerVars == <<writer, dest, current, result>>
vars == <<depth, flagVars, free, filled, hashed, readerVars, hasherVars, writerVars>>

Packet(kind, from, count) == [kind |-> kind, from |-> from, count |-> count]
Data(from, count) == Packet("data", from, count)
Mark(kind) == Packet(kind, 0, 0)
NoPacket == Mark("none")

Units(p) == [i \in 1 .. p.count |-> p.from + i - 1]
Gone(stage) == stage \in {"exited", "panicked"}
Staged == depth >= LOCAL_PIPELINE_BUFFERS

---------------------------------------------------------------------------
(* The reader. *)

\* The loop condition, then the probe.
ReaderLoop ==
    /\ reader = "loop"
    /\ \/ /\ read < Length /\ ~stopped /\ ~canceled
          /\ reader' = "free"
          /\ UNCHANGED stopped
       \/ /\ read < Length /\ ~stopped /\ canceled
          /\ stopped' = TRUE
          /\ reader' = "after"
       \/ /\ read = Length \/ stopped
          /\ reader' = "after"
          /\ UNCHANGED stopped
    /\ UNCHANGED <<depth, canceled, free, filled, hashed, read, inHand, hasherVars, writerVars>>

ReaderTakesBuffer_Waits ==
    /\ reader = "free"
    /\ free > 0
    /\ free' = free - 1
    /\ reader' = "read"
    /\ UNCHANGED <<depth, flagVars, filled, hashed, read, inHand, hasherVars, writerVars>>

ReaderTakesBuffer ==
    /\ reader = "free"
    /\ \/ /\ free > 0
          /\ free' = free - 1
          /\ reader' = "read"
       \/ /\ free = 0 /\ stopped
          /\ reader' = "exited"
          /\ UNCHANGED free
    /\ UNCHANGED <<depth, flagVars, filled, hashed, read, inHand, hasherVars, writerVars>>

\* A short read is a read; at two buffers consume runs here.
ReaderReads ==
    /\ reader = "read"
    /\ \/ \E count \in 1 .. Request :
            /\ count <= Length - read
            /\ inHand' = Data(read + 1, count)
            /\ read' = read + count
            /\ digest' = IF Staged THEN digest ELSE digest \o Units(Data(read + 1, count))
            /\ reader' = "send"
       \/ /\ inHand' \in {Mark("eof"), Mark("failed")}
          /\ reader' = "send"
          /\ UNCHANGED <<read, digest>>
       \/ /\ canceled \/ stopped       \* interrupted by the system
          /\ reader' = "exited"
          /\ UNCHANGED <<read, inHand, digest>>
       \/ /\ "reader" \in Panics
          /\ reader' = "panicked"
          /\ UNCHANGED <<read, inHand, digest>>
    /\ UNCHANGED <<depth, flagVars, free, filled, hashed, hasher, atHash, writerVars>>

ReaderSends ==
    /\ reader = "send"
    /\ \/ /\ Len(filled) < depth
          /\ filled' = Append(filled, inHand)
          /\ reader' = IF inHand.kind = "data" THEN "loop" ELSE "exited"
       \/ /\ Len(filled) = depth /\ stopped
          /\ reader' = "exited"
          /\ UNCHANGED filled
    /\ inHand' = NoPacket
    /\ UNCHANGED <<depth, flagVars, free, hashed, read, hasherVars, writerVars>>

ReaderAfter ==
    /\ reader = "after"
    /\ reader' = IF stopped THEN "exited" ELSE "done"
    /\ UNCHANGED <<depth, flagVars, free, filled, hashed, read, inHand, hasherVars, writerVars>>

ReaderDone_Unbounded ==
    /\ reader = "done"
    /\ filled' = Append(filled, Mark("done"))
    /\ reader' = "exited"
    /\ UNCHANGED <<depth, flagVars, free, hashed, read, inHand, hasherVars, writerVars>>

\* This send alone has no timeout.
ReaderDone ==
    /\ reader = "done"
    /\ Len(filled) < depth
    /\ filled' = Append(filled, Mark("done"))
    /\ reader' = "exited"
    /\ UNCHANGED <<depth, flagVars, free, hashed, read, inHand, hasherVars, writerVars>>

Reader == \/ ReaderLoop \/ ReaderTakesBuffer \/ ReaderReads
          \/ ReaderSends \/ ReaderAfter \/ ReaderDone

---------------------------------------------------------------------------
(* The hash stage. *)

HasherReceives_GivesUp ==
    /\ hasher = "recv"
    /\ \/ /\ filled # <<>>
          /\ atHash' = Head(filled)
          /\ filled' = Tail(filled)
          /\ digest' = digest \o Units(Head(filled))
          /\ hasher' = "send"
       \/ /\ filled = <<>>
          /\ hasher' = "exited"
          /\ UNCHANGED <<atHash, filled, digest>>
    /\ UNCHANGED <<depth, flagVars, free, hashed, readerVars, writerVars>>

HasherReceives ==
    /\ hasher = "recv"
    /\ \/ /\ filled # <<>>
          /\ atHash' = Head(filled)
          /\ filled' = Tail(filled)
          /\ \/ /\ digest' = digest \o Units(Head(filled))
                /\ hasher' = "send"
             \/ /\ "hasher" \in Panics /\ Head(filled).kind = "data"
                /\ hasher' = "panicked"
                /\ UNCHANGED digest
       \/ /\ filled = <<>>
          /\ Gone(reader) \/ stopped
          /\ hasher' = "exited"
          /\ UNCHANGED <<atHash, filled, digest>>
    /\ UNCHANGED <<depth, flagVars, free, hashed, readerVars, writerVars>>

HasherSends ==
    /\ hasher = "send"
    /\ \/ /\ Len(hashed) < depth
          /\ hashed' = Append(hashed, atHash)
          /\ hasher' = IF atHash.kind = "data" THEN "recv" ELSE "exited"
       \/ /\ Len(hashed) = depth /\ stopped
          /\ hasher' = "exited"
          /\ UNCHANGED hashed
    /\ atHash' = NoPacket
    /\ UNCHANGED <<depth, flagVars, free, filled, digest, readerVars, writerVars>>

Hasher == HasherReceives \/ HasherSends

---------------------------------------------------------------------------
(* The writer. *)

Ends(kind) == result' = kind /\ writer' = "stop"

WriterLoop_Short ==
    /\ writer = "loop"
    /\ \/ Len(dest) + 1 >= Length /\ Ends("ok")
       \/ Len(dest) + 1 < Length /\ canceled /\ Ends("canceled")
       \/ Len(dest) + 1 < Length /\ ~canceled /\ writer' = "recv" /\ UNCHANGED result
    /\ UNCHANGED <<depth, flagVars, free, filled, hashed, readerVars, hasherVars, dest, current>>

WriterLoop ==
    /\ writer = "loop"
    /\ \/ Len(dest) = Length /\ Ends("ok")
       \/ Len(dest) < Length /\ canceled /\ Ends("canceled")
       \/ Len(dest) < Length /\ ~canceled /\ writer' = "recv" /\ UNCHANGED result
    /\ UNCHANGED <<depth, flagVars, free, filled, hashed, readerVars, hasherVars, dest, current>>

Incoming == IF Staged THEN hashed ELSE filled
Sender == IF Staged THEN hasher ELSE reader

\* A closed empty channel is reported as a panic of the reader.
WriterReceives ==
    /\ writer = "recv"
    /\ \/ /\ Incoming # <<>>
          /\ LET packet == Head(Incoming)
             IN  /\ current' = packet
                 /\ CASE packet.kind = "data"   -> writer' = "write" /\ UNCHANGED result
                      [] packet.kind = "failed" -> Ends("read")
                      [] packet.kind = "eof"    -> Ends("unexpected_eof")
                      [] packet.kind = "done"   -> Ends(IF Len(dest) = Length THEN "ok"
                                                         ELSE "unexpected_eof")
          /\ filled' = IF Staged THEN filled ELSE Tail(filled)
          /\ hashed' = IF Staged THEN Tail(hashed) ELSE hashed
       \/ /\ Incoming = <<>>
          /\ \/ Gone(Sender) /\ Ends("reader_panicked")
             \/ canceled /\ Ends("canceled")
          /\ UNCHANGED <<current, filled, hashed>>
    /\ UNCHANGED <<depth, flagVars, free, readerVars, hasherVars, dest>>

WriterWrites_Retries ==
    /\ writer = "write"
    /\ current.count > 0
    /\ \/ /\ canceled
          /\ Ends("canceled")
          /\ UNCHANGED <<dest, current>>
       \/ /\ ~canceled
          /\ \/ \E count \in 1 .. current.count :
                  /\ dest' = dest \o Units(Data(current.from, count))
                  /\ UNCHANGED <<writer, result, current>>
             \/ Ends("write") /\ UNCHANGED <<dest, current>>
    /\ UNCHANGED <<depth, flagVars, free, filled, hashed, readerVars, hasherVars>>

\* One write call of what is left of the packet, which may be partial.
WriterWrites ==
    /\ writer = "write"
    /\ current.count > 0
    /\ \/ /\ canceled
          /\ Ends("canceled")
          /\ UNCHANGED <<dest, current>>
       \/ /\ ~canceled
          /\ \/ \E count \in 1 .. current.count :
                  /\ dest' = dest \o Units(Data(current.from, count))
                  /\ current' = Data(current.from + count, current.count - count)
                  /\ UNCHANGED <<writer, result>>
             \/ Ends("write") /\ UNCHANGED <<dest, current>>
    /\ UNCHANGED <<depth, flagVars, free, filled, hashed, readerVars, hasherVars>>

WriterReturnsBuffer ==
    /\ writer = "write"
    /\ current.count = 0
    /\ free' = free + 1
    /\ current' = NoPacket
    /\ writer' = "loop"
    /\ UNCHANGED <<depth, flagVars, filled, hashed, readerVars, hasherVars, dest, result>>

WriterStops ==
    /\ writer = "stop"
    /\ stopped' = TRUE
    /\ writer' = "join"
    /\ UNCHANGED <<depth, canceled, free, filled, hashed, readerVars, hasherVars,
                   dest, current, result>>

WriterJoins ==
    /\ writer = "join"
    /\ Gone(reader)
    /\ Staged => Gone(hasher)
    /\ result' = IF result = "ok" /\ "panicked" \in {reader, hasher} THEN "reader_panicked" ELSE result
    /\ writer' = "returned"
    /\ UNCHANGED <<depth, flagVars, free, filled, hashed, readerVars, hasherVars, dest, current>>

Writer == \/ WriterLoop \/ WriterReceives \/ WriterWrites
          \/ WriterReturnsBuffer \/ WriterStops \/ WriterJoins

---------------------------------------------------------------------------
\* The user, or the tripped breaker.
Cancel ==
    /\ ~canceled
    /\ writer # "returned"
    /\ canceled' = TRUE
    /\ UNCHANGED <<depth, stopped, free, filled, hashed, readerVars, hasherVars, writerVars>>

Init ==
    /\ depth \in {PIPELINE_BUFFERS, LOCAL_PIPELINE_BUFFERS}
    /\ canceled = FALSE /\ stopped = FALSE
    /\ free = depth /\ filled = <<>> /\ hashed = <<>>
    /\ reader = "loop" /\ read = 0 /\ inHand = NoPacket
    /\ hasher = (IF Staged THEN "recv" ELSE "exited") /\ digest = <<>> /\ atHash = NoPacket
    /\ writer = "loop" /\ dest = <<>> /\ current = NoPacket /\ result = "ok"

Next == Reader \/ Hasher \/ Writer \/ Cancel

Spec == Init /\ [][Next]_vars

\* The system runs the three threads, and their reads and writes return.
FairSpec == Spec /\ WF_vars(Reader) /\ WF_vars(Hasher) /\ WF_vars(Writer)

---------------------------------------------------------------------------
(* Properties. *)

Packets == {NoPacket} \cup {Mark(k) : k \in {"eof", "failed", "done"}}
           \cup {Data(f, c) : f \in 1 .. Length + 1, c \in 0 .. Request}

\* The channels never hold more than their capacity.
TypeOK ==
    /\ depth \in {PIPELINE_BUFFERS, LOCAL_PIPELINE_BUFFERS}
    /\ canceled \in BOOLEAN /\ stopped \in BOOLEAN
    /\ free \in 0 .. depth
    /\ filled \in Seq(Packets) /\ Len(filled) <= depth
    /\ hashed \in Seq(Packets) /\ Len(hashed) <= depth
    /\ reader \in {"loop", "free", "read", "send", "after", "done", "exited", "panicked"}
    /\ read \in 0 .. Length /\ inHand \in Packets
    /\ hasher \in {"recv", "send", "exited", "panicked"}
    /\ digest \in Seq(1 .. Length) /\ atHash \in Packets
    /\ writer \in {"loop", "recv", "write", "stop", "join", "returned"}
    /\ dest \in Seq(1 .. Length) /\ current \in Packets
    /\ result \in {"ok", "canceled", "read", "write", "unexpected_eof", "reader_panicked"}

InOrder(s) == s = [i \in 1 .. Len(s) |-> i]

\* Whatever stops the transfer, the destination holds an exact prefix of the source,
\* the digest covers an exact prefix, and nothing is written that was not hashed first:
\* what contiguous checkpoints rest on.
OrderedPrefixes ==
    /\ InOrder(dest) /\ InOrder(digest)
    /\ Len(dest) <= Len(digest) /\ Len(digest) <= read

\* A call that returns Ok has written and hashed exactly the whole segment, so the
\* checkpoint appended after it attests only bytes that were written.
OkIsExact == writer = "returned" /\ result = "ok" => Len(dest) = Length /\ Len(digest) = Length

\* A failure names what happened: no end of file or read error once everything was read,
\* no cancellation nobody asked for, and a panic only if a stage panicked or the reader
\* left because of a cancellation.
FailureHasItsCause ==
    /\ result \in {"read", "unexpected_eof"} => read < Length
    /\ result = "canceled" => canceled
    /\ result = "reader_panicked" => canceled \/ "panicked" \in {reader, hasher}

Returned == writer = "returned"

\* The call returns, after any failure of a read or a write, a panic of the reader and,
\* at local depth, a cancellation.
Returns == <>(Returned \/ (canceled /\ ~Staged) \/ hasher = "panicked")

\* "Cancel takes effect between chunks, so even a huge in-flight file stops promptly and
\* safely" (README.md:205): the call returns whenever it is canceled.
AlwaysReturns == <>Returned
=============================================================================
