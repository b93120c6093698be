------------------------------ MODULE MCVerify ------------------------------
EXTENDS Verify

Ntfs == [fs |-> "ntfs", srcProjects |-> FALSE, srcStreams |-> TRUE, streams |-> TRUE,
         srcEas |-> TRUE, eas |-> TRUE, reparse |-> TRUE, caseSensitive |-> FALSE]

MCPolicies ==
    { Ntfs,
      [Ntfs EXCEPT !.fs = "fat", !.streams = FALSE, !.eas = FALSE, !.reparse = FALSE],
      [Ntfs EXCEPT !.fs = "exfat", !.streams = FALSE, !.eas = FALSE, !.reparse = FALSE],
      [Ntfs EXCEPT !.fs = "wsl", !.streams = FALSE, !.eas = FALSE, !.reparse = FALSE,
                   !.caseSensitive = TRUE],
      [Ntfs EXCEPT !.srcProjects = TRUE, !.srcStreams = FALSE, !.srcEas = FALSE] }
=============================================================================
