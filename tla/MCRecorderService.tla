------------------------- MODULE MCRecorderService -------------------------
(* Instances of RecorderService for TLC.                                    *)
EXTENDS RecorderService, TLC

\* Applications are interchangeable, and so are log files.
Interchangeable == Permutations(Apps) \cup Permutations(Files)
=============================================================================
