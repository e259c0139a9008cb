----------------------------- MODULE MCThreads -----------------------------
(* Threads for TLC.  The run has two rows; that a row finds its place among *)
(* more of them is checked here, over all panes of up to four rows.         *)
EXTENDS ThreadsProps

ASSUME InsertionAssumption ==
    \A S \in SUBSET (1 .. 5), s \in 1 .. 5 :
        Inserted(SetToSortSeq(S, <), s) = SetToSortSeq(S \union {s}, <)
=============================================================================
