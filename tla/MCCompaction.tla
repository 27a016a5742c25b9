---------------------------- MODULE MCCompaction ----------------------------
(* Instances of Compaction for TLC.                                        *)
EXTENDS Compaction, TLC

Bounds(propose, failure, crash, snapshot) ==
    [e \in EventKind |-> CASE e = "propose" -> propose
                           [] e = "failure" -> failure
                           [] e = "crash" -> crash
                           [] e = "snapshot" -> snapshot]

\* Everything happens, up to MaxTotal times together.
AnyEvents == Bounds(2, 1, 1, 2)

\* No process dies.
NoCrash == Bounds(2, 1, 0, 1)

\* Which of two callers of TakeSnapshot is which makes no difference.
Symmetry == Permutations(Taker)
=============================================================================
