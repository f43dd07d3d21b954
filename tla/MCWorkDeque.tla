----------------------------- MODULE MCWorkDeque -----------------------------
(* The owner and thieves on a deque small enough to grow, and to recycle    *)
(* its first buffer.                                                        *)
EXTENDS WorkDeque, TLC

CONSTANTS t1, t2, e1

TwoThieves == {t1, t2}
OneThief == {t1}
NoEnqueuers == {}
OneEnqueuer == {e1}

Symmetry == Permutations(TwoThieves)
=============================================================================
