------------------------------ MODULE MCMailbox ------------------------------
(* Two producers against the polling owner, with a limit they can overshoot *)
(* and a three-bit count that wraps below zero.                             *)
EXTENDS Mailbox, TLC

CONSTANTS p1, p2

MCProducers == {p1, p2}
=============================================================================
