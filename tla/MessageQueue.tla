---------------------------- MODULE MessageQueue ----------------------------
(***************************************************************************)
(* What a mailbox promises the blocks that use it: a FIFO queue of         *)
(* distinct messages.  A message is put once, leaves from the front, and   *)
(* is either delivered or, when the owning block is torn down, discarded.  *)
(* Capacity bounds what may be waiting (0 means no bound).                 *)
(***************************************************************************)
EXTENDS Naturals, Sequences

CONSTANTS Message, Capacity

VARIABLES queue,      \* accepted and not yet delivered, oldest first
          delivered,  \* what the owner has received, in order
          closed      \* the owner is gone

absVars == <<queue, delivered, closed>>

Init == queue = <<>> /\ delivered = <<>> /\ closed = FALSE

Room == Capacity = 0 \/ Len(queue) < Capacity

Fresh(m) == /\ \A i \in DOMAIN queue : queue[i] # m
            /\ \A i \in DOMAIN delivered : delivered[i] # m

Put(m) == /\ ~closed /\ Room /\ Fresh(m)
          /\ queue' = Append(queue, m)
          /\ UNCHANGED <<delivered, closed>>

Get == /\ ~closed /\ queue # <<>>
       /\ queue' = Tail(queue)
       /\ delivered' = Append(delivered, Head(queue))
       /\ UNCHANGED closed

Close == /\ ~closed
         /\ closed' = TRUE
         /\ queue' = <<>>
         /\ UNCHANGED delivered

Next == (\E m \in Message : Put(m)) \/ Get \/ Close

Spec == Init /\ [][Next]_absVars
=============================================================================
