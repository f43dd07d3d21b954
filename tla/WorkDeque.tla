------------------------------ MODULE WorkDeque ------------------------------
(***************************************************************************)
(* The work-stealing deque of runnable blocks that each worker owns        *)
(* (src/runtime/worker.c): a circular buffer indexed by two ever-growing   *)
(* positions, top for the thieves and bottom for the owner.  A full buffer *)
(* is replaced by one twice its size; the old one is retired and freed     *)
(* once the epoch has moved on by two.                                     *)
(*                                                                         *)
(* deque_push runs in the owner and, through worker_enqueue, in any thread *)
(* that spawns a block onto this worker (Enqueuers).  A step is one access *)
(* to shared memory; the atomics are taken as sequentially consistent.     *)
(***************************************************************************)
EXTENDS Naturals, FiniteSets

CONSTANTS Owner, Enqueuers, Thieves,
          InitialCapacity,  \* DEQUE_INITIAL_CAPACITY, a power of two
          MaxPush,          \* bound: blocks pushed in all
          MaxGrow,          \* growths that MaxPush blocks can cause
          Nobody            \* a NULL or uninitialised slot

ASSUME DequeAssumption ==
  /\ InitialCapacity \in Nat /\ InitialCapacity > 1
  /\ MaxPush \in Nat /\ MaxGrow \in Nat
  /\ MaxPush < InitialCapacity * 2^MaxGrow
  /\ Nobody \notin 1..MaxPush
  /\ Owner \notin Enqueuers

Pushers == {Owner} \cup Enqueuers
Block   == 1..MaxPush       \* blocks are named by the order of their pushes
Buffer  == 0..MaxGrow       \* buffers are named by the growth that made them

VARIABLES top, bottom, buffer, capacity,   \* struct WorkDeque
          slots,     \* the contents of each buffer
          live,      \* the buffers not yet freed
          upc, ublk, ubot, ucap,   \* a thread inside deque_push, and its locals
          opc, obot, otop,         \* the owner inside deque_pop
          tpc, ttop, tcap, tbuf, tblk,   \* a thief inside deque_steal
          held,      \* history: the block whose push used each position
          claims,    \* history: how often each pushed block was claimed
          returned,  \* history: what each claim of a block really returned
          pushed     \* history: number of pushes begun

deque   == <<top, bottom, buffer, capacity, slots, live>>
pushing == <<upc, ublk, ubot, ucap>>
popping == <<opc, obot, otop>>
steals  == <<tpc, ttop, tcap, tbuf, tblk>>
history == <<held, claims, returned, pushed>>
vars == <<deque, pushing, popping, steals, history>>

CapacityOf(b) == InitialCapacity * 2^b

Init ==
  /\ top = 0 /\ bottom = 0 /\ buffer = 0 /\ capacity = InitialCapacity
  /\ slots = [b \in Buffer |-> [i \in 0..(CapacityOf(b) - 1) |-> Nobody]]
  /\ live = {0}
  /\ upc = [u \in Pushers |-> "idle"] /\ ublk = [u \in Pushers |-> Nobody]
  /\ ubot = [u \in Pushers |-> 0] /\ ucap = [u \in Pushers |-> 0]
  /\ opc = "idle" /\ obot = 0 /\ otop = 0
  /\ tpc = [t \in Thieves |-> "idle"] /\ ttop = [t \in Thieves |-> 0]
  /\ tcap = [t \in Thieves |-> 0] /\ tbuf = [t \in Thieves |-> 0]
  /\ tblk = [t \in Thieves |-> Nobody]
  /\ held = [i \in 0..MaxPush |-> Nobody]
  /\ claims = [b \in Block |-> 0] /\ returned = [b \in Block |-> Nobody] /\ pushed = 0
-----------------------------------------------------------------------------
(* deque_push and deque_grow *)

\* Load bottom.
PushBegin(u) ==
  /\ upc[u] = "idle" /\ (u = Owner => opc = "idle")
  /\ pushed < MaxPush
  /\ pushed' = pushed + 1
  /\ ublk' = [ublk EXCEPT ![u] = pushed + 1]
  /\ ubot' = [ubot EXCEPT ![u] = bottom]
  /\ upc' = [upc EXCEPT ![u] = "top"]
  /\ UNCHANGED <<deque, ucap, popping, steals, held, claims, returned>>

\* Mutant: the buffer grows only once it is over-full.
PushTopLate(u) ==
  /\ upc[u] = "top"
  /\ ucap' = [ucap EXCEPT ![u] = capacity]
  /\ upc' = [upc EXCEPT ![u] =
               IF ubot[u] > top + capacity THEN "copy" ELSE "store"]
  /\ UNCHANGED <<deque, ublk, ubot, popping, steals, history>>

\* Load top and capacity; bottom - top >= capacity - 1 calls for deque_grow.
PushTop(u) ==
  /\ upc[u] = "top"
  /\ ucap' = [ucap EXCEPT ![u] = capacity]
  /\ upc' = [upc EXCEPT ![u] =
               IF ubot[u] + 1 >= top + capacity THEN "copy" ELSE "store"]
  /\ UNCHANGED <<deque, ublk, ubot, popping, steals, history>>

\* Load top and bottom, and copy what lies between into a new buffer.
GrowCopy(u) ==
  /\ upc[u] = "copy"
  /\ slots' = [slots EXCEPT ![buffer + 1] =
       [j \in DOMAIN @ |->
          IF \E i \in top..(bottom - 1) : i % (2 * capacity) = j
            THEN LET i == CHOOSE i \in top..(bottom - 1) : i % (2 * capacity) = j
                 IN slots[buffer][i % capacity]
            ELSE Nobody]]
  /\ live' = live \cup {buffer + 1}
  /\ upc' = [upc EXCEPT ![u] = "publish"]
  /\ UNCHANGED <<top, bottom, buffer, capacity, ublk, ubot, ucap, popping,
                 steals, history>>

\* buffer = new_buf
GrowBuffer(u) ==
  /\ upc[u] = "publish"
  /\ buffer' = buffer + 1
  /\ upc' = [upc EXCEPT ![u] = "resize"]
  /\ UNCHANGED <<top, bottom, capacity, slots, live, ublk, ubot, ucap, popping,
                 steals, history>>

\* capacity = new_cap; the epoch advances, the old buffer is retired with
\* it, and the buffers retired two epochs ago are freed.
GrowCapacity(u) ==
  /\ upc[u] = "resize"
  /\ capacity' = 2 * capacity
  /\ live' = {b \in live : buffer < b + 3}
  /\ ucap' = [ucap EXCEPT ![u] = 2 * capacity]
  /\ upc' = [upc EXCEPT ![u] = "store"]
  /\ UNCHANGED <<top, bottom, buffer, slots, ublk, ubot, popping, steals, history>>

\* buffer[bottom % capacity] = block
PushStore(u) ==
  /\ upc[u] = "store"
  /\ slots' = [slots EXCEPT ![buffer][ubot[u] % ucap[u]] = ublk[u]]
  /\ held' = [held EXCEPT ![ubot[u]] = ublk[u]]
  /\ upc' = [upc EXCEPT ![u] = "bump"]
  /\ UNCHANGED <<top, bottom, buffer, capacity, live, ublk, ubot, ucap,
                 popping, steals, claims, returned, pushed>>

\* bottom = bottom + 1
PushBump(u) ==
  /\ upc[u] = "bump"
  /\ bottom' = ubot[u] + 1
  /\ upc' = [upc EXCEPT ![u] = "idle"]
  /\ ublk' = [ublk EXCEPT ![u] = Nobody]
  /\ ubot' = [ubot EXCEPT ![u] = 0] /\ ucap' = [ucap EXCEPT ![u] = 0]
  /\ UNCHANGED <<top, buffer, capacity, slots, live, popping, steals, history>>
-----------------------------------------------------------------------------
(* deque_pop *)

\* The claim of position i by a thread that read block b there.
Claim(i, b) == /\ claims' = [claims EXCEPT ![held[i]] = @ + 1]
               /\ returned' = [returned EXCEPT ![held[i]] = b]
               /\ UNCHANGED <<held, pushed>>

\* Mutant: bottom is decremented without the test for zero.
PopReserveUnchecked ==
  /\ opc = "idle" /\ upc[Owner] = "idle"
  /\ bottom' = bottom - 1 /\ obot' = bottom - 1
  /\ opc' = "top"
  /\ UNCHANGED <<top, buffer, capacity, slots, live, pushing, otop, steals, history>>

\* bottom = bottom - 1
PopReserve ==
  /\ opc = "idle" /\ upc[Owner] = "idle" /\ bottom > 0
  /\ bottom' = bottom - 1 /\ obot' = bottom - 1
  /\ opc' = "top"
  /\ UNCHANGED <<top, buffer, capacity, slots, live, pushing, otop, steals, history>>

\* Mutant: the last element is taken without the compare-and-swap.
PopTopGreedy ==
  /\ opc = "top"
  /\ \/ /\ top > obot
        /\ opc' = "restore"
        /\ UNCHANGED <<obot, otop, history>>
     \/ /\ top <= obot
        /\ Claim(obot, slots[buffer][obot % capacity])
        /\ opc' = "idle" /\ obot' = 0 /\ otop' = 0
  /\ UNCHANGED <<deque, pushing, steals>>

\* Load top: empty, more than one element (a plain take), or the last one.
PopTop ==
  /\ opc = "top"
  /\ \/ /\ top > obot
        /\ opc' = "restore"
        /\ UNCHANGED <<obot, otop, history>>
     \/ /\ top < obot
        /\ Claim(obot, slots[buffer][obot % capacity])
        /\ opc' = "idle" /\ obot' = 0 /\ otop' = 0
     \/ /\ top = obot
        /\ opc' = "last" /\ otop' = top
        /\ UNCHANGED <<obot, history>>
  /\ UNCHANGED <<deque, pushing, steals>>

\* The compare-and-swap of top against a thief for the last element.
PopLast ==
  /\ opc = "last"
  /\ \/ /\ top = otop
        /\ top' = top + 1
        /\ Claim(obot, slots[buffer][obot % capacity])
     \/ /\ top # otop
        /\ UNCHANGED <<top, history>>
  /\ opc' = "restore"
  /\ UNCHANGED <<bottom, buffer, capacity, slots, live, pushing, obot, otop, steals>>

\* Mutant: bottom is left decremented after an empty or a lost pop.
PopRestoreForgotten ==
  /\ opc = "restore"
  /\ opc' = "idle" /\ obot' = 0 /\ otop' = 0
  /\ UNCHANGED <<deque, pushing, steals, history>>

\* bottom = bottom + 1
PopRestore ==
  /\ opc = "restore"
  /\ bottom' = obot + 1
  /\ opc' = "idle" /\ obot' = 0 /\ otop' = 0
  /\ UNCHANGED <<top, buffer, capacity, slots, live, pushing, steals, history>>
-----------------------------------------------------------------------------
(* deque_steal *)

\* The thief's locals go out of scope.
StealReturns(t) ==
  /\ tpc' = [tpc EXCEPT ![t] = "idle"] /\ ttop' = [ttop EXCEPT ![t] = 0]
  /\ tcap' = [tcap EXCEPT ![t] = 0] /\ tbuf' = [tbuf EXCEPT ![t] = 0]
  /\ tblk' = [tblk EXCEPT ![t] = Nobody]

StealTop(t) ==
  /\ tpc[t] = "idle"
  /\ ttop' = [ttop EXCEPT ![t] = top]
  /\ tpc' = [tpc EXCEPT ![t] = "bottom"]
  /\ UNCHANGED <<deque, pushing, popping, tcap, tbuf, tblk, history>>

StealBottom(t) ==
  /\ tpc[t] = "bottom"
  /\ \/ /\ ttop[t] >= bottom
        /\ StealReturns(t)
     \/ /\ ttop[t] < bottom
        /\ tpc' = [tpc EXCEPT ![t] = "capacity"]
        /\ UNCHANGED <<ttop, tcap, tbuf, tblk>>
  /\ UNCHANGED <<deque, pushing, popping, history>>

StealCapacity(t) ==
  /\ tpc[t] = "capacity"
  /\ tcap' = [tcap EXCEPT ![t] = capacity]
  /\ tpc' = [tpc EXCEPT ![t] = "buffer"]
  /\ UNCHANGED <<deque, pushing, popping, ttop, tbuf, tblk, history>>

StealBuffer(t) ==
  /\ tpc[t] = "buffer"
  /\ tbuf' = [tbuf EXCEPT ![t] = buffer]
  /\ tpc' = [tpc EXCEPT ![t] = "slot"]
  /\ UNCHANGED <<deque, pushing, popping, ttop, tcap, tblk, history>>

\* block = buffer[top % capacity]; a freed buffer yields an arbitrary word.
StealSlot(t) ==
  /\ tpc[t] = "slot"
  /\ tblk' = [tblk EXCEPT ![t] =
                IF tbuf[t] \in live THEN slots[tbuf[t]][ttop[t] % tcap[t]]
                                    ELSE Nobody]
  /\ tpc' = [tpc EXCEPT ![t] = "cas"]
  /\ UNCHANGED <<deque, pushing, popping, ttop, tcap, tbuf, history>>

StealCas(t) ==
  /\ tpc[t] = "cas"
  /\ \/ /\ top = ttop[t]
        /\ top' = top + 1
        /\ Claim(top, tblk[t])
     \/ /\ top # ttop[t]
        /\ UNCHANGED <<top, history>>
  /\ StealReturns(t)
  /\ UNCHANGED <<bottom, buffer, capacity, slots, live, pushing, popping>>
-----------------------------------------------------------------------------
Push(u) == \/ PushBegin(u) \/ PushTop(u) \/ GrowCopy(u) \/ GrowBuffer(u)
           \/ GrowCapacity(u) \/ PushStore(u) \/ PushBump(u)

Pop == PopReserve \/ PopTop \/ PopLast \/ PopRestore

Steal(t) == \/ StealTop(t) \/ StealBottom(t) \/ StealCapacity(t)
            \/ StealBuffer(t) \/ StealSlot(t) \/ StealCas(t)

Next == (\E u \in Pushers : Push(u)) \/ Pop \/ (\E t \in Thieves : Steal(t))

Spec == Init /\ [][Next]_vars
-----------------------------------------------------------------------------
Quiet == opc = "idle" /\ \A u \in Pushers : upc[u] = "idle"

Waiting == {held[i] : i \in top..(bottom - 1)}

TypeOK ==
  /\ top \in 0..MaxPush /\ bottom \in 0..MaxPush
  /\ buffer \in Buffer /\ capacity \in {CapacityOf(b) : b \in Buffer}
  /\ live \in SUBSET Buffer
  /\ upc \in [Pushers -> {"idle", "top", "copy", "publish", "resize", "store", "bump"}]
  /\ opc \in {"idle", "top", "last", "restore"}
  /\ tpc \in [Thieves -> {"idle", "bottom", "capacity", "buffer", "slot", "cas"}]
  /\ returned \in [Block -> Block \cup {Nobody}]

\* Owner and thieves never claim the same pushed block twice, not even when
\* they race for the last element.
ClaimedOnce == \A b \in Block : claims[b] <= 1

\* Between the owner's operations every block pushed is either waiting between
\* top and bottom or has been claimed: no position is lost or reused early.
WaitingOrClaimed ==
  Quiet => \A b \in 1..pushed : b \in Waiting <=> claims[b] = 0

\* A thief that loaded capacity before and buffer after deque_grow published
\* the new buffer, or whose buffer was reclaimed under it.
Straddles(t) == tcap[t] # CapacityOf(tbuf[t]) \/ tbuf[t] + 3 <= buffer

\* A claim returns the very block that was pushed at the claimed position,
\* except to a thief that was overtaken by deque_grow.
RightUnlessOvertaken ==
  [][\A b \in Block : claims'[b] # claims[b] =>
       \/ returned'[b] = b
       \/ \E t \in Thieves : tpc[t] = "cas" /\ tpc'[t] = "idle" /\ Straddles(t)]_vars

\* A claim returns the very block that was pushed at the claimed position.
ReturnsPushed == \A b \in Block : claims[b] > 0 => returned[b] = b
=============================================================================
