------------------------------- MODULE Workers -------------------------------
(***************************************************************************)
(* The multi-threaded scheduler: worker threads with a deque each          *)
(* (src/runtime/worker.c), the counters by which they decide that all work *)
(* is done, and what the opcodes of the blocks they run do to blocks other *)
(* workers hold (src/vm/vm.c, src/runtime/scheduler.c).                    *)
(*                                                                         *)
(* One step is one access to state the threads share.  A deque operation   *)
(* is one step here, an assumption: WorkDeque.tla shows it right for the   *)
(* owner and thieves, and shows a push by another thread, as in Spawn and  *)
(* WakeEnqueue, able to lose a block.  What this module shows is about the *)
(* protocol above the deque.  A mailbox is the number of messages it       *)
(* holds.  Under workers a block that runs stays BLOCK_RUNNABLE:           *)
(* worker_loop calls vm_run itself, not block_run.                         *)
(***************************************************************************)
EXTENDS Naturals, Sequences, FiniteSets, Functions

CONSTANTS NumWorkers,  \* config.num_workers
          MaxBlocks,   \* bound: blocks that can be spawned
          Hosted,      \* blocks spawned before scheduler_run
          MaxMail,     \* limits.max_mailbox_size
          MaxOps,      \* bound: opcodes that touch other blocks
          MaxKills,    \* bound: children killed by their supervisor
          MayStop,     \* bound: whether the host calls scheduler_stop
          None

Worker == 0..(NumWorkers - 1)
Pid == 1..MaxBlocks

ASSUME WorkersAssumption ==
  /\ NumWorkers \in Nat \ {0} /\ MaxBlocks \in Nat /\ Hosted \in 1..MaxBlocks
  /\ MaxMail \in Nat /\ MaxOps \in Nat /\ MaxKills \in Nat
  /\ MayStop \in BOOLEAN
  /\ None \notin Nat

VARIABLES state,        \* block->state, "free" before the pid is spawned
          mail,         \* messages in block->mailbox
          runq,         \* worker->runq, the owner's end last
          run_queue,    \* scheduler->run_queue
          pc, hand,     \* where a worker is, and the block it holds
          target,       \* the other block of the opcode in progress
          seen,         \* what all_work_done has loaded so far
          total_spawned, total_terminated, blocks_in_flight, next_worker,
          stopped,      \* scheduler_stop has been called
          counted,      \* history: times a block was counted terminated
          raced,        \* history: blocks woken on their way out of vm_run
          dropped,      \* history: blocks a kill took off run_queue
          ops, kills    \* bounds

queues   == <<runq, run_queue, next_worker>>
counters == <<total_spawned, total_terminated, blocks_in_flight>>
history  == <<counted, raced, dropped>>
bounds   == <<ops, kills>>
vars == <<state, mail, queues, pc, hand, target, seen, counters, stopped,
          history, bounds>>

Location ==
  {"loop", "steal", "found", "run",              \* worker_loop and vm_run
   "wake", "queue", "push", "counts",            \* inside an opcode
   "kill", "unqueue", "tally", "links", "trap", "enqueue",
   "wait", "doze", "yield",                      \* leaving vm_run
   "count", "done",                              \* after vm_run
   "idle", "spawned", "terminated",              \* all_work_done
   "left"}

goto(w, l) == pc' = [pc EXCEPT ![w] = l]

\* to l inside an opcode on t, or to l with the opcode finished
with(w, l, t) == goto(w, l) /\ target' = [target EXCEPT ![w] = t]
over(w, l) == with(w, l, None)

put(w, b) == runq' = [runq EXCEPT ![w] = Append(@, b)]
-----------------------------------------------------------------------------
\* the host spawns round robin, then scheduler_run starts every worker
Init ==
  /\ state = [b \in Pid |-> IF b <= Hosted THEN "runnable" ELSE "free"]
  /\ mail = [b \in Pid |-> 0]
  /\ runq = [w \in Worker |->
               SelectSeq([i \in 1..Hosted |-> i],
                         LAMBDA b : (b - 1) % NumWorkers = w)]
  /\ run_queue = <<>> /\ next_worker = Hosted % NumWorkers
  /\ pc = [w \in Worker |-> "loop"]
  /\ hand = [w \in Worker |-> None]
  /\ target = [w \in Worker |-> None]
  /\ seen = [w \in Worker |-> <<0, 0>>]
  /\ total_spawned = Hosted /\ total_terminated = 0 /\ blocks_in_flight = 0
  /\ stopped = FALSE
  /\ counted = [b \in Pid |-> 0] /\ raced = {} /\ dropped = {}
  /\ ops = 0 /\ kills = 0

(* worker_loop *)

\* the test of worker->state and deque_pop, from the end the owner pushes at
Pop(w) ==
  /\ pc[w] = "loop"
  /\ IF stopped THEN goto(w, "left") /\ UNCHANGED <<runq, hand>>
     ELSE IF runq[w] = <<>> THEN goto(w, "steal") /\ UNCHANGED <<runq, hand>>
     ELSE /\ hand' = [hand EXCEPT ![w] = runq[w][Len(runq[w])]]
          /\ runq' = [runq EXCEPT ![w] = SubSeq(@, 1, Len(@) - 1)]
          /\ goto(w, "found")
  /\ UNCHANGED <<state, mail, run_queue, next_worker, target, seen, counters,
                 stopped, history, bounds>>

\* Mutant: the stolen block stays in the victim's deque.
StealCopies(w) ==
  /\ pc[w] = "steal"
  /\ \/ /\ \A v \in Worker \ {w} : runq[v] = <<>>
        /\ goto(w, "idle") /\ UNCHANGED hand
     \/ \E v \in Worker \ {w} :
          /\ runq[v] # <<>>
          /\ hand' = [hand EXCEPT ![w] = Head(runq[v])]
          /\ goto(w, "found")
  /\ UNCHANGED <<state, mail, queues, target, seen, counters, stopped, history,
                 bounds>>

\* worker_steal: the oldest block of a victim
Steal(w) ==
  /\ pc[w] = "steal"
  /\ \/ /\ \A v \in Worker \ {w} : runq[v] = <<>>
        /\ goto(w, "idle") /\ UNCHANGED <<runq, hand>>
     \/ \E v \in Worker \ {w} :
          /\ runq[v] # <<>>
          /\ hand' = [hand EXCEPT ![w] = Head(runq[v])]
          /\ runq' = [runq EXCEPT ![v] = Tail(@)]
          /\ goto(w, "found")
  /\ UNCHANGED <<state, mail, run_queue, next_worker, target, seen, counters,
                 stopped, history, bounds>>

\* Mutant: blocks_in_flight is not incremented.
EnterUncounted(w) ==
  /\ pc[w] = "found"
  /\ goto(w, "run")
  /\ UNCHANGED <<state, mail, queues, hand, target, seen, counters, stopped,
                 history, bounds>>

\* fetch_add(blocks_in_flight); vm_run is entered whatever the block's state
Enter(w) ==
  /\ pc[w] = "found"
  /\ blocks_in_flight' = blocks_in_flight + 1
  /\ goto(w, "run")
  /\ UNCHANGED <<state, mail, queues, hand, target, seen, total_spawned,
                 total_terminated, stopped, history, bounds>>

\* Mutant: a block that yields is not put back.
YieldDropped(w) ==
  /\ pc[w] \in {"run", "yield"}
  /\ goto(w, "done")
  /\ UNCHANGED <<state, mail, queues, hand, target, seen, counters, stopped,
                 history, bounds>>

\* vm_run returns VM_YIELD at OP_YIELD, at the reduction limit or from a
\* receive_timeout; the block goes back on the deque only if it is RUNNABLE
Yield(w) ==
  /\ pc[w] \in {"run", "yield"}
  /\ IF state[hand[w]] = "runnable" THEN put(w, hand[w]) ELSE UNCHANGED runq
  /\ goto(w, "done")
  /\ UNCHANGED <<state, mail, run_queue, next_worker, hand, target, seen,
                 counters, stopped, history, bounds>>

\* VM_OK, VM_HALT and every error, a send to a dead block or to a full
\* mailbox among them
Finish(w) ==
  /\ pc[w] = "run"
  /\ state' = [state EXCEPT ![hand[w]] = "dead"]
  /\ goto(w, "count")
  /\ UNCHANGED <<mail, queues, hand, target, seen, counters, stopped, history,
                 bounds>>

CountDeath(w) ==
  /\ pc[w] = "count"
  /\ total_terminated' = total_terminated + 1
  /\ counted' = [counted EXCEPT ![hand[w]] = @ + 1]
  /\ goto(w, "done")
  /\ UNCHANGED <<state, mail, queues, hand, target, seen, total_spawned,
                 blocks_in_flight, stopped, raced, dropped, bounds>>

\* fetch_sub(blocks_in_flight)
Exit(w) ==
  /\ pc[w] = "done"
  /\ blocks_in_flight' = blocks_in_flight - 1
  /\ hand' = [hand EXCEPT ![w] = None]
  /\ goto(w, "loop")
  /\ UNCHANGED <<state, mail, queues, target, seen, total_spawned,
                 total_terminated, stopped, history, bounds>>

\* an idle turn that does not ask all_work_done
Idle(w) ==
  /\ pc[w] = "idle" /\ goto(w, "loop")
  /\ UNCHANGED <<state, mail, queues, hand, target, seen, counters, stopped,
                 history, bounds>>

\* every hundredth idle turn does; it loads its counters one after the other
LoadSpawned(w) ==
  /\ pc[w] = "idle" /\ goto(w, "spawned")
  /\ seen' = [seen EXCEPT ![w] = <<total_spawned, 0>>]
  /\ UNCHANGED <<state, mail, queues, hand, target, counters, stopped, history,
                 bounds>>

LoadTerminated(w) ==
  /\ pc[w] = "spawned"
  /\ seen' = [seen EXCEPT ![w] = <<@[1], total_terminated>>]
  /\ goto(w, "terminated")
  /\ UNCHANGED <<state, mail, queues, hand, target, counters, stopped, history,
                 bounds>>

LoadInFlight(w) ==
  /\ pc[w] = "terminated"
  /\ LET spawned == seen[w][1]
         terminated == seen[w][2]
     IN  IF spawned > 0 /\ terminated >= spawned /\ blocks_in_flight = 0
         THEN goto(w, "left") ELSE goto(w, "loop")
  /\ seen' = [seen EXCEPT ![w] = <<0, 0>>]
  /\ UNCHANGED <<state, mail, queues, hand, target, counters, stopped, history,
                 bounds>>

(* vm_run on an empty mailbox *)

\* OP_RECEIVE and OP_RECEIVE_TIMEOUT on an empty mailbox: the pop that finds
\* nothing, and later the store of BLOCK_WAITING
ReceiveNothing(w) ==
  /\ pc[w] = "run" /\ mail[hand[w]] = 0
  /\ goto(w, "wait") \/ goto(w, "doze")
  /\ UNCHANGED <<state, mail, queues, hand, target, seen, counters, stopped,
                 history, bounds>>

\* OP_RECEIVE returns VM_WAITING, OP_RECEIVE_TIMEOUT returns VM_YIELD
Wait(w) ==
  /\ pc[w] \in {"wait", "doze"}
  /\ state' = [state EXCEPT ![hand[w]] = "waiting"]
  /\ goto(w, IF pc[w] = "wait" THEN "done" ELSE "yield")
  /\ UNCHANGED <<mail, queues, hand, target, seen, counters, stopped, history,
                 bounds>>

(* Opcodes; hand[w] is the block that executes them *)

Executes(w) ==
  /\ pc[w] = "run" /\ ops < MaxOps /\ ops' = ops + 1
  /\ UNCHANGED <<hand, seen, stopped>>

Receive(w) ==
  /\ pc[w] = "run" /\ mail[hand[w]] > 0
  /\ mail' = [mail EXCEPT ![hand[w]] = @ - 1]
  /\ UNCHANGED <<state, queues, pc, hand, target, seen, counters, stopped,
                 history, bounds>>

\* OP_SEND to a live block: block_send
Send(w, t) ==
  /\ Executes(w) /\ state[t] \notin {"free", "dead"} /\ mail[t] < MaxMail
  /\ mail' = [mail EXCEPT ![t] = @ + 1]
  /\ with(w, "wake", t)
  /\ UNCHANGED <<state, queues, counters, history, kills>>

\* if (target->state == BLOCK_WAITING)
LoadTarget(w) ==
  /\ pc[w] = "wake"
  /\ IF state[target[w]] = "waiting" THEN with(w, "queue", target[w])
                                     ELSE over(w, "run")
  /\ UNCHANGED <<state, mail, queues, hand, seen, counters, stopped, history,
                 bounds>>

\* target->state = BLOCK_RUNNABLE
WakeTarget(w) ==
  /\ pc[w] = "queue"
  /\ state' = [state EXCEPT ![target[w]] = "runnable"]
  /\ goto(w, "push")
  /\ UNCHANGED <<mail, queues, hand, target, seen, counters, stopped, history,
                 bounds>>

\* scheduler_enqueue: the run queue of the scheduler, under its lock
EnqueueTarget(w) ==
  /\ pc[w] = "push"
  /\ run_queue' = IF state[target[w]] = "runnable"
                  THEN Append(run_queue, target[w]) ELSE run_queue
  /\ over(w, "run")
  /\ UNCHANGED <<state, mail, runq, next_worker, hand, seen, counters, stopped,
                 history, bounds>>

\* OP_SPAWN: scheduler_spawn_ex hands the block to the next worker ...
Spawn(w) ==
  /\ Executes(w) /\ goto(w, "counts")
  /\ \E b \in Pid :
       /\ state[b] = "free" /\ \A a \in Pid : a < b => state[a] # "free"
       /\ state' = [state EXCEPT ![b] = "runnable"]
       /\ put(next_worker, b)
  /\ next_worker' = (next_worker + 1) % NumWorkers
  /\ UNCHANGED <<mail, run_queue, target, counters, history, kills>>

\* Mutant: the spawned block is not counted.
CountSpawnForgotten(w) ==
  /\ pc[w] = "counts"
  /\ goto(w, "run")
  /\ UNCHANGED <<state, mail, queues, hand, target, seen, counters, stopped,
                 history, bounds>>

\* ... and counts it afterwards
CountSpawn(w) ==
  /\ pc[w] = "counts"
  /\ total_spawned' = total_spawned + 1
  /\ goto(w, "run")
  /\ UNCHANGED <<state, mail, queues, hand, target, seen, total_terminated,
                 blocks_in_flight, stopped, history, bounds>>

(* OP_SUP_REMOVE_CHILD and OP_SUP_SHUTDOWN: scheduler_kill of a child *)

Kill(w, c) ==
  /\ pc[w] = "run" /\ kills < MaxKills /\ kills' = kills + 1
  /\ c # hand[w] /\ state[c] \notin {"free", "dead"}
  /\ with(w, "kill", c)
  /\ UNCHANGED <<state, mail, queues, hand, seen, counters, stopped, history,
                 ops>>

\* block_crash
KillStore(w) ==
  /\ pc[w] = "kill"
  /\ state' = [state EXCEPT ![target[w]] = "dead"]
  /\ goto(w, "unqueue")
  /\ UNCHANGED <<mail, queues, hand, target, seen, counters, stopped, history,
                 bounds>>

\* The state is tested after the crash, so a block is taken off run_queue only
\* if a send made it RUNNABLE in between.  The links of a block that is not in
\* the list are NULL, and its removal then empties the list.
Unqueue(w) ==
  /\ pc[w] = "unqueue"
  /\ LET t == target[w] IN
       IF state[t] # "runnable" THEN UNCHANGED <<run_queue, dropped>>
       ELSE /\ run_queue' = IF t \in Range(run_queue)
                            THEN SelectSeq(run_queue, LAMBDA b : b # t) ELSE <<>>
            /\ dropped' = dropped \cup (Range(run_queue) \ Range(run_queue'))
  /\ goto(w, "tally")
  /\ UNCHANGED <<state, mail, runq, next_worker, hand, target, seen, counters,
                 stopped, counted, raced, bounds>>

\* Mutant: a kill does not count.
KillUncounted(w) ==
  /\ pc[w] = "tally" /\ goto(w, "links")
  /\ UNCHANGED <<state, mail, queues, hand, target, seen, counters, stopped,
                 history, bounds>>

\* total_terminated++
KillCount(w) ==
  /\ pc[w] = "tally" /\ goto(w, "links")
  /\ total_terminated' = total_terminated + 1
  /\ counted' = [counted EXCEPT ![target[w]] = @ + 1]
  /\ UNCHANGED <<state, mail, queues, hand, target, seen, total_spawned,
                 blocks_in_flight, stopped, raced, dropped, bounds>>

\* scheduler_propagate_exit: the killed block has at most one link that is
\* left, to any live block, which traps the exit or is crashed in its turn
Propagate(w) ==
  /\ pc[w] = "links"
  /\ \/ over(w, "run")
     \/ \E l \in Pid \ {target[w]} :
          /\ state[l] \notin {"free", "dead"}
          /\ with(w, "trap", l) \/ with(w, "kill", l)
  /\ UNCHANGED <<state, mail, queues, hand, seen, counters, stopped, history,
                 bounds>>

\* the exit message, and the transition of scheduler_wake_block
Trap(w) ==
  /\ pc[w] = "trap"
  /\ LET t == target[w] IN
       /\ mail' = IF state[t] # "dead" /\ mail[t] < MaxMail
                  THEN [mail EXCEPT ![t] = @ + 1] ELSE mail
       /\ IF state[t] = "waiting"
          THEN /\ state' = [state EXCEPT ![t] = "runnable"]
               /\ raced' = IF \E v \in Worker : hand[v] = t /\ pc[v] = "yield"
                           THEN raced \cup {t} ELSE raced
               /\ with(w, "enqueue", t)
          ELSE over(w, "run") /\ UNCHANGED <<state, raced>>
  /\ UNCHANGED <<queues, hand, seen, counters, stopped, counted, dropped,
                 bounds>>

\* worker_enqueue to the next worker
WakeEnqueue(w) ==
  /\ pc[w] = "enqueue"
  /\ put(next_worker, target[w])
  /\ next_worker' = (next_worker + 1) % NumWorkers
  /\ over(w, "run")
  /\ UNCHANGED <<state, mail, run_queue, hand, seen, counters, stopped, history,
                 bounds>>

Stop ==
  /\ MayStop /\ ~stopped /\ stopped' = TRUE
  /\ UNCHANGED <<state, mail, queues, pc, hand, target, seen, counters, history,
                 bounds>>

Loop(w) == \/ Pop(w) \/ Steal(w) \/ Enter(w) \/ Yield(w) \/ Finish(w)
           \/ CountDeath(w) \/ Exit(w)
           \/ Idle(w) \/ LoadSpawned(w) \/ LoadTerminated(w) \/ LoadInFlight(w)

Opcode(w) == \/ Receive(w) \/ ReceiveNothing(w) \/ Spawn(w)
             \/ \E t \in Pid : Send(w, t) \/ Kill(w, t)

Proceed(w) == \/ Wait(w) \/ LoadTarget(w) \/ WakeTarget(w)
              \/ EnqueueTarget(w) \/ CountSpawn(w)
              \/ KillStore(w) \/ Unqueue(w) \/ KillCount(w) \/ Propagate(w)
              \/ Trap(w) \/ WakeEnqueue(w)

Next == Stop \/ \E w \in Worker : Loop(w) \/ Opcode(w) \/ Proceed(w)

Spec == Init /\ [][Next]_vars

(***************************************************************************)
(* Worker threads are never suspended for good, the reduction limit ends   *)
(* every vm_run, and the idle counter reaches the interval at which a      *)
(* worker asks whether all work is done.                                   *)
(***************************************************************************)
FairSpec ==
  Spec /\ \A w \in Worker : /\ WF_vars(Loop(w) \/ Proceed(w))
                            /\ SF_vars(LoadSpawned(w))
-----------------------------------------------------------------------------
TypeOK ==
  /\ state \in [Pid -> {"free", "runnable", "waiting", "dead"}]
  /\ mail \in [Pid -> 0..MaxMail]
  /\ runq \in [Worker -> Seq(Pid)] /\ run_queue \in Seq(Pid)
  /\ next_worker \in Worker
  /\ pc \in [Worker -> Location]
  /\ hand \in [Worker -> Pid \cup {None}]
  /\ target \in [Worker -> Pid \cup {None}]
  /\ seen \in [Worker -> Nat \X Nat]
  /\ total_spawned \in Hosted..MaxBlocks
  /\ total_terminated \in Nat
  /\ blocks_in_flight \in 0..NumWorkers
  /\ stopped \in BOOLEAN /\ counted \in [Pid -> Nat]
  /\ raced \subseteq Pid /\ dropped \subseteq Pid
  /\ ops \in 0..MaxOps /\ kills \in 0..MaxKills

Holds(w) == pc[w] \notin {"loop", "steal", "done", "idle", "spawned",
                          "terminated", "left"}

(***************************************************************************)
(* No two workers run the same block, stolen, spawned or woken, except one *)
(* that was woken between storing BLOCK_WAITING in receive_timeout and its *)
(* own worker's test of the state: then both the waker and the worker      *)
(* queue it.                                                               *)
(***************************************************************************)
RunsAlone ==
  \A v, w \in Worker :
    v # w /\ Holds(v) /\ Holds(w) /\ hand[v] = hand[w] => hand[v] \in raced

(***************************************************************************)
(* A runnable block is never dropped: it is in some deque, in a worker's   *)
(* hand, in the scheduler's run queue, or about to be put there by the     *)
(* worker that woke it.  The exception is what a kill takes off the run    *)
(* queue when it finds that a send has revived its victim.                 *)
(***************************************************************************)
RunnableIsHeld ==
  \A b \in Pid : state[b] = "runnable" =>
    \/ b \in dropped
    \/ b \in Range(run_queue)
    \/ \E w \in Worker : \/ b \in Range(runq[w])
                         \/ hand[w] = b /\ Holds(w)
                         \/ target[w] = b /\ pc[w] \in {"push", "enqueue"}

(***************************************************************************)
(* Workers that were not stopped have all left only if every spawned block *)
(* has been counted as terminated, or some block was counted twice: the    *)
(* three separate loads of all_work_done, and a spawn that is counted      *)
(* after its block can already run, never make the last worker leave.      *)
(***************************************************************************)
AllLeft == \A w \in Worker : pc[w] = "left"

LastLeavesWhenCounted ==
  AllLeft /\ ~stopped =>
    \/ \A b \in Pid : state[b] # "free" => counted[b] > 0
    \/ \E b \in Pid : counted[b] > 1

(***************************************************************************)
(* scheduler_run returns: once every block is dead and no worker holds     *)
(* one, all workers leave, unless a killed block comes back to life first. *)
(* Every way a block can die, however deaths, kills and spawns interleave, *)
(* leaves total_terminated at least as large as total_spawned.             *)
(***************************************************************************)
AllDone == /\ \A b \in Pid : state[b] \in {"free", "dead"}
           /\ \A w \in Worker : hand[w] = None

DoneIsNoticed ==
  AllDone ~> (AllLeft \/ \E b \in Pid : state[b] \notin {"free", "dead"})

(***************************************************************************)
(* "Only terminate when all blocks are done AND none are in-flight"        *)
(* (src/runtime/worker.c): the workers have all left only when every block *)
(* is dead.  A block killed in a deque is run and counted again, which     *)
(* makes up for one that is not done.                                      *)
(***************************************************************************)
LeaveWhenDone ==
  AllLeft /\ ~stopped => \A b \in Pid : state[b] \in {"free", "dead"}

(***************************************************************************)
(* "Wake target if waiting" (src/vm/vm.c): a block that a send makes       *)
(* runnable is eventually run by some worker.  scheduler_enqueue puts it   *)
(* on the scheduler's run queue, which no worker looks at.                 *)
(***************************************************************************)
WokenRuns ==
  \A b \in Pid :
    (\E w \in Worker : pc[w] = "push" /\ target[w] = b /\ state[b] = "runnable")
      ~> (stopped \/ state[b] = "dead" \/ \E w \in Worker : hand[w] = b /\ Holds(w))
=============================================================================
