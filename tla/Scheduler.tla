------------------------------ MODULE Scheduler ------------------------------
(***************************************************************************)
(* The single-threaded scheduler (src/runtime/scheduler.c with             *)
(* worker_count = 0), the life cycle, links and monitors of blocks         *)
(* (src/runtime/block.c), and the process, supervisor and group opcodes by *)
(* which a running block acts on the others (src/vm/vm.c).                 *)
(*                                                                         *)
(* scheduler_step is split where bytecode runs: Step dequeues a block and  *)
(* enters vm_run, each opcode that touches another block is an action of   *)
(* the current block, and Yield, Wait and Stop are the ways vm_run returns *)
(* with the rest of scheduler_step that follows.  scheduler_kill and the   *)
(* recursive scheduler_propagate_exit run as frames of `calls', one link a *)
(* step; nothing else moves until the frames are gone.                     *)
(*                                                                         *)
(* Mailboxes are bounded sequences here: Mailbox.tla shows the lock-free   *)
(* queue to be one.  An opcode that fails (a missing capability, a dead or *)
(* unknown target, a full mailbox, no slot in the registry) returns a VM   *)
(* error, which is the action Fail.                                        *)
(***************************************************************************)
EXTENDS Naturals, Sequences, FiniteSets, Functions

CONSTANTS MaxBlocks,    \* config.max_blocks
          Hosted,       \* blocks the host spawns before scheduler_run
          InitialCaps,  \* [1..Hosted -> SUBSET Capability] it grants them
          MaxMail,      \* limits.max_mailbox_size
          MaxOps,       \* bound: opcodes that touch other blocks
          MaxKills,     \* bound: scheduler_kill calls of the host
          None

Pid == 1..MaxBlocks
Capability ==
  {"SPAWN", "SEND", "RECEIVE", "LINK", "MONITOR", "TRAP_EXIT", "SUPERVISE"}

ASSUME SchedulerAssumption ==
  /\ MaxBlocks \in Nat /\ Hosted \in 1..MaxBlocks
  /\ InitialCaps \in [1..Hosted -> SUBSET Capability]
  /\ MaxMail \in Nat /\ MaxOps \in Nat /\ MaxKills \in Nat
  /\ None \notin Nat

VARIABLES state,       \* block->state, "free" before the pid is spawned
          caps,        \* block->capabilities
          abnormal,    \* blocks with an exit_code or exit_reason set
          mailbox,
          links, monitors, monitored_by,
          supervisor,  \* None, or the child pids of block->supervisor
          run_queue,
          current,     \* scheduler->current
          group,       \* members of one process group
          calls,       \* frames of scheduler_kill / scheduler_propagate_exit
          counted,     \* total_terminated, kept apart by block
          ops, kills   \* bounds

relations == <<links, monitors, monitored_by>>
bounds == <<ops, kills>>
vars == <<state, caps, abnormal, mailbox, relations, supervisor, run_queue,
          current, group, calls, counted, bounds>>

BlockState == {"free", "runnable", "running", "waiting", "dead"}
Message == {"user", "group", "exit", "down"} \X Pid
                                         \X {"none", "normal", "crash", "noproc"}

Alive(p) == state[p] \notin {"free", "dead"}
NextPid == CHOOSE p \in Pid : state[p] = "free"
                              /\ \A q \in Pid : q < p => state[q] # "free"
HasRoom == \E p \in Pid : state[p] = "free"

\* block_link and block_monitor append unless the pid is there already
With(s, p) == IF p \in Range(s) THEN s ELSE Append(s, p)

\* block_unlink and block_demonitor move the last entry into the gap
Without(s, p) ==
  IF p \notin Range(s) THEN s
  ELSE LET i == CHOOSE k \in DOMAIN s : s[k] = p
       IN  SubSeq([s EXCEPT ![i] = s[Len(s)]], 1, Len(s) - 1)

Post(mb, to, m) ==
  [q \in Pid |-> IF q \in to /\ Len(mb[q]) < MaxMail
                 THEN Append(mb[q], m) ELSE mb[q]]
Reached(mb, to) == {q \in to : Len(mb[q]) < MaxMail}
-----------------------------------------------------------------------------
Init ==
  /\ state = [p \in Pid |-> IF p <= Hosted THEN "runnable" ELSE "free"]
  /\ caps = [p \in Pid |-> IF p <= Hosted THEN InitialCaps[p] ELSE {}]
  /\ abnormal = {} /\ mailbox = [p \in Pid |-> <<>>]
  /\ links = [p \in Pid |-> <<>>]
  /\ monitors = [p \in Pid |-> <<>>]
  /\ monitored_by = [p \in Pid |-> <<>>]
  /\ supervisor = [p \in Pid |-> None]
  /\ run_queue = [i \in 1..Hosted |-> i]
  /\ current = None /\ group = {} /\ calls = <<>>
  /\ counted = [p \in Pid |-> 0]
  /\ ops = 0 /\ kills = 0

\* Mutant: a normal exit takes linked blocks with it.
CrashedWithAlways(linked, error) == {l \in linked : "TRAP_EXIT" \notin caps[l]}

\* the linked blocks an exit takes with it
CrashedWith(linked, error) ==
  {l \in linked : error /\ "TRAP_EXIT" \notin caps[l]}

(***************************************************************************)
(* scheduler_step after a block has ended: every live linked block is sent *)
(* an exit message if it traps exits, or crashed if the end was an error,  *)
(* and loses the link; then every live monitor is sent a down message and  *)
(* forgets the block.  st and q are the states and the queue so far.       *)
(* block_crash stores BLOCK_DEAD before the test for BLOCK_RUNNABLE, so    *)
(* scheduler_runqueue_remove is never called.                              *)
(***************************************************************************)
Ended(p, error, st, q) ==
  LET reason  == IF error THEN "crash" ELSE "normal"
      linked  == {l \in Range(links[p]) : st[l] \notin {"free", "dead"}}
      trapped == {l \in linked : "TRAP_EXIT" \in caps[l]}
      crashed == CrashedWith(linked, error)
      told    == Reached(mailbox, trapped)
      woken1  == {l \in told : st[l] = "waiting"}
      st1     == [b \in Pid |-> IF b \in crashed THEN "dead"
                                ELSE IF b \in woken1 THEN "runnable" ELSE st[b]]
      mb1     == Post(mailbox, trapped, <<"exit", p, reason>>)
      watch   == {m \in Range(monitored_by[p]) : st1[m] \notin {"free", "dead"}}
      woken2  == {m \in Reached(mb1, watch) : st1[m] = "waiting"}
  IN  /\ state' = [b \in Pid |-> IF b \in woken2 THEN "runnable" ELSE st1[b]]
      /\ mailbox' = Post(mb1, watch, <<"down", p, reason>>)
      /\ run_queue' = q \o SelectSeq(links[p], LAMBDA b : b \in woken1)
                        \o SelectSeq(monitored_by[p], LAMBDA b : b \in woken2)
      /\ links' = [b \in Pid |-> IF b \in linked THEN Without(links[b], p)
                                                 ELSE links[b]]
      /\ monitors' = [b \in Pid |-> IF b \in watch THEN Without(monitors[b], p)
                                                   ELSE monitors[b]]
      /\ abnormal' = abnormal \cup crashed \cup (IF error THEN {p} ELSE {})
      /\ counted' = [counted EXCEPT ![p] = @ + 1]
      /\ current' = None
      /\ UNCHANGED <<caps, monitored_by, supervisor, group, calls, bounds>>

\* scheduler_step dequeues and block_run enters vm_run; a block found waiting
\* would be dropped, a dead one is reported as halted and so ends once more
Step ==
  /\ current = None /\ calls = <<>> /\ run_queue # <<>>
  /\ LET b == Head(run_queue) IN
       IF state[b] = "dead" THEN Ended(b, FALSE, state, Tail(run_queue))
       ELSE /\ current' = IF state[b] = "runnable" THEN b ELSE None
            /\ state' = IF state[b] = "runnable"
                        THEN [state EXCEPT ![b] = "running"] ELSE state
            /\ run_queue' = Tail(run_queue)
            /\ UNCHANGED <<caps, abnormal, mailbox, relations, supervisor,
                           group, calls, counted, bounds>>

(* How vm_run returns *)

\* Mutant: the block is not queued again.
YieldForgotten ==
  /\ current # None /\ calls = <<>>
  /\ state' = [state EXCEPT ![current] = "runnable"]
  /\ current' = None
  /\ UNCHANGED <<caps, abnormal, mailbox, relations, supervisor, run_queue,
                 group, calls, counted, bounds>>

\* VM_YIELD: OP_YIELD, the reduction limit, or a receive_timeout that waits
Yield ==
  /\ current # None /\ calls = <<>>
  /\ state' = [state EXCEPT ![current] = "runnable"]
  /\ run_queue' = Append(run_queue, current)
  /\ current' = None
  /\ UNCHANGED <<caps, abnormal, mailbox, relations, supervisor, group, calls,
                 counted, bounds>>

\* VM_WAITING: OP_RECEIVE on an empty mailbox
Wait ==
  /\ current # None /\ calls = <<>>
  /\ "RECEIVE" \in caps[current] /\ mailbox[current] = <<>>
  /\ state' = [state EXCEPT ![current] = "waiting"]
  /\ current' = None
  /\ UNCHANGED <<caps, abnormal, mailbox, relations, supervisor, run_queue,
                 group, calls, counted, bounds>>

\* VM_OK and VM_HALT
Finish ==
  /\ current # None /\ calls = <<>>
  /\ Ended(current, FALSE, [state EXCEPT ![current] = "dead"], run_queue)

\* any VM_ERROR_*: block_crash
Fail ==
  /\ current # None /\ calls = <<>>
  /\ Ended(current, TRUE, [state EXCEPT ![current] = "dead"], run_queue)

(* Opcodes of the current block, p *)

Executes(p) ==
  /\ current = p /\ calls = <<>>
  /\ ops < MaxOps /\ ops' = ops + 1
  /\ UNCHANGED <<current, counted, kills>>

Receive(p) ==
  /\ Executes(p) /\ "RECEIVE" \in caps[p] /\ mailbox[p] # <<>>
  /\ mailbox' = [mailbox EXCEPT ![p] = Tail(@)]
  /\ UNCHANGED <<state, caps, abnormal, relations, supervisor, run_queue,
                 group, calls>>

\* Mutant: the mailbox limit is not enforced.
SendUnlimited(p, t) ==
  /\ Executes(p) /\ "SEND" \in caps[p] /\ Alive(t)
  /\ mailbox' = [mailbox EXCEPT ![t] = Append(@, <<"user", p, "none">>)]
  /\ IF state[t] = "waiting"
     THEN /\ state' = [state EXCEPT ![t] = "runnable"]
          /\ run_queue' = Append(run_queue, t)
     ELSE UNCHANGED <<state, run_queue>>
  /\ UNCHANGED <<caps, abnormal, relations, supervisor, group, calls>>

\* Mutant: any target that is not running is queued.
SendQueuesAgain(p, t) ==
  /\ Executes(p) /\ "SEND" \in caps[p] /\ Alive(t)
  /\ Len(mailbox[t]) < MaxMail
  /\ mailbox' = [mailbox EXCEPT ![t] = Append(@, <<"user", p, "none">>)]
  /\ IF state[t] # "running"
     THEN /\ state' = [state EXCEPT ![t] = "runnable"]
          /\ run_queue' = Append(run_queue, t)
     ELSE UNCHANGED <<state, run_queue>>
  /\ UNCHANGED <<caps, abnormal, relations, supervisor, group, calls>>

\* Mutant: the target is not woken.
SendSilent(p, t) ==
  /\ Executes(p) /\ "SEND" \in caps[p] /\ Alive(t)
  /\ Len(mailbox[t]) < MaxMail
  /\ mailbox' = [mailbox EXCEPT ![t] = Append(@, <<"user", p, "none">>)]
  /\ UNCHANGED <<state, run_queue, caps, abnormal, relations, supervisor,
                 group, calls>>

\* OP_SEND: block_send, then wake the target
Send(p, t) ==
  /\ Executes(p) /\ "SEND" \in caps[p] /\ Alive(t)
  /\ Len(mailbox[t]) < MaxMail
  /\ mailbox' = [mailbox EXCEPT ![t] = Append(@, <<"user", p, "none">>)]
  /\ IF state[t] = "waiting"
     THEN /\ state' = [state EXCEPT ![t] = "runnable"]
          /\ run_queue' = Append(run_queue, t)
     ELSE UNCHANGED <<state, run_queue>>
  /\ UNCHANGED <<caps, abnormal, relations, supervisor, group, calls>>

\* scheduler_spawn_ex, reached from OP_SPAWN and from child_spec_start
Spawned(c, granted) ==
  /\ state' = [state EXCEPT ![c] = "runnable"]
  /\ caps' = [caps EXCEPT ![c] = granted]
  /\ run_queue' = Append(run_queue, c)

Spawn(p) ==
  /\ Executes(p) /\ "SPAWN" \in caps[p] /\ HasRoom
  /\ Spawned(NextPid, caps[p] \ {"SPAWN"})
  /\ UNCHANGED <<abnormal, mailbox, relations, supervisor, group, calls>>

Link(p, t) ==
  /\ Executes(p) /\ "LINK" \in caps[p] /\ Alive(t)
  /\ links' = [b \in Pid |-> IF b = p THEN With(links[p], t)
                             ELSE IF b = t THEN With(links[t], p) ELSE links[b]]
  /\ UNCHANGED <<state, caps, abnormal, mailbox, monitors, monitored_by,
                 supervisor, run_queue, group, calls>>

\* Mutant: only the caller's list is edited.
UnlinkOneSided(p, t) ==
  /\ Executes(p) /\ state[t] # "free"
  /\ links' = [links EXCEPT ![p] = Without(@, t)]
  /\ UNCHANGED <<state, caps, abnormal, mailbox, monitors, monitored_by,
                 supervisor, run_queue, group, calls>>

Unlink(p, t) ==
  /\ Executes(p) /\ state[t] # "free"
  /\ links' = [b \in Pid |-> IF b = p THEN Without(links[p], t)
                             ELSE IF b = t THEN Without(links[t], p)
                             ELSE links[b]]
  /\ UNCHANGED <<state, caps, abnormal, mailbox, monitors, monitored_by,
                 supervisor, run_queue, group, calls>>

Monitor(p, t) ==
  /\ Executes(p) /\ "MONITOR" \in caps[p] /\ Alive(t)
  /\ monitors' = [monitors EXCEPT ![p] = With(@, t)]
  /\ monitored_by' = [monitored_by EXCEPT ![t] = With(@, p)]
  /\ UNCHANGED <<state, caps, abnormal, mailbox, links, supervisor, run_queue,
                 group, calls>>

\* OP_MONITOR of a block that is dead: an immediate down message
MonitorDead(p, t) ==
  /\ Executes(p) /\ "MONITOR" \in caps[p] /\ ~Alive(t)
  /\ mailbox' = Post(mailbox, {p}, <<"down", t, "noproc">>)
  /\ UNCHANGED <<state, caps, abnormal, relations, supervisor, run_queue,
                 group, calls>>

\* Mutant: the target keeps the caller in monitored_by.
DemonitorOneSided(p, t) ==
  /\ Executes(p) /\ state[t] # "free"
  /\ monitors' = [monitors EXCEPT ![p] = Without(@, t)]
  /\ UNCHANGED <<state, caps, abnormal, mailbox, links, monitored_by,
                 supervisor, run_queue, group, calls>>

Demonitor(p, t) ==
  /\ Executes(p) /\ state[t] # "free"
  /\ monitors' = [monitors EXCEPT ![p] = Without(@, t)]
  /\ monitored_by' = [monitored_by EXCEPT ![t] = Without(@, p)]
  /\ UNCHANGED <<state, caps, abnormal, mailbox, links, supervisor, run_queue,
                 group, calls>>

(* Supervisor opcodes *)

\* Mutant: CAP_TRAP_EXIT is not granted.
SupStartUntrapped(p) ==
  /\ Executes(p) /\ "SUPERVISE" \in caps[p]
  /\ supervisor' = [supervisor EXCEPT ![p] = <<>>]
  /\ UNCHANGED <<state, caps, abnormal, mailbox, relations, run_queue, group,
                 calls>>

\* supervisor_init_block grants CAP_TRAP_EXIT and installs a supervisor
SupStart(p) ==
  /\ Executes(p) /\ "SUPERVISE" \in caps[p]
  /\ caps' = [caps EXCEPT ![p] = @ \cup {"TRAP_EXIT"}]
  /\ supervisor' = [supervisor EXCEPT ![p] = <<>>]
  /\ UNCHANGED <<state, abnormal, mailbox, relations, run_queue, group, calls>>

\* child_spec_start: scheduler_spawn (no capabilities), then a link each way
SupAddChild(p) ==
  /\ Executes(p) /\ supervisor[p] # None /\ HasRoom
  /\ LET c == NextPid IN
       /\ Spawned(c, {})
       /\ links' = [links EXCEPT ![c] = With(@, p), ![p] = With(@, c)]
       /\ supervisor' = [supervisor EXCEPT ![p] = Append(@, c)]
  /\ UNCHANGED <<abnormal, mailbox, monitors, monitored_by, group, calls>>

Kill(p) == [pid |-> p, i |-> 0]   \* frame: scheduler_kill is being called

\* the last child takes the place of the one removed
SupRemoveChild(p, c) ==
  /\ Executes(p) /\ supervisor[p] # None
  /\ c \in Range(supervisor[p])
  /\ calls' = <<Kill(c)>>
  /\ supervisor' = [supervisor EXCEPT ![p] = Without(@, c)]
  /\ UNCHANGED <<state, caps, abnormal, mailbox, relations, run_queue, group>>

\* kills every child, last first; each child_pid becomes PID_INVALID, so no
\* later call finds it
SupShutdown(p) ==
  /\ Executes(p) /\ supervisor[p] # None
  /\ calls' = [k \in DOMAIN supervisor[p] |-> Kill(supervisor[p][k])]
  /\ supervisor' = [supervisor EXCEPT ![p] = <<>>]
  /\ UNCHANGED <<state, caps, abnormal, mailbox, relations, run_queue, group>>

(* Process groups *)

GroupJoin(p) ==
  /\ Executes(p) /\ p \notin group /\ group' = group \cup {p}
  /\ UNCHANGED <<state, caps, abnormal, mailbox, relations, supervisor,
                 run_queue, calls>>

GroupLeave(p) ==
  /\ Executes(p) /\ p \in group /\ group' = group \ {p}
  /\ UNCHANGED <<state, caps, abnormal, mailbox, relations, supervisor,
                 run_queue, calls>>

\* procgroup_broadcast and procgroup_broadcast_others: block_send and no wake
GroupSend(p, others) ==
  /\ Executes(p)
  /\ mailbox' = Post(mailbox,
                     {m \in group : Alive(m)} \ (IF others THEN {p} ELSE {}),
                     <<"group", p, "none">>)
  /\ UNCHANGED <<state, caps, abnormal, relations, supervisor, run_queue,
                 group, calls>>

(* scheduler_kill and scheduler_propagate_exit: the last frame runs *)

Frame == calls[Len(calls)]
Callers == SubSeq(calls, 1, Len(calls) - 1)

HostKill(p) ==
  /\ current = None /\ calls = <<>> /\ state[p] # "free"
  /\ kills < MaxKills /\ kills' = kills + 1
  /\ calls' = <<Kill(p)>>
  /\ UNCHANGED <<state, caps, abnormal, mailbox, relations, supervisor,
                 run_queue, current, group, counted, ops>>

\* block_crash: the frame goes on as scheduler_propagate_exit
Crash(p, callers) ==
  /\ state' = [state EXCEPT ![p] = "dead"]
  /\ abnormal' = abnormal \cup {p}
  /\ counted' = [counted EXCEPT ![p] = @ + 1]
  /\ calls' = Append(callers, [pid |-> p, i |-> 1])

KillBegins ==
  /\ calls # <<>> /\ Frame.i = 0
  /\ IF Alive(Frame.pid) THEN Crash(Frame.pid, Callers)
     ELSE calls' = Callers /\ UNCHANGED <<state, abnormal, counted>>
  /\ UNCHANGED <<caps, mailbox, relations, supervisor, run_queue, current,
                 group, bounds>>

(***************************************************************************)
(* One iteration of the loop over links[pid].  The supervisor call before  *)
(* the loop asks the exited block's own supervisor about the exited pid,   *)
(* which is never among its own children: it returns without effect.       *)
(***************************************************************************)
PropagateExit ==
  /\ calls # <<>> /\ Frame.i > 0
  /\ LET p == Frame.pid
         rest == Append(Callers, [Frame EXCEPT !.i = @ + 1]) IN
     IF Frame.i > Len(links[p])
     THEN calls' = Callers
          /\ UNCHANGED <<state, abnormal, counted, mailbox, links, run_queue>>
     ELSE LET l == links[p][Frame.i] IN
          IF ~Alive(l)
          THEN calls' = rest
               /\ UNCHANGED <<state, abnormal, counted, mailbox, links, run_queue>>
          ELSE /\ links' = [links EXCEPT ![l] = Without(@, p)]
               /\ IF "TRAP_EXIT" \in caps[l]
                  THEN /\ calls' = rest
                       /\ mailbox' = Post(mailbox, {l}, <<"exit", p, "crash">>)
                       /\ IF state[l] = "waiting"
                          THEN /\ state' = [state EXCEPT ![l] = "runnable"]
                               /\ run_queue' = Append(run_queue, l)
                          ELSE UNCHANGED <<state, run_queue>>
                       /\ UNCHANGED <<abnormal, counted>>
                  ELSE Crash(l, rest) /\ UNCHANGED <<mailbox, run_queue>>
  /\ UNCHANGED <<caps, monitors, monitored_by, supervisor, current, group,
                 bounds>>

Opcode(p) ==
  \/ Receive(p) \/ Spawn(p)
  \/ SupStart(p) \/ SupAddChild(p) \/ SupShutdown(p)
  \/ GroupJoin(p) \/ GroupLeave(p) \/ \E others \in BOOLEAN : GroupSend(p, others)
  \/ \E t \in Pid : \/ Send(p, t) \/ Link(p, t) \/ Unlink(p, t)
                    \/ Monitor(p, t) \/ MonitorDead(p, t) \/ Demonitor(p, t)
                    \/ SupRemoveChild(p, t)

Return == Yield \/ Wait \/ Finish \/ Fail
Unwind == KillBegins \/ PropagateExit

Next ==
  \/ Step \/ Return \/ Unwind
  \/ \E p \in Pid : Opcode(p) \/ HostKill(p)

Spec == Init /\ [][Next]_vars

(***************************************************************************)
(* scheduler_run calls scheduler_step in a loop, the reduction limit ends  *)
(* every vm_run, and the loops of the kill path are plain calls.           *)
(***************************************************************************)
FairSpec == Spec /\ WF_vars(Step) /\ WF_vars(Return) /\ WF_vars(Unwind)
-----------------------------------------------------------------------------
TypeOK ==
  /\ state \in [Pid -> BlockState]
  /\ caps \in [Pid -> SUBSET Capability]
  /\ abnormal \subseteq Pid
  /\ mailbox \in [Pid -> Seq(Message)]
  /\ \A p \in Pid : Len(mailbox[p]) <= MaxMail
  /\ links \in [Pid -> Seq(Pid)]
  /\ monitors \in [Pid -> Seq(Pid)]
  /\ monitored_by \in [Pid -> Seq(Pid)]
  /\ supervisor \in [Pid -> Seq(Pid) \cup {None}]
  /\ run_queue \in Seq(Pid)
  /\ current \in Pid \cup {None}
  /\ group \subseteq Pid
  /\ calls \in Seq([pid : Pid, i : Nat])
  /\ counted \in [Pid -> Nat]
  /\ ops \in 0..MaxOps /\ kills \in 0..MaxKills

(***************************************************************************)
(* The run queue links blocks through their own next and prev fields, so a *)
(* block pushed twice would tie the list in a knot, and one left out would *)
(* never run.  No sequence of wakes, yields, kills and exits pushes a      *)
(* queued block again, leaves a runnable block out of the queue, or queues *)
(* one that is waiting or running.                                         *)
(***************************************************************************)
QueueExact ==
  /\ \A i, j \in DOMAIN run_queue : run_queue[i] = run_queue[j] => i = j
  /\ \A p \in Pid : state[p] = "runnable" => p \in Range(run_queue)
  /\ \A p \in Range(run_queue) : state[p] \in {"runnable", "dead"}

(***************************************************************************)
(* A block waits in receive with mail only if a group broadcast put it     *)
(* there (procgroup_broadcast wakes nobody): send, exit and down messages  *)
(* always wake the receiver, whichever path delivers them.                 *)
(***************************************************************************)
WaitersAreWoken ==
  \A p \in Pid : state[p] = "waiting" =>
    \A i \in DOMAIN mailbox[p] : mailbox[p][i][1] = "group"

(***************************************************************************)
(* Two live blocks agree on whether they are linked, and on who monitors   *)
(* whom: link, unlink, monitor, demonitor and every exit path edit the two *)
(* blocks' lists together.                                                 *)
(***************************************************************************)
RelationsAgree ==
  \A p, q \in Pid : Alive(p) /\ Alive(q) =>
    /\ q \in Range(links[p]) <=> p \in Range(links[q])
    /\ q \in Range(monitors[p]) <=> p \in Range(monitored_by[q])

(***************************************************************************)
(* A dead block stays dead.  block_run stores BLOCK_RUNNABLE or            *)
(* BLOCK_WAITING without looking when vm_run returns, so a block crashed   *)
(* in the middle of its slice would be revived; a supervisor that shuts    *)
(* its children down is spared because it traps exits.                     *)
(***************************************************************************)
DeadIsFinal ==
  [][\A p \in Pid : state[p] = "dead" => state'[p] = "dead"]_vars

(***************************************************************************)
(* A block other than the running one dies only as the target of           *)
(* scheduler_kill, or because a block it is linked to crashed and it does  *)
(* not trap exits: normal exits never take others with them.               *)
(***************************************************************************)
Ending == IF calls = <<>> THEN current ELSE Frame.pid

BystandersDieByCrash ==
  [][\A q \in Pid :
       Alive(q) /\ q # current /\ state'[q] = "dead" =>
         \/ calls # <<>> /\ Frame = Kill(q)
         \/ /\ Ending \in abnormal' /\ Ending \in Range(links[q])
            /\ "TRAP_EXIT" \notin caps[q]]_vars

(***************************************************************************)
(* A down message about a block that ended goes only to a block that is    *)
(* monitoring it at that moment, and ends the monitoring: one monitor call *)
(* never yields two down messages.                                         *)
(***************************************************************************)
Arriving(m) ==
  {mailbox'[m][i] : i \in (Len(mailbox[m]) + 1)..Len(mailbox'[m])}

DownEndsMonitor ==
  [][\A m, t \in Pid :
       (\E r \in {"normal", "crash"} : <<"down", t, r>> \in Arriving(m)) =>
         t \in Range(monitors[m]) /\ t \notin Range(monitors'[m])]_vars

(***************************************************************************)
(* Every runnable block gets its turn or dies: the queue is served in      *)
(* order, every slice ends, and the recursion over links terminates on any *)
(* link graph, cycles included.                                            *)
(***************************************************************************)
RunnableRuns ==
  \A p \in Pid : state[p] = "runnable" ~> state[p] # "runnable"

(***************************************************************************)
(* "main exited abnormally (crashed), which propagates to linked           *)
(* processes" (tests/vm/test_integration_linking.c): between steps, a      *)
(* crashed block has no live linked block that does not trap exits.        *)
(* scheduler_step crashes the linked blocks of the block that failed but   *)
(* never follows their links.                                              *)
(***************************************************************************)
CrashReachesLinks ==
  current = None /\ calls = <<>> =>
    \A p \in abnormal : \A q \in Range(links[p]) :
      Alive(q) => "TRAP_EXIT" \in caps[q]

(***************************************************************************)
(* "Second kill should not increment count (already dead)"                 *)
(* (tests/vm/test_scheduler_exit.c): a block is counted in                 *)
(* total_terminated once.  A block killed while queued is dequeued later   *)
(* as halted and counted again.                                            *)
(***************************************************************************)
TerminatedOnce == \A p \in Pid : counted[p] <= 1
=============================================================================
