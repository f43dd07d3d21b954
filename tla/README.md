# A TLA+ verification of the Agim runtime

Agim runs agents as Erlang-style processes ("blocks") on a C runtime. This
directory models the core of that runtime, checks it with TLC on small
instances, and proves the mailbox correct with TLAPS. Paths below are relative
to the repository root; `PROJECT.json` maps every definition to source lines.

The development is at its first stage. The core of the process runtime is
modelled; most of the rest of the system is not. The modelled definitions stand
for about 1,700 of the roughly 35,000 source lines.

## The system

| Part | Source | Module |
|---|---|---|
| mailbox: lock-free queue of each block | `src/runtime/mailbox.c` | `MessageQueue`, `Mailbox`, `MailboxProofs` |
| work-stealing deque of each worker | `src/runtime/worker.c` | `WorkDeque` |
| worker threads | `src/runtime/worker.c`, `scheduler.c` | `Workers` |
| single-threaded scheduler | `src/runtime/scheduler.c` | `Scheduler` |
| blocks, links, monitors, capabilities, groups | `src/runtime/block.c`, `capability.h`, `procgroup.c` | `Scheduler` |
| process opcodes | `src/vm/vm.c` | `Scheduler`, `Workers` |
| supervisor, timers, hot reload, checkpoints, serialization | `src/runtime/` | planned |
| distribution | `src/dist/node.c` | planned |
| garbage collector, values, interpreter, register machine | `src/vm/`, `src/types/` | planned |
| language front end | `src/lang/` | partly planned |
| allocators | `src/util/` | planned |
| builtins, sandbox, telemetry, command line | `src/builtin/`, `src/debug/`, `cmd/` | not modelled: I/O and formatting |

A block has a mailbox, links, monitors and a virtual machine. With no workers,
`scheduler_run` serves one run queue from one thread. With workers, each thread
serves its own deque and steals from the others. Opcodes of a running block
change other blocks: they send, wake, spawn, link, monitor and kill.

## Modules

**MessageQueue** is what a mailbox promises: a FIFO queue that loses and repeats
nothing. **Mailbox** is the code. A step is one access to memory another thread
may touch. `PushCheck`, `PushExchange`, `PushLink`, `PushAdd` are `mailbox_push`
in order; `PopBegin` to `PopNull` are the branches of `mailbox_pop`, with the
re-insertion of the stub; `MailboxFree` is `mailbox_free`. `count` wraps modulo
`CountMod`, as a `size_t` does. `chain`, `sent`, `received`, `freed` are history.

**WorkDeque** has `deque_push` with `deque_grow`, `deque_pop` and `deque_steal`
by single accesses, with retired buffers freed two epochs later. A slot of a
fresh buffer is `Nobody`. `Enqueuers` are other threads that push, which
`worker_enqueue` allows.

**Scheduler** splits `scheduler_step` where bytecode runs. `Step` dequeues and
enters `vm_run`; an opcode that touches another block is an action; `Yield`,
`Wait`, `Finish`, `Fail` are the returns of `vm_run` with the rest of the step.
`scheduler_kill` and the recursive `scheduler_propagate_exit` run as frames of
`calls`. A failing opcode is `Fail`.

**Workers** has `worker_loop` and the opcodes by single shared accesses.
`all_work_done` is three separate loads. A kill is `Kill`, `KillStore`,
`Unqueue`, `KillCount`, `Propagate`, and a crash passed along a link repeats it.
A mailbox is a number of messages.

Abstractions shared by all: atomics are sequentially consistent, so reorderings
that only weaker memory orders allow are out of scope; allocation never fails;
message contents are dropped. **Workers takes a deque operation as atomic.**
`WorkDeque` supports that for the owner and thieves away from growth. It does not
support it for pushes by other threads (`deque_foreign`) or for a steal during
growth (`deque_growth`). The results of `Workers` are about the protocol above
the deque.

## Runs

| Run | Result | Bounds |
|---|---|---|
| `mailbox` | passes | 2 producers, 3 pushes each, limit 2, count modulo 8 |
| `mailbox_refusal` | violates `RefusedOnlyWhenFull` | 2 pushes each, limit 5 |
| `deque` | passes | owner and 1 thief, capacity 2, 8 pushes, 3 growths |
| `deque_growth` | violates `ReturnsPushed` | 5 pushes |
| `deque_foreign` | violates `WaitingOrClaimed` | 1 foreign pusher, 2 pushes |
| `scheduler` | passes | 3 blocks, 3 opcodes, 1 host kill, mailbox of 1 |
| `scheduler_crash` | violates `CrashReachesLinks` | 3 blocks, 2 opcodes |
| `scheduler_count` | violates `TerminatedOnce` | 3 blocks, 2 opcodes |
| `workers` | passes | 2 workers, 3 blocks, 1 send, 1 kill with cascades |
| `workers_end` | passes | 2 workers, 1 block and 1 it spawns, 1 kill |
| `workers_leave` | violates `LeaveWhenDone` | 2 workers, 3 blocks, 1 kill |
| `workers_wake` | violates `WokenRuns` | 2 workers, 2 blocks, 1 send |

What the passing runs show:

- `mailbox`: delivery is FIFO and lossless (`FifoDelivery`, `ImplementsQueue`);
  the limit is overshot by at most the producers in flight (`Overshoot`); count
  and list agree at rest (`CountSettles`); free releases the rest
  (`FreeReleasesRest`); a pop says NULL only on an empty queue or a half-done
  push (`NullOnlyMidPush`); what is accepted is received or freed
  (`AcceptedIsDone`).
- `deque`: no block is claimed twice (`ClaimedOnce`) or lost
  (`WaitingOrClaimed`), and a claim returns the block pushed there unless growth
  overtook the thief (`RightUnlessOvertaken`).
- `scheduler`: the run queue holds exactly the runnable blocks (`QueueExact`);
  messages wake waiters, group broadcasts excepted (`WaitersAreWoken`); links and
  monitors are symmetric (`RelationsAgree`); the dead stay dead (`DeadIsFinal`);
  only crashes spread (`BystandersDieByCrash`); a monitor fires once
  (`DownEndsMonitor`); a runnable block runs or dies (`RunnableRuns`).
- `workers`: no two workers run one block (`RunsAlone`) and no runnable block is
  dropped (`RunnableIsHeld`). Each excepts one race, recorded in a history
  variable: a wake inside the window of `receive_timeout` (`raced`), and a kill
  that meets a wake and empties the run queue (`dropped`).
- `workers_end`: workers leave once all blocks are dead (`DoneIsNoticed`). All
  leave only if every block was counted or one was counted twice
  (`LastLeavesWhenCounted`); `workers_leave` shows what the second case does.

The violations are recorded as findings, each with the line of a comment, test or
document it contradicts. For `deque_foreign` that line names the Chase-Lev
algorithm; that only the owner may push is a property of that algorithm, not a
sentence of the repository.

### Why the bounds

Two producers or workers give every pairwise race; races of three threads are
not covered. Capacity 2 with three growths reaches reclamation of the first
buffer. Three blocks allow a chain of links, and a sender, a killer and a victim.
`workers` leaves out spawn and `scheduler_stop` (`MayStop`); `workers_end` has
both with fewer blocks. Four blocks with all of them need 15 million states,
which were explored once for `TypeOK`, `RunsAlone`, `RunnableIsHeld` and
`LastLeavesWhenCounted` without a violation, too long to keep as a run. Four opcodes in
`scheduler` exceed eight million states, so longer histories are not covered.

Deadlock is not checked where the system may stop: a mailbox with nothing to
send, a scheduler whose blocks have all ended or wait, workers that have left.

### Fairness

`Mailbox`: a producer finishes a push it began, and the owner keeps polling.
`Scheduler`: `scheduler_run` loops, and the reduction limit ends every `vm_run`.
`Workers`: a thread is not suspended for good (weak fairness), and an idle
worker's counter reaches the interval of `all_work_done` (strong fairness of
`LoadSpawned`, which other idle turns disable again and again). No fairness is
assumed of opcodes, kills or stop.

## Proofs

`MailboxProofs` proves for any finite set of producers, any number of messages
and any limit, under `MailboxAssumption` (finite producers, limit below
`CountMod`, `Stub` and `Null` distinct from messages):

- `MailboxTypeCorrect`: `Spec => []TypeOK`;
- `MailboxFifo`: `Spec => []FifoDelivery`;
- `MailboxNull`: `Spec => NullOnlyMidPush`.

`FifoDelivery` is not inductive: it does not mention pointers. The invariant
`IInv` adds the chain, the nodes from head to tail in the order of the tail
exchanges. It has distinct nodes with head first and tail last (`ChainEnds`,
`ChainDistinct`); neighbours are linked unless a thread has yet to store exactly
that link (`ChainLinked`, `LinkersSound`); nodes before publication are in no
chain (`Unpublished`, `PushStarted`); the owner's locals agree with the chain
(`ConsumerSound`); and the chain without the stub is the part of `sent` not yet
received (`Aligned`). There is one lemma per action.

Only model-checked: the other mailbox properties, the refinement of
`MessageQueue`, everything about the deque, the scheduler and the workers, and
all liveness, which this prover does not treat.

## Plan

In order, with the question each module answers:

1. `Supervisor`: restart strategies and limits, order of children.
2. `Timers`: the wheel, `receive_timeout` and `receive_match` with retries.
3. `HotReload`: reference counts over load, upgrade, rollback, unload.
4. `GC`: incremental marking and the write barrier, against reachability as the
   abstract specification; then copy on write.
5. `Node`: handshake, peers and monitors over a network that loses and delays.
6. `Checkpoint`, `Serialize`: a crash during a save; round trip as operators.
7. `VM`: stack, frames, calls, upvalues; then compiler scopes and jumps.
8. Groups that are created and deleted; registry limits; the rest of `mailbox.c`.

Violation runs that share a cause will be merged to make room. Proofs to follow:
the refinement of `MessageQueue`, `ClaimedOnce` for the deque, `QueueExact` and
`RelationsAgree` for the scheduler, then the safety of the modules above.
