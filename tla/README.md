# A TLA+ model of MoEJIT

MoEJIT is a set of programs and modules on top of the ns-3 network simulator.
It simulates the training of mixture-of-experts models: the ranks of several
jobs alternate computation with all-to-all exchanges, and an admission scheduler
decides when an exchange may start, so that exchanges do not collide in the
network. This directory holds TLA+ models of the parts that decide: the two
admission schedulers that keep reservations, the MPI layer and the coroutines under
them, and the event loop under everything.

Line numbers in the modules and below refer to the repository's files.
`PROJECT.json` lists for each definition the lines it models.

## 1. The system

| Component | Source | State | Operations | Correct when |
|---|---|---|---|---|
| Centralized admission scheduler | `scratch/moe-jit/moe-jit.h` 186-396 | `m_pool` (one `TaskState` per task), a ledger of free capacity per slot, globally and per rank, `m_lastRunTime` | `CheckAdmission`, `RunScheduling` | a task starts as a gang in slots reserved for it; slots are never over-reserved; every task starts eventually |
| Distributed aging scheduler | `scratch/moe-jit/moe-fifo-scheduler.h` | per leaf switch a broker: events, `srcFree`, `dstFree`, granted quota and phases | `CheckAdmission`, `FastControlPath`, `OnEpochTimer` | uplinks, downlinks and quota are conserved; windows lie in the future; every event is committed eventually |
| Other schedulers | `moe-jit.h` 69-181 | none | sort the tasks, or roll a die per poll | (no state) |
| Helper | `moe-jit.h` 414-683 | per rank a queue of functions: initialise, one per task, completion | `Install`, statistics | each rank runs its tasks in order; the run ends when all are done |
| Trace loaders and parser | `spine-8app.cpp`, `moe-trace-parser.h` | none | turn traces into task lists | tasks, quorum and flows of all ranks agree |
| MPI communicator | `src/mpi-application/model/mpi-communicator.{h,cpp}` | a socket per peer | point to point, `Barrier`, `Gather`, `RingAllReduce`, `AllToAllV`, ... | a collective ends on all ranks, with the right data, and separates what it should |
| MPI application | `mpi-application.cpp` | status, communicators, queue of functions | connect all ranks, `run`, `Compute`, `Finalize` | all ranks get connected; functions run one after the other |
| Object protocol | `mpi-protocol.h` | none | write and read values on a socket | reader and writer agree on the bytes |
| Coroutine socket | `src/coroutine/model/coroutine-socket.cpp` | queues of pending operations over one ns-3 socket | `connect`, `accept`, `send`, `receive`, `close`, `block` | bytes keep their order; each operation ends once |
| Coroutine operation | `operation.h` | a coroutine frame with a reference count, result, continuations | await, resume, terminate | no frame is lost or destroyed twice |
| NetJIT application, DML application | `net-jit-application.h`, `dml-application.h` | pending predictions; the batch pipeline | `on_batch`, `predict`; one function per batch phase | predictions fire at the corrected time |
| Event loop | `src/core/model/default-simulator-impl.cc`, `map-scheduler.cc` | ordered map of events, current key, next uid, events posted by other threads | `Schedule`, `Cancel`, `Remove`, `Run`, `Stop`, `Destroy` | events run in time order, ties in FIFO order; an expired event is never touched |
| Hedera routing | `scratch/moe-jit/routing/` | routes, link usage | estimate flows, place them on core switches | a placed flow respects capacities |

The ns-3 simulator runs its events in a single thread; other threads may only
post events to it. A callback or a stretch
of a coroutine between two `co_await`s runs to its end at one instant, so the
interesting interleavings are those of events at the same instant, of polls of
different ranks, of fragments on different sockets, and of events with the end
of the run. The hard behaviours of the code are listed, each at its line,
under `hazards` in `PROJECT.json`.

The parts interact as follows. The helper gives each rank's MPI application a
queue of functions. The function of a task computes, polls
`CheckAdmission` until it returns true, waiting `GetBackoffTime` between
polls, and then awaits `AllToAllV` on the communicator. The communicator uses one
coroutine socket per peer, connected by `MPIApplication::connect` when the rank starts.
A send or a receive is a coroutine operation: it is tried at once, and otherwise
resumed by a callback of TCP or, on the loopback socket, by an event of the simulator,
and its end resumes the coroutines that await it on the same stack. The completion function runs a `Barrier`, closes all
sockets and stops the simulator. All ranks share one scheduler object.

## 2. Modules

| Module | Models |
|---|---|
| `CentralizedAdmission` | the centralized scheduler, driven by the polling loops of all ranks |
| `CentralizedAdmission_proofs` | its theorems |
| `SumTheorems` | what sums over finite sets of numbers compute, and least and greatest elements, for the proofs |
| `MCCentralizedAdmission`, `MCCentralizedQuorum` | instances |
| `DistributedAging`, `MCDistributedAging` | the distributed scheduler and an instance |
| `DistributedAging_proofs` | its theorems |
| `Barrier` | what a barrier promises |
| `MpiBarrier` | `MPICommunicator::Barrier` on its sockets, and the completion function |
| `RingAllReduce` | `RingAllReduce` on byte streams |
| `RingAllReduce_proofs` | its theorems |
| `OrderedStream` | what a stream promises to several callers: bytes in the order of the calls |
| `CoroutineSocket`, `MCCoroutineSocket` | `send` and `receive` with several callers, `block`, `close`, on TCP or loopback |
| `CoroutineSocket_proofs` | its theorems, among them that it implements `OrderedStream` |
| `CoroutineOperation`, `MCCoroutineOperation` | frames, handles, continuations, timeouts |
| `CoroutineOperation_proofs` | its theorems |
| `MpiConnect` | `Initialize` and `connect` of all ranks |
| `MpiApplication_proofs` | the theorems about the two protocols of all ranks, `MpiBarrier` (it implements `Barrier`) and `MpiConnect` |
| `EventQueue` | what the event loop promises |
| `DefaultSimulator` | `DefaultSimulatorImpl` over the ordered map |
| `DefaultSimulator_proofs` | its theorems, among them that it implements `EventQueue` |

`MpiBarrier` implements `Barrier`, `CoroutineSocket` implements `OrderedStream` in both
directions, and `DefaultSimulator` implements `EventQueue` (`INSTANCE ... WITH`).

### CentralizedAdmission

One action per way through `CheckAdmission`: `AskTooEarly` (the early return),
`AskScheduled`, `AskUnscheduled`, and `AskAndRun` which enters `RunScheduling`. The
loops of `RunScheduling` are unrolled: `PlaceNext` takes the next task of the
sorted list and grows the ledger, `ProbeFails`, `ProbeFits` and `ProbeGivesUp` are
the outcomes of one iteration of the slot search, and `FinishRun` returns the
answer. While `caller # None` nothing else is enabled, so the call is still atomic
for the other ranks. `FinishExchange` ends `AllToAllV` of a rank some time after
all ranks that send to it have started; `Advance` is the simulator's clock.

Two comparisons of the code are made in double precision. When both sides stand for
the same instant the model allows either outcome (`Reached`), and a slot index
computed exactly at a slot boundary may come out one too small (`SlotIndices`).
`std::sort` leaves ties open, and so does `PlaceNext`. The lazily filled per-rank
map reads as `RankLimit` where it has no entry. `readyTimes` is abstracted to its
set of keys; times stored in it are never read. `b` and the span computed from it at
line 267 are overwritten before they are used.

### DistributedAging

Time is counted in slots of 10 us. `Register` is the first poll of a rank for a task, with the
`FastControlPath` it runs; `Admit` a later poll that is answered yes;
`EpochFires`, `CollectStep`, `CollectDone`, `GrantStep`, `GrantDone`, `FastStep`,
`FastDone` are the loops of `OnEpochTimer` and `FastControlPath`, atomic with respect to
the ranks because all others require `phase = "idle"`. Events are pairs of a rank and a
task. `provisionalDstFree` of the code always equals `dstFree` and is left out.
Priorities are compared by cross-multiplication, with the two different age weights
of the code (1.5 and 2.0).
A rank polls once per slot, so it is admitted in the slot of its release time.

### Barrier and MpiBarrier

On entry a rank sends one token and posts one receive on each socket. A send
may have to wait for room (`unsent`), tokens fly and arrive in any order
between sockets, a receive may find its token already there. `Complete` is the
completion function up to `Simulator::Stop`; `PeerCloses` is `onClose`, which ends
pending operations with an error, so that the barrier throws. A socket's close is
seen after the data sent before it, as in TCP. Only the rank that connected a socket
closes it (`Closes`): an accepted `CoroutineSocket` has neither `connected` nor
`listening` set, so its `close()` returns without doing anything (line 284).

### RingAllReduce

The streams are counted in bytes. `Accept` and `Arrive` move any number of bytes, so
that a message may be cut inside its header or payload. `data` and `mail`
record whose contributions a partition would hold; the program transfers fake
packets, and these variables let the model state what the exchange is for.
The call with a size below the group size, which throws, has no action.
Nor is a size run for which the last partition starts behind the end (5 elements on 4 ranks): its length is a negative
double converted to an unsigned size, which is undefined and has no bound.

### CoroutineSocket and OrderedStream

One direction of a stream. `Call` is a call of `send` or `receive`: it tries the
operation (`RunOperation`, with the condition split into `Waits`, `Errs`, `Amount` and
`Completes`) and queues it if it is not over. `Visit` is one step of the loop of
`onSend`, `onReceive` or `onClose`; a completed operation removes the front of the queue and
gives the `turn` to its caller, which calls its next operation before the loop goes
on. The loop runs as often as the queue was long at its start, since operations pushed
meanwhile lie behind the iterator's end. This relies on libstdc++: the C++ standard says that pushing to or popping from a
`std::deque` during a range-`for` (line 70 and its twins for receiving and closing) may invalidate the iterators; in
libstdc++ they stay usable unless the map of the deque is reallocated, which takes many pending operations.
TCP is reduced to what the socket sees of it: `Ack` and `Deliver` move
any number of bytes and call the loops. `Close` sets `closeOnEmpty`; the FIN goes out at once or,
while data waits for transmission, later (`Fin`, `tcp-socket-base.cc` 785-793), and until then TCP takes more data. It reaches the
receiver behind all data (`FinArrives`), and data for a closed receiver is answered by a reset (`Reset`).
`OnClose` may also happen on either side at any time. On the loopback socket each transfer schedules
the loop of the other side (`wakes`), and both sides belong to one socket. `moved`
records, byte by byte, whose operation moved it.

Calls made inside the completion of another operation do overtake: the caller runs
before the loop reaches the next pending operation. A message written as two sends,
header and payload, by two coroutines at once on one socket can therefore be split.
`StreamOrder` is about the other calls, the first of each caller; in `OrderedStream` the bytes
of calls made inside a completion may slip in anywhere (`Slip`). On the loopback socket a
new operation may also overtake pending ones that wait for their scheduled event, so the
mapping shows nothing of it.

### CoroutineOperation

`Begin` is a coroutine that awaits another operation; `Drive` is a resume or terminate
from `onSend`, `onClose` and the like, which hold a copy of the handle while they do it;
`TimerFires` is the event of `makeCoroutineOperationWithTimeout`. `Continue` runs one
continuation, which resumes an awaiter on top of the stack; `FinalSuspend` ends the innermost frame and
`Return` the outermost call. The program drops its handles at any time (`Drop`), also
between these steps. `holders` is a history variable: the handles that exist, against
which the code's `reference` is checked. Exceptions are left out: the first awaiter of
an operation that has thrown takes the exception out of the promise (lines 165, 174).

### MpiConnect

`Start` is everything a rank does up to its first wait: it posts an accept for every
rank below and a SYN to every rank above. `SynArrives` is TCP at the listener, which
refuses a connection when the rank has not started; `ConnectEnds` is `onConnect` or `onClose`;
`Accept` is `onAccept`. `Resume` is what the loop over the operations does then:
it waits, ends in `WORKING`, or throws. The operations are awaited in rank order, so a
refused connection is noticed only when all accepts and the connections before it are
done. With `together` all ranks start at one instant, as the experiment programs start them.

### DefaultSimulator and EventQueue

The body of every event is an arbitrary sequence of calls (`UserCode`), and so is the program
outside of `Run`. `ProcessEventsWithContext` is three steps, the test of the flag
(`Check`), the exchange under the mutex (`Swap`), and the insertions (`InsertTaken`), between which
other threads post (`Post`). The flag is a plain `bool` read without the mutex; a stale
value is the same as an earlier read, which the separate step allows. Contexts and
the replacement of the scheduler (`SetScheduler`) do not change the order and are left out.
The refinement maps the queue, in the order of its uids (`Line`), to the abstract line of waiting events.

## 3. What TLC checks

| Run | Result | Distinct states |
|---|---|---|
| `centralized_admission` | pass | 102,265 |
| `distributed_aging` | pass | 42,972 |
| `mpi_barrier` | pass | 6,446 |
| `ring_all_reduce` | pass | 5,767 |
| `coroutine_socket` | pass | 216,586 |
| `coroutine_operation` | pass | 8,260 |
| `mpi_connect` | pass | 60,228 |
| `default_simulator` | pass | 1,191,136 |
| `centralized_jitter`, `centralized_quorum`, `mpi_barrier_stop`, `ring_all_reduce_empty` | violation, as expected | |

**centralized_admission.** Two jobs: ranks 0 and 1 run `a1` (span 3) and `a2`, ranks 2
and 3 run `b1` (span 2). The limits are one task per slot, the horizon is 3 slots
and 5 for the long task, and the ledger starts with 6 slots: tasks wait for each
other, searches jump and give up, both horizons are used, the ledger grows after
reservations were made, quorums complete at the same instant, and ranks arrive at
different times. `MaxTime` is never reached. All ranks finish, so the run ends and
deadlock is not checked.
Checked: `LedgerConserved` (what is left and what reservations took add up in every
slot), `GangAdmission`, `NoStartBeforeReservation`, `SearchInBounds`,
`PendingRevisited` (a task that missed its turn is looked at within one backoff),
`EarliestFit` and `GiveUpOnlyIfFull` (the search with jumps is exact; a task gets the earliest of the slots that
have not ended, or, with a rounded slot index, the one that ends just now), and `AllTasksComplete`.

**distributed_aging.** All four modes. Three events, two leaves, with the downlink of leaf 1 too
small for all of them and one event that needs quota from both leaves, so that a grant
of one destination goes unused and is repeated in a later epoch. `MaxTime` is past the
last admission, `LastSlot` past the last window, and ranks stop asking for new tasks at `LastArrival`. Checked: `QuotaConserved` (free + granted +
committed = capacity for each downlink and slot), `SourceConserved`, `CommitInFuture`,
`EventuallyAdmitted`.

**mpi_barrier.** Three ranks, three barriers: enough for the tokens of two consecutive
barriers to be on a socket at once, and for a rank to close while another waits for a
third. Checked: the refinement `BarrierSpec`, `NoneFails`, `ProgramEnds`.

**ring_all_reduce.** Three ranks, partitions of 2, 2 and 1 bytes, a header of 1 byte:
messages differ in length, are cut everywhere, and ranks drift apart. Checked:
`StreamAligned`, `AllReduced`, `RingCompletes` (no partition is empty, unlike in `ring_all_reduce_empty`); deadlock is checked, a finished
group being allowed to stay (`Terminated`).

**coroutine_socket.** Two senders and two receivers with up to three operations each,
a buffer of two bytes that is smaller than what is sent, one receive of size 0, one
empty send, one `block`, and a close from either side; both kinds of sockets. Enough for two
operations to be pending on each side while a third is called inside a completion. Checked:
`NoOperationLost`, `NoLostWakeup` (nothing waits while it could go on), the refinements in
`StreamOrder`, and `AllEnd`: a receive is left over only if all that was sent has been read and a send has failed or
a `receive(0)` took the bytes. The run ends when all operations have, so deadlock is not checked.

**coroutine_operation.** A chain of two coroutines and a third one on the same operation, two
values to end it with and a timeout. Checked: `NoDangling` and `NoLeak` (a frame is
destroyed once, as soon as it has ended and nobody holds it), `FirstEndWins`, `AwaitersEnd`.

**mpi_connect.** Four ranks, so that two of them both accept and connect. Checked:
`NoSurplusAccept`, `PeersComplete` (the assertion at `mpi-application.cpp` 202, and that the
sockets are connected), `AllInitialized` for ranks that start together. Ranks that
do not start together may be refused and die, and those above them wait for ever; the run covers it, and no
document promises otherwise.

**default_simulator.** Four events with delays 0 and 1: ties, an event that cancels or removes another
one of its instant, posts between any two steps of the loop, several runs, and destroy
events. Checked: `ExpiryExact`, `FlagTruthful`, and the refinement `FifoOrder`. A program may
stop calling, so deadlock is not checked. A post that comes after the last test of the flag, when the queue
is empty, stays for the next `Run`; that is not excluded.

**Fairness.** The liveness runs of the schedulers, the barrier, the ring and `mpi_connect`
assume `WF_vars(Next)` and no more: the simulator always executes the next event, at the current
instant or, if there is none, at the next, and TCP repeats what is lost. The order of events at one
instant and the order in which fragments move stay open. In `coroutine_socket` and `coroutine_operation`
it is `WF_vars(Progress)`, which leaves out what nobody has to do: to block, to close, to start
another coroutine, to drop a handle, to complete an operation before its timeout. `Progress` contains
`Unblock`, as the callers of `block` do unblock, and what TCP does by itself after a close: the FIN goes out and arrives,
and late data is answered by a reset. Nobody has to close because its peer did: `close()` does nothing on an accepted socket.

### Where the code and its comments disagree

- `centralized_jitter`: the answer at `moe-jit.h` 301 lacks the jitter that the comment at
  284 asks for.
- `centralized_quorum`: `spine-8app.cpp` counts ranks without traffic in `groupSize` (140)
  but drops the task from their lists (166).
- `mpi_barrier_stop`: `Simulator::Stop()` (504) has no "1us grace period" (503).
- `ring_all_reduce_empty`: sizes the check at `mpi-communicator.h` 390 accepts can leave an
  empty partition, whose receive never ends.

Every property of a passing run is shown to be falsifiable: `PROJECT.json` names for each a
variant of a definition (commented "Faulty variant" in the module) under which TLC finds
it violated.

## 4. What is proved

The theorems hold for all values of the constants that satisfy the named assumptions of the
modules: any set of ranks, any trace, any loads, limits, horizons and sizes. The assumptions are

| Module | Assumptions | Why the code satisfies them |
|---|---|---|
| `CentralizedAdmission` | `RanksAssumption`, `TimesAssumption`, `LedgerAssumption`, `TaskAssumption`, `NoneAssumption` | sizes, loads and times are natural numbers, slots and backoffs have a length, `m_Rslot` and `m_globalLimit` are positive, as the constructor ensures |
| `DistributedAging` | `EventsAssumption`, `LeavesAssumption`, `CapacityAssumption`, `TimesAssumption`, `NoneAssumption` | finitely many events and leaves, footprints and capacities are natural numbers, `Rslot` is positive |
| `MpiBarrier` | `RanksAssumption`, `RootAssumption`, `RoundAssumption` | ranks are numbers, rank 0 exists, the program runs a barrier |
| `RingAllReduce` | `GroupAssumption`, `SizeAssumption` | with a single rank the loops do nothing and there is no stream; a message has a header |
| `CoroutineSocket` | `SideAssumption`, `ProgramAssumption`, `BufferAssumption`, `CallersAssumption`, `BlocksAssumption` | a coroutine uses one direction and calls a finite sequence of operations; the TCP buffer holds a byte; the number of blocks is a bound of the model, any number |
| `CoroutineOperation` | `ChildAssumption`, `HolderAssumption`, `ValuesAssumption` | each coroutine awaits one operation; names of different things differ |
| `MpiConnect` | `NAssumption` | there is a rank |
| `DefaultSimulator` | `DelaysAssumption`, `UidAssumption` | delays are not negative (`Schedule` asserts it); fewer than 2^32 events |

Each argument is an inductive invariant `IInv`: it holds initially, every action
preserves it (one lemma or step per action), and it implies the properties.

**CentralizedAdmission_proofs.** The invariant `IInv` is the conjunction of
`TypeOK` (with the bounds of the ledger entries), `ProgramInv` (a rank that is not done has a
current task), `RunInv` (tasks still to be placed or being placed are unscheduled and have their quorum),
`ScheduledHaveQuorum`, `AdmittedInv` (a rank has started only a scheduled task, and not
before its slot) and `SearchInv`. The last is the heart of it: no start slot between the current slot
and the cursor fits, and the ledger is large enough for the window of every start slot of
the horizon. `SkipIsSafe` shows that a jump preserves it: every
skipped window contains the failing slot. From `IInv` follow

- `TypeCorrectness`: no deduction wraps around;
- `GangAdmissionHolds`, `NoEarlyStart`;
- `LedgerAccessInBounds`: the vectors are never read out of range, and the break at line
  351 is dead code;
- `GiveUpOnlyIfFullHolds`;
- `EarliestFitHolds`, with `StartInv`: time stands still while the scheduler runs, and the slot it starts from
  has begun and does not end before that instant, whichever way its index was rounded (`SlotIndexNow`).

`ShareBound` is about the arithmetic of a reservation: a slot's share is at most `m_Rslot`,
and the rounding loses less than a byte per slot. With `DemandInv` (the demand bounds every
reported load) it gives `PendingFits`: if the limits are at least `m_Rslot`, every pending task
fits untouched slots. The constructor breaks the premise only for scale factors below 8e-5, where
`m_rankLimit` is truncated to 0 (237); a task then stays pending whatever slides.

Two more invariants rest on `IInv`. `LedgerInv` adds to the conservation equation that
reservations lie inside the ledger, so that slots added later are untouched; a reservation moves its footprint, slot by
slot, from one side of the equation to the other (`LedgerIsConserved`). `PollInv` says
that every pending task has a rank that is still polling, or whose poll is being answered, so that
the clock cannot pass the last run by more than a backoff (`PendingIsRevisited`).

**SumTheorems.** The ledgers and byte counts are sums over finite sets. The library's induction theorems take
an operator and cannot be used here, so the facts are proved for one concrete set at a time, from a
smallest counterexample: removing, adding or changing one summand changes the sum
by that summand (`SumRemove`, `SumAdd`, `SumUpdate`), and a summand is at most the sum (`SumBound`).

**DistributedAging_proofs.** `IInv` is `TypeOK`, `QuotaConserved`, `SourceConserved` and `QueueInv`: events
that `FastControlPath` still looks at are not committed, and a request being granted has an earliest slot. A grant moves a footprint
from `dstFree` to a quota, a commitment moves it from a quota, and from `srcFree`, to what is
committed. That a quota never exceeds the capacity is not a guard of the
code; the equation implies it (`QuotaBound`), so type correctness and conservation are proved together.
`CommitsInFuture` follows from the lower bounds of the two searches.

**MpiApplication_proofs, the barrier.** The invariant counts, for each pair of ranks, the tokens in flight, waiting and
read: together they are the number of barriers the sender has sent for (`TokenInv`); `RoundInv`
ties the sets of pending operations to the round, and `CloseInv` says that a rank that has closed
has finished its last round. A rank that has read all tokens of its round therefore
has every peer in at least that round, which is the guard of the abstract `Leave`
(`Refinement`), and a closed peer has sent every token a rank can still wait for
(`NoneFailsHolds`).

**RingAllReduce_proofs.** The theorems have the hypothesis `NonEmpty`: no partition is empty. The check at
`mpi-communicator.h` 390 does not ensure it (run `ring_all_reduce_empty`), and without it a receive
waits for a payload of size 0. `IInv` says what is sent and held, for every group size:
message i of rank r carries the sum of the i + 1 ranks from r on, then the complete sums
(`MailInv`, `Arc`); a rank holds what the messages it has read gave it (`DataInv`); `StageInv` ties the stage of
the receive to the iteration; and `StreamAligned`. `SamePartition` shows that a rank expects in each iteration
the partition its successor sends then, `MailThere` that the message a rank reads has been sent: the position in
the stream grows with the messages (`BytesIncrease`). After the last iteration every partition is complete
(`ReturnsReduced`).

**CoroutineSocket_proofs.** The queues change while a loop runs over them, and a caller whose operation has ended runs before the loop
goes on, so no property of a queue between events is inductive by itself. `QueueInv` says what holds at every step: a queue holds the
operations that have begun and are not over, each once, without that of the caller whose `turn` it is; `LoopInv` that the loop
does not run past the end. Between events there is no turn, which gives `OperationsKept`. `WakeInv` adds to the property the states in
which a loop is under way: what is pending waits for room or data, or a loop is scheduled, or the loop that runs has the whole
queue still ahead of it, or it is going to start for the other side. It is preserved because the loop leaves an operation in the queue only when nothing is
left to move, and a new operation is pushed only then: what the loop has passed, or does not reach, has to wait anyway. A transfer on the loopback socket, which
makes room or data for the other side, schedules that side (`WakeupsKept`). `RoomInv` and `DoneInv` bound the bytes and the progress of the callers.
For the order of bytes, `OrderInv` says that first operations pending on one side stand in the order of their calls and `CountInv` that the bytes an operation
has moved and has left add up to its size. Only the front of a queue moves bytes on TCP, or an operation called while its queue is empty; all first operations called before
it are over then, and have moved all their bytes, which is the guard of the abstract `Move` (`StreamOrdered`). If an operation failed, the
socket is closed or refuses, and nothing moves any more on its side.

**CoroutineOperation_proofs.** `CountInv` says that `reference` is the number of handles that exist, `HolderInv`
who may hold a frame (a coroutine only its child and only while it lives, the driver only during its call), `StateInv`
what the state of a frame says of its handles, result and continuations, `ContinuationInv` that the continuations of a
frame are suspended awaiters that hold it, each of them once, `StackInv` that the frames on the stack are running, each of them
once, with as many continuations as they have left to run, and `ResultInv` that there is one result, that of the first end. A
frame is destroyed when its last handle goes after its end (`EndedFramesHeld`); whatever still refers to a
frame holds it or shows that it has not ended (`DestroyedUnreachable`).

**MpiApplication_proofs, the connections.** The invariant is `ConnectInv`; its heart is `AcceptInv`: the pending accepts of a rank that has started are as many as the ranks below
whose connection is not open yet. A SYN that arrives belongs to one of them (`AcceptsSuffice`). `NewInv` says that a
rank that has not started has neither sent nor accepted, `EndInv` that the listener lives as long as `connect` runs and
that `connect` ends only when nothing is pending (`WorkingHasPeers`).

**DefaultSimulator_proofs.** `UidInv` bounds the next uid by the number of events, so that it never wraps. `QueueInv` says that
the keys of the waiting events are distinct, later than that of the current event and below the next uid, and that an
event which neither waits nor was cancelled is not later. `PostedInv` and `DestroyInv` are about the events that other threads have posted, which have no key
yet, and about destroy events, which share one uid. From it `IsExpired`
is exact (`ExpiryIsExact`), and every step obeys the order: time does not go back, the event
that runs is strictly before all others, newcomers have larger uids (`FifoSteps`).

That the loop implements `EventQueue` (`FifoImplemented`) needs the waiting events as a sequence. `Line` puts the event with the
i-th uid at place i, by counting the uids up to it. `IsLine` says what such a sequence is, and `LineUnique` that there is only one: the first m events of a
line are m events (`PrefixCount`), so an event's count is its place. With that, no induction over sequences
is needed: a step names the sequence it leads to, the old one with an event appended, without one element, or the same, and `AppendLine`, `RemoveLine`
and `EmptyLine` show that it is a line. `LineInv` and `CancelInv` (only events with an `EventId` are cancelled) are the invariants of the refinement on top of `IInv`; the
least key belongs to the first of the earliest events of the line, and what `Cancel` and `Remove` find not expired is in it.

**Model-checked only.** Every invariant, action property and refinement that a passing run checks is also a theorem. What is left to TLC are the
liveness properties, which are out of the prover's reach: `AllTasksComplete`, `EventuallyAdmitted`, `ProgramEnds`, `RingCompletes`,
`AllEnd`, `AwaitersEnd`, `AllInitialized`.

## 5. Not modelled

TCP is modelled as far as sockets see it; its segments, timers and congestion control, the network and
the rest of upstream ns-3 are not, and the models allow any order and fragmentation they could produce. Statistics, reports, logging and JSON parsing are formatting
and I/O. The order-only and probabilistic schedulers keep no state. 32-bit sums in
`moe-fifo-scheduler.h` 112 and `moe-jit.h` 343 are taken as unbounded: they wrap only above 4 GiB per event and
after 11 hours of simulated time. The sums of `TxBytes` and `RxBytes` (`mpi-communicator.cpp` 155-163) are
accumulated in an `int`; they only feed reports. The uid of an event wraps around after 2^32
events (`UidAssumption`).
`duplicate_communicator` shares the sockets of the original, and `free_communicator` closes them
(`mpi-application.cpp` 252-286); no program of the repository calls them.
`NetJITApplication`, the DML pipeline, the trace parser, Hedera's placement and the collectives
other than `Barrier`, `Gather`, `RingAllReduce` and `AllToAllV` are not modelled.

## 6. Plan

1. A composition of the polling loops, `AllToAllV` on sockets and the completion barrier.
2. The DML pipeline over `RingAllReduce`, which finalizes without a barrier; `NetJITApplication` over
   `DefaultSimulator`.
3. The phases of `DistributedAging` across epochs, and what its priorities promise.
