------------------------- MODULE CentralizedAdmission -------------------------
(***************************************************************************)
(* The centralized admission controller of MoEJIT                          *)
(* (CentralizedAdmissionScheduler in scratch/moe-jit/moe-jit.h), driven by *)
(* the polling loop that MoeJITApplicationHelper::Install gives each rank. *)
(*                                                                         *)
(* Every rank works through its list of all-to-all tasks.  For each task   *)
(* it computes, then calls CheckAdmission every Backoff time units until   *)
(* the answer is yes, then exchanges data with its peers.  The controller  *)
(* waits until a quorum of ranks has reported the task, reserves Span      *)
(* consecutive slots for it in a global ledger and in one ledger per rank, *)
(* and lets the ranks go when the first reserved slot starts.              *)
(*                                                                         *)
(* The simulator is single threaded: a call of CheckAdmission, with the    *)
(* RunScheduling it may make, runs to its end at one instant.  The loops   *)
(* of RunScheduling are unrolled into steps of this module (PlaceNext,     *)
(* Probe), and while caller # None no other action is enabled.             *)
(***************************************************************************)
EXTENDS Integers, Sequences, FiniteSets, Functions

CONSTANTS
  Ranks,         \* MPI ranks, natural numbers (the jitter depends on rank % 32)
  Events,        \* all tasks in trace order, a sequence without repetition
  Group,         \* Group[t]: the ranks of the job task t belongs to
  GroupSize,     \* GroupSize[t]: MoeTask::groupSize, 0 when nobody sets it
  GlobalNodes,   \* m_globalNodes, the quorum of a task whose groupSize is 0
  Flow,          \* Flow[t][src][dst]: bytes src sends to dst in task t
  StartTime,     \* StartTime[t]: MoeTask::startTime
  ComputeTime,   \* ComputeTime[t]: MoeTask::computationTime
  ReadyTimes,    \* instants at which a rank may ask for its first task
  ExchangeTimes, \* durations of the last transfer of an AllToAllV
  DeltaT,        \* m_deltaT, the length of a slot
  Backoff,       \* GetBackoffTime
  JitterStep,    \* the 400 us of the admission jitter
  Rslot,         \* m_Rslot
  GlobalLimit,   \* m_globalLimit
  RankLimit,     \* m_rankLimit
  HorizonT,      \* m_T
  ShortHorizon,  \* the 100 added to the span when the span exceeds m_T
  Slack,         \* the 1000 slots added when the ledger grows
  InitialSize,   \* size of the ledger when it is constructed
  MaxTime,       \* bound: simulated time at which the model stops
  None

Tasks == {Events[i] : i \in DOMAIN Events}

-----------------------------------------------------------------------------
(* What the trace loader and MoeTask compute from the traffic matrix.      *)

\* Bytes rank r sends in task t, the flow to itself included.
LocalSend(t, r) == SumFunctionOnSet(Flow[t][r], Ranks)

\* Bytes rank r receives in task t from the others.
LocalRecv(t, r) ==
  SumFunctionOnSet([s \in Ranks |-> Flow[t][s][r]], Ranks \ {r})

\* b_ir of rank r: the larger of both.
Load(t, r) ==
  IF LocalSend(t, r) >= LocalRecv(t, r) THEN LocalSend(t, r) ELSE LocalRecv(t, r)

\* The loader drops a task from the list of a rank without traffic in it.
HasTraffic(t, r) == \E p \in Ranks : Flow[t][r][p] > 0 \/ Flow[t][p][r] > 0

Program(r) == SelectSeq(Events, LAMBDA t : r \in Group[t] /\ HasTraffic(t, r))

Participants(t) == {r \in Group[t] : HasTraffic(t, r)}

Quorum(t) == IF GroupSize[t] > 0 THEN GroupSize[t] ELSE GlobalNodes

ASSUME RanksAssumption == Ranks \subseteq Nat /\ IsFiniteSet(Ranks)

ASSUME TimesAssumption ==
  /\ DeltaT \in Nat \ {0}
  /\ Backoff \in Nat \ {0}
  /\ JitterStep \in Nat
  /\ MaxTime \in Nat
  /\ ReadyTimes \subseteq Nat
  /\ ExchangeTimes \subseteq Nat
  /\ StartTime \in [Tasks -> Nat]
  /\ ComputeTime \in [Tasks -> Nat]

ASSUME LedgerAssumption ==
  /\ Rslot \in Nat \ {0}
  /\ GlobalLimit \in Nat \ {0}
  /\ RankLimit \in Nat
  /\ HorizonT \in Nat
  /\ ShortHorizon \in Nat
  /\ Slack \in Nat \ {0}
  /\ InitialSize \in Nat

ASSUME TaskAssumption ==
  /\ Events \in Seq(Tasks)
  /\ \A t \in Tasks, r \in Ranks : Load(t, r) \in Nat
  /\ \A t \in Tasks : Quorum(t) \in Nat \ {0}
  /\ \A r \in Ranks : Program(r) \in Seq(Tasks)

ASSUME NoneAssumption == None \notin Ranks /\ None \notin Tasks
-----------------------------------------------------------------------------
VARIABLES
  now,          \* Simulator::Now()
  \* the polling loop of each rank
  pos,          \* pos[r]: index in Program(r) of the task rank r works on
  stage,        \* "ask" (computing or backing off), "exchange" or "done"
  wake,         \* wake[r]: when the Compute that r awaits ends
  admittedAt,   \* admittedAt[t][r]: when r started task t, -1 if it has not
  \* m_pool: one TaskState per task
  reported,     \* reported[t]: the keys of readyTimes and of b_ir
  tSeen,        \* t_seen
  demand,       \* d_i
  scheduled,    \* scheduled
  booking,      \* allowedTime as a slot, span, and what was deducted per slot
  lastRun,      \* m_lastRunTime
  \* the ledger
  ledgerSize,   \* m_globalCap.size() and m_rankCap.size()
  globalCap,    \* m_globalCap
  rankCap,      \* m_rankCap, with RankLimit where the map has no entry
  \* the call of RunScheduling in progress
  caller,       \* the rank whose CheckAdmission runs it, or None
  todo,         \* tasks of pendingTasks not yet placed
  placing,      \* the task being placed, or None
  startSlot,    \* currentSlotIdx
  cursor        \* the loop variable t of the slot search

rankVars == <<pos, stage, wake, admittedAt>>
poolVars == <<reported, tSeen, demand, scheduled, booking, lastRun>>
ledgerVars == <<ledgerSize, globalCap, rankCap>>
runVars == <<caller, todo, placing, startSlot, cursor>>
vars == <<now, rankVars, poolVars, ledgerVars, runVars>>
-----------------------------------------------------------------------------
(* Arithmetic of the controller.                                           *)

Jitter(r) == (r % 32) * JitterStep

\* Slots a demand of d bytes needs: its ceiling in units of Rslot, at least 1.
Span(d) == IF d = 0 THEN 1 ELSE (d + Rslot - 1) \div Rslot

\* Number of start slots the search tries.
Horizon(n) == IF HorizonT > n THEN HorizonT ELSE n + ShortHorizon

\* Faulty variant: the horizon does not slide with simulated time.
SlotIndicesFixed(n) == {0}

\* static_cast<uint32_t>(now / m_deltaT): the division is in double precision,
\* and at the start of a slot the quotient may round below the slot's number.
SlotIndices(n) ==
  {n \div DeltaT} \cup {k \in {n \div DeltaT - 1} : n % DeltaT = 0 /\ k >= 0}

\* Faulty variant: compares with the end of the current slot.
ReachedThisSlot(x) == {now + DeltaT >= x}

\* The outcomes of now >= x: the sides are rounded doubles, so that either
\* outcome is possible when both stand for the same instant.
Reached(x) == IF now = x THEN BOOLEAN ELSE {now > x}

AllowedTime(t) == booking[t].start * DeltaT

CurrentTask(r) == Program(r)[pos[r]]

FootGlobal(t) == demand[t] \div Span(demand[t])
FootRank(t, r) == Load(t, r) \div Span(demand[t])

\* Faulty variant: only the per-rank ledgers are consulted.
SlotOkRanksOnly(t, s) == \A r \in reported[t] : rankCap[s][r] >= FootRank(t, r)

\* Slot s can take one slot's share of task t.
SlotOk(t, s) ==
  /\ globalCap[s] >= FootGlobal(t)
  /\ \A r \in reported[t] : rankCap[s][r] >= FootRank(t, r)

Window(s, n) == s .. (s + n - 1)

\* Task t fits when its first slot is s.
Fits(t, s) == \A u \in Window(s, Span(demand[t])) : SlotOk(t, u)

\* failSlot: the first slot of the window at s that cannot take the task.
IsFailSlot(t, s, f) ==
  /\ f \in Window(s, Span(demand[t]))
  /\ ~SlotOk(t, f)
  /\ \A u \in s .. (f - 1) : SlotOk(t, u)

\* The order of pendingTasks; std::sort leaves the order of ties open.
Before(t, u) ==
  \/ demand[t] < demand[u]
  \/ demand[t] = demand[u] /\ tSeen[t] < tSeen[u]
-----------------------------------------------------------------------------
Init ==
  /\ now = 0
  /\ pos = [r \in Ranks |-> 1]
  /\ stage = [r \in Ranks |-> IF Program(r) = <<>> THEN "done" ELSE "ask"]
  /\ wake \in [Ranks -> ReadyTimes]
  /\ admittedAt = [t \in Tasks |-> [r \in Ranks |-> -1]]
  /\ reported = [t \in Tasks |-> {}]
  /\ tSeen = [t \in Tasks |-> 0]
  /\ demand = [t \in Tasks |-> 0]
  /\ scheduled = [t \in Tasks |-> FALSE]
  /\ booking = [t \in Tasks |->
       [start |-> 0, span |-> 1, foot |-> 0, rankFoot |-> [r \in Ranks |-> 0]]]
  /\ lastRun = -1
  /\ ledgerSize = InitialSize
  /\ globalCap = [s \in 0 .. (InitialSize - 1) |-> GlobalLimit]
  /\ rankCap = [s \in 0 .. (InitialSize - 1) |-> [r \in Ranks |-> RankLimit]]
  /\ caller = None
  /\ todo = {}
  /\ placing = None
  /\ startSlot = 0
  /\ cursor = 0

\* Faulty variant: the refused rank waits twice as long.
AnswerSlowly(r, t, yes) ==
  /\ UNCHANGED pos
  /\ \/ /\ yes
        /\ stage' = [stage EXCEPT ![r] = "exchange"]
        /\ admittedAt' = [admittedAt EXCEPT ![t][r] = now]
        /\ UNCHANGED wake
     \/ /\ ~yes
        /\ wake' = [wake EXCEPT ![r] = now + 2 * Backoff]
        /\ UNCHANGED <<stage, admittedAt>>

\* The while loop of the rank goes on to AllToAllV, or awaits the backoff.
Answer(r, t, yes) ==
  /\ UNCHANGED pos
  /\ \/ /\ yes
        /\ stage' = [stage EXCEPT ![r] = "exchange"]
        /\ admittedAt' = [admittedAt EXCEPT ![t][r] = now]
        /\ UNCHANGED wake
     \/ /\ ~yes
        /\ wake' = [wake EXCEPT ![r] = now + Backoff]
        /\ UNCHANGED <<stage, admittedAt>>

\* Rank r enters CheckAdmission for its current task.
Asks(r) ==
  /\ caller = None
  /\ stage[r] = "ask"
  /\ wake[r] = now

\* The bookkeeping every call does once the task's start time has come.
Report(r, t) ==
  /\ reported' = [reported EXCEPT ![t] = @ \cup {r}]
  /\ tSeen' = [tSeen EXCEPT ![t] = IF reported[t] = {} THEN now ELSE @]
  /\ demand' = [demand EXCEPT ![t] = IF Load(t, r) > @ THEN Load(t, r) ELSE @]

\* The task's start time has not come: nothing is recorded.
AskTooEarly(r) ==
  /\ Asks(r)
  /\ FALSE \in Reached(StartTime[CurrentTask(r)])
  /\ Answer(r, CurrentTask(r), FALSE)
  /\ UNCHANGED <<now, poolVars, ledgerVars, runVars>>

\* The task is scheduled: wait for its slot and for the jitter of the rank.
AskScheduled(r) ==
  LET t == CurrentTask(r) IN
  /\ Asks(r)
  /\ TRUE \in Reached(StartTime[t])
  /\ Report(r, t)
  /\ scheduled[t]
  /\ \E yes \in Reached(AllowedTime(t) + Jitter(r)) : Answer(r, t, yes)
  /\ UNCHANGED <<now, scheduled, booking, lastRun, ledgerVars, runVars>>

\* Faulty variant: one rank short.
IsQuorumMinusOne(t, reps) == Cardinality(reps) + 1 >= Quorum(t)

\* The ranks in reps are enough for task t.
IsQuorum(t, reps) == Cardinality(reps) >= Quorum(t)

\* pendingTasks, when reps holds the ranks that have reported each task.
PendingGiven(reps) == {t \in Tasks : ~scheduled[t] /\ IsQuorum(t, reps[t])}

\* No quorum yet, or the controller has already run at this instant.
AskUnscheduled(r) ==
  LET t == CurrentTask(r) IN
  /\ Asks(r)
  /\ TRUE \in Reached(StartTime[t])
  /\ Report(r, t)
  /\ ~scheduled[t]
  /\ ~(IsQuorum(t, reported'[t]) /\ now > lastRun)
  /\ Answer(r, t, FALSE)
  /\ UNCHANGED <<now, scheduled, booking, lastRun, ledgerVars, runVars>>

\* The call finds a quorum and enters RunScheduling.
AskAndRun(r) ==
  LET t == CurrentTask(r) IN
  /\ Asks(r)
  /\ TRUE \in Reached(StartTime[t])
  /\ Report(r, t)
  /\ ~scheduled[t]
  /\ IsQuorum(t, reported'[t])
  /\ now > lastRun
  /\ caller' = r
  /\ UNCHANGED <<scheduled, booking>>
  /\ todo' = PendingGiven(reported')
  /\ startSlot' \in SlotIndices(now)
  /\ UNCHANGED <<now, rankVars, lastRun, ledgerVars, placing, cursor>>

\* Faulty variant: growing refills the slots that are already in the ledger.
GrowRefilled(ledger, n, v) == [s \in 0 .. (n - 1) |-> v]

\* Extend a ledger of the current size to n slots, new slots holding v.
Grow(ledger, n, v) ==
  [s \in 0 .. (n - 1) |-> IF s < ledgerSize THEN ledger[s] ELSE v]

\* Faulty variant: forgets that a window reaches past its start slot.
NeededSizeNoSpan(n) == startSlot + Horizon(n)

\* neededSize: past the last slot the search for a task of this span can touch.
NeededSize(n) == startSlot + Horizon(n) + n + Slack

\* The next task of pendingTasks: grow the ledger, start the search.
PlaceNext(t) ==
  /\ caller # None
  /\ placing = None
  /\ t \in todo
  /\ \A u \in todo : ~Before(u, t)
  /\ todo' = todo \ {t}
  /\ placing' = t
  /\ cursor' = startSlot
  /\ LET needed == NeededSize(Span(demand[t])) IN
       IF needed > ledgerSize
       THEN /\ ledgerSize' = needed
            /\ globalCap' = Grow(globalCap, needed, GlobalLimit)
            /\ rankCap' = Grow(rankCap, needed, [r \in Ranks |-> RankLimit])
       ELSE UNCHANGED ledgerVars
  /\ UNCHANGED <<now, rankVars, poolVars, caller, startSlot>>

\* Faulty variant: the whole window must lie inside the horizon.
SearchExhaustedEarly(t) ==
  \/ cursor + Span(demand[t]) > startSlot + Horizon(Span(demand[t]))
  \/ cursor + Span(demand[t]) >= ledgerSize

\* The two conditions that end the search without a result.
SearchExhausted(t) ==
  \/ cursor >= startSlot + Horizon(Span(demand[t]))
  \/ cursor + Span(demand[t]) >= ledgerSize

\* Faulty variant: skips the whole window, not just up to the failing slot.
ProbeFailsSkipping ==
  /\ placing # None
  /\ ~SearchExhausted(placing)
  /\ ~Fits(placing, cursor)
  /\ cursor' = cursor + Span(demand[placing])
  /\ UNCHANGED <<now, rankVars, poolVars, ledgerVars, caller, todo, placing, startSlot>>

\* One iteration of the search fails: resume after the slot that failed.
ProbeFails ==
  /\ placing # None
  /\ ~SearchExhausted(placing)
  /\ \E f \in Window(cursor, Span(demand[placing])) :
       /\ IsFailSlot(placing, cursor, f)
       /\ cursor' = f + 1
  /\ UNCHANGED <<now, rankVars, poolVars, ledgerVars, caller, todo, placing, startSlot>>

\* The capacities left after task t takes its share of slot s.
Deduct(t, s) ==
  [r \in Ranks |->
     IF r \in reported[t] THEN rankCap[s][r] - FootRank(t, r) ELSE rankCap[s][r]]

\* One iteration succeeds: deduct from the ledger, fix the allowed time.
ProbeFits ==
  LET t == placing
      n == Span(demand[t])
      window == Window(cursor, n)
  IN
  /\ placing # None
  /\ ~SearchExhausted(t)
  /\ Fits(t, cursor)
  /\ globalCap' = [s \in 0 .. (ledgerSize - 1) |->
       IF s \in window THEN globalCap[s] - FootGlobal(t) ELSE globalCap[s]]
  /\ rankCap' = [s \in 0 .. (ledgerSize - 1) |->
       IF s \in window THEN Deduct(t, s) ELSE rankCap[s]]
  /\ scheduled' = [scheduled EXCEPT ![t] = TRUE]
  /\ booking' = [booking EXCEPT ![t] =
       [start |-> cursor, span |-> n, foot |-> FootGlobal(t),
        rankFoot |-> [r \in Ranks |->
                        IF r \in reported[t] THEN FootRank(t, r) ELSE 0]]]
  /\ placing' = None
  /\ UNCHANGED <<now, rankVars, reported, tSeen, demand, lastRun, ledgerSize>>
  /\ UNCHANGED <<caller, todo, startSlot, cursor>>

\* The search ends without a slot: the task stays pending.
ProbeGivesUp ==
  /\ placing # None
  /\ SearchExhausted(placing)
  /\ placing' = None
  /\ UNCHANGED <<now, rankVars, poolVars, ledgerVars, caller, todo, startSlot, cursor>>

\* RunScheduling returns to CheckAdmission, which answers without jitter.
FinishRun(r) ==
  LET t == CurrentTask(r) IN
  /\ caller = r
  /\ placing = None
  /\ todo = {}
  /\ lastRun' = now
  /\ caller' = None
  /\ \E yes \in IF scheduled[t] THEN Reached(AllowedTime(t)) ELSE {FALSE} : Answer(r, t, yes)
  /\ UNCHANGED <<now, reported, tSeen, demand, scheduled, booking, ledgerVars>>
  /\ UNCHANGED <<todo, placing, startSlot, cursor>>

\* Everyone who sends to rank r in its current task has started the task.
ExchangeEnds(r) ==
  /\ stage[r] = "exchange"
  /\ \A s \in Ranks :
       Flow[CurrentTask(r)][s][r] > 0 => admittedAt[CurrentTask(r)][s] >= 0

\* AllToAllV of rank r ends some transfer time after the last sender started;
\* the next function of the rank begins with the compute time of its task.
FinishExchange(r) ==
  /\ caller = None
  /\ ExchangeEnds(r)
  /\ \/ /\ pos[r] < Len(Program(r))
        /\ pos' = [pos EXCEPT ![r] = @ + 1]
        /\ stage' = [stage EXCEPT ![r] = "ask"]
        /\ \E x \in ExchangeTimes :
             wake' = [wake EXCEPT ![r] =
                        now + x + ComputeTime[Program(r)[pos[r] + 1]]]
     \/ /\ pos[r] = Len(Program(r))
        /\ stage' = [stage EXCEPT ![r] = "done"]
        /\ UNCHANGED <<pos, wake>>
  /\ UNCHANGED <<now, admittedAt, poolVars, ledgerVars, runVars>>

\* The simulator runs the events of this instant before it advances to the
\* next instant at which some rank wakes.
Advance ==
  /\ caller = None
  /\ \A r \in Ranks : ~ExchangeEnds(r) /\ ~(stage[r] = "ask" /\ wake[r] = now)
  /\ \E r \in Ranks :
       /\ stage[r] = "ask"
       /\ \A q \in Ranks : stage[q] = "ask" => wake[q] >= wake[r]
       /\ wake[r] <= MaxTime
       /\ now' = wake[r]
  /\ UNCHANGED <<rankVars, poolVars, ledgerVars, runVars>>

Next ==
  \/ \E r \in Ranks :
       \/ AskTooEarly(r)
       \/ AskScheduled(r)
       \/ AskUnscheduled(r)
       \/ AskAndRun(r)
       \/ FinishRun(r)
       \/ FinishExchange(r)
  \/ \E t \in Tasks : PlaceNext(t)
  \/ ProbeFails
  \/ ProbeFits
  \/ ProbeGivesUp
  \/ Advance

Spec == Init /\ [][Next]_vars
FairSpec == Spec /\ WF_vars(Next)
-----------------------------------------------------------------------------
(* Properties.                                                             *)

Slots == 0 .. (ledgerSize - 1)

\* The unsigned ledger entries stay between 0 and their limit, so that no
\* deduction of RunScheduling (moe-jit.h 376-380) wraps around.
LedgerTypeOK ==
  /\ ledgerSize \in Nat
  /\ globalCap \in [Slots -> 0 .. GlobalLimit]
  /\ rankCap \in [Slots -> [Ranks -> 0 .. RankLimit]]

Bookings == [start : Nat, span : Nat, foot : Nat, rankFoot : [Ranks -> Nat]]

\* Type invariant: the ranks' loops, m_pool, the ledger and the running call.
TypeOK ==
  /\ now \in Nat
  /\ pos \in [Ranks -> Nat \ {0}]
  /\ stage \in [Ranks -> {"ask", "exchange", "done"}]
  /\ wake \in [Ranks -> Nat]
  /\ admittedAt \in [Tasks -> [Ranks -> Nat \cup {-1}]]
  /\ reported \in [Tasks -> SUBSET Ranks]
  /\ tSeen \in [Tasks -> Nat]
  /\ demand \in [Tasks -> Nat]
  /\ scheduled \in [Tasks -> BOOLEAN]
  /\ booking \in [Tasks -> Bookings]
  /\ lastRun \in Nat \cup {-1}
  /\ LedgerTypeOK
  /\ caller \in Ranks \cup {None}
  /\ todo \in SUBSET Tasks
  /\ placing \in Tasks \cup {None}
  /\ startSlot \in Nat
  /\ cursor \in Nat

\* The scheduled tasks whose reservation covers slot s.
Covering(s) ==
  {t \in Tasks : scheduled[t] /\ s \in Window(booking[t].start, booking[t].span)}

\* The ledger is conserved: what is left of a slot and what the reservations
\* covering it have taken add up to the limit, globally and per rank, whatever
\* the order in which quorums complete and ledgers grow (moe-jit.h 342-380).
LedgerConserved ==
  \A s \in Slots :
    /\ globalCap[s] + SumFunctionOnSet([t \in Tasks |-> booking[t].foot], Covering(s))
         = GlobalLimit
    /\ \A r \in Ranks :
         rankCap[s][r]
           + SumFunctionOnSet([t \in Tasks |-> booking[t].rankFoot[r]], Covering(s))
         = RankLimit

\* Gang admission: no rank starts a task before a quorum of ranks is ready for
\* it and the controller has reserved slots for it (moe-jit.h 283-301).
GangAdmission ==
  \A t \in Tasks :
    (\E r \in Ranks : admittedAt[t][r] >= 0) =>
      scheduled[t] /\ Cardinality(reported[t]) >= Quorum(t)

\* No rank starts before the first slot reserved for its task, even with a slot
\* index that double precision has rounded down (moe-jit.h 287, 301, 329).
NoStartBeforeReservation ==
  \A t \in Tasks, r \in Ranks :
    admittedAt[t][r] >= 0 => admittedAt[t][r] >= AllowedTime(t)

\* The vectors are large enough: whenever the search reads slots, all of its
\* window lies inside the ledger and the guard at moe-jit.h 351 never fires.
SearchInBounds ==
  placing # None /\ cursor < startSlot + Horizon(Span(demand[placing])) =>
    cursor + Span(demand[placing]) < ledgerSize

\* Jumping over the slot that failed (moe-jit.h 386-389) loses nothing: of the start
\* slots that have not ended, a task gets the earliest at which it fits.  Where the slot
\* index was rounded down (329) it may get the slot that ends at this instant, but never
\* an earlier one.
EarliestFit ==
  [][\A t \in Tasks : ~scheduled[t] /\ scheduled'[t] =>
       LET start == booking'[t].start IN
       /\ Fits(t, start)
       /\ now <= (start + 1) * DeltaT
       /\ \A u \in 0 .. (start - 1) : now < (u + 1) * DeltaT => ~Fits(t, u)]_vars

\* A task stays pending (moe-jit.h 391-393) only if it fits nowhere in the
\* search horizon.
GiveUpOnlyIfFull ==
  [][\A t \in Tasks : placing = t /\ placing' # t /\ ~scheduled'[t] =>
       \A u \in startSlot .. (startSlot + Horizon(Span(demand[t])) - 1) :
         ~Fits(t, u)]_vars

\* A task with a quorum that has no slots yet, because the controller had run
\* at the same instant or because the horizon was full, is looked at again
\* within one backoff of the last run (moe-jit.h 294-300 and 477-479).
PendingRevisited ==
  \A t \in PendingGiven(reported) : caller = None => now <= lastRun + Backoff

\* Every rank finishes all of its tasks: each is eventually admitted, also when
\* two quorums complete at one instant or the horizon is full for a while.
AllTasksComplete == <>(\A r \in Ranks : stage[r] = "done")

\* Stated by the comment "Spread rank execution significantly to eliminate incast
\* queueing at switches" (moe-jit.h 284): each rank starts its own jitter after
\* the reserved slot begins.
JitterRespected ==
  \A t \in Tasks, r \in Ranks :
    admittedAt[t][r] >= 0 => admittedAt[t][r] >= AllowedTime(t) + Jitter(r)

\* Stated by the comment on groupSize, "number of nodes that take part in the task
\* (Quorum Size)" (moe-jit.h 198): once all ranks that run the task have
\* reported it, the quorum is complete.
QuorumReachable ==
  \A t \in Tasks :
    reported[t] # {} /\ Participants(t) \subseteq reported[t] =>
      Cardinality(reported[t]) >= Quorum(t)

\* Stated by the comment "Let it remain pending and be evaluated in the next
\* timestep as the horizon slides forward" (moe-jit.h 392): a pending task fits
\* the untouched slots the horizon will reach.
PendingFitsFreshSlots ==
  \A t \in PendingGiven(reported) :
    /\ FootGlobal(t) <= GlobalLimit
    /\ \A r \in reported[t] : FootRank(t, r) <= RankLimit
=============================================================================
