--------------------- MODULE CentralizedAdmission_proofs ---------------------
(***************************************************************************)
(* Proofs about CentralizedAdmission for all ranks, traces, loads, limits  *)
(* and horizons.                                                           *)
(***************************************************************************)
EXTENDS CentralizedAdmission, SumTheorems, FiniteSetTheorems, TLAPS

-----------------------------------------------------------------------------
(* Arithmetic of a reservation.                                            *)

\* Euclidean division, as the provers need it.
LEMMA DivProps ==
  ASSUME NEW a \in Nat, NEW b \in Nat \ {0}
  PROVE  /\ a \div b \in Nat
         /\ b * (a \div b) <= a
         /\ a < b * ((a \div b) + 1)
OBVIOUS

\* Division without remainder.
LEMMA ExactDiv ==
  ASSUME NEW a \in Nat, NEW b \in Nat \ {0}, a % b = 0
  PROVE  a = b * (a \div b)
OBVIOUS

\* The span computed by RunScheduling (moe-jit.h 336-337) is at least one slot,
\* and that many full slots hold the demand.
LEMMA SpanProps ==
  ASSUME NEW d \in Nat
  PROVE  /\ Span(d) \in Nat \ {0}
         /\ d <= Span(d) * Rslot
<1>1. CASE d = 0
  BY <1>1, LedgerAssumption DEF Span
<1>2. CASE d # 0
  <2> DEFINE q == (d + Rslot - 1) \div Rslot
  <2>1. d + Rslot - 1 \in Nat /\ Rslot \in Nat \ {0}
    BY <1>2, LedgerAssumption
  <2>2. q \in Nat /\ Rslot * q <= d + Rslot - 1 /\ d + Rslot - 1 < Rslot * (q + 1)
    BY <2>1, DivProps
  <2>3. Span(d) = q
    BY <1>2 DEF Span
  <2> HIDE DEF q
  <2>4. Rslot * (q + 1) = Rslot * q + Rslot /\ Rslot * q = q * Rslot
    BY <2>1, <2>2
  <2>5. q # 0
    BY <2>1, <2>2, <1>2
  <2> QED
    BY <2>1, <2>2, <2>3, <2>4, <2>5
<1> QED
  BY <1>1, <1>2

\* One slot's share of a demand (moe-jit.h 359) never exceeds m_Rslot, and the
\* shares fall short of the demand by less than one byte per slot.
THEOREM ShareBound ==
  ASSUME NEW d \in Nat
  PROVE  /\ d \div Span(d) \in 0 .. Rslot
         /\ Span(d) * (d \div Span(d)) <= d
         /\ d < Span(d) * ((d \div Span(d)) + 1)
<1> DEFINE n == Span(d)
           f == d \div n
<1>1. n \in Nat \ {0} /\ d <= n * Rslot /\ Rslot \in Nat
  BY SpanProps, LedgerAssumption
<1>2. f \in Nat /\ n * f <= d /\ d < n * (f + 1)
  BY <1>1, DivProps
<1> HIDE DEF f, n
<1>3. f <= Rslot
  <2>1. SUFFICES ASSUME f >= Rslot + 1 PROVE FALSE
    BY <1>1, <1>2
  <2>2. n * f >= n * (Rslot + 1)
    BY <1>1, <1>2, <2>1
  <2>3. n * (Rslot + 1) = n * Rslot + n
    BY <1>1
  <2> QED
    BY <1>1, <1>2, <2>2, <2>3
<1> QED
  BY <1>1, <1>2, <1>3 DEF f, n
-----------------------------------------------------------------------------
(* The inductive invariant.                                                *)

\* A rank that has work left points at a task of its program.
ProgramInv ==
  \A r \in Ranks : stage[r] # "done" => pos[r] \in 1 .. Len(Program(r))

\* What is true of a call of RunScheduling in progress: its tasks have a quorum
\* and no slots yet, and it was made by a rank that is still asking.
RunInv ==
  /\ caller = None => todo = {} /\ placing = None
  /\ caller # None => stage[caller] = "ask"
  /\ \A t \in todo : ~scheduled[t] /\ Cardinality(reported[t]) >= Quorum(t)
  /\ placing # None =>
       /\ placing \notin todo
       /\ ~scheduled[placing]
       /\ Cardinality(reported[placing]) >= Quorum(placing)

\* A scheduled task keeps its quorum: reports are never withdrawn.
ScheduledHaveQuorum ==
  \A t \in Tasks : scheduled[t] => Cardinality(reported[t]) >= Quorum(t)

\* A rank is admitted only to a scheduled task, at or after its first slot.
AdmittedInv ==
  \A t \in Tasks, r \in Ranks :
    admittedAt[t][r] >= 0 => scheduled[t] /\ admittedAt[t][r] >= AllowedTime(t)

\* The search stays at or after its start slot, in a ledger grown for it, and
\* has passed over no slot at which the task fits.
SearchInv ==
  placing # None =>
    /\ startSlot <= cursor
    /\ NeededSize(Span(demand[placing])) <= ledgerSize
    /\ \A u \in startSlot .. (cursor - 1) : ~Fits(placing, u)

IInv ==
  /\ TypeOK
  /\ ProgramInv
  /\ RunInv
  /\ ScheduledHaveQuorum
  /\ AdmittedInv
  /\ SearchInv

-----------------------------------------------------------------------------
(* Types of the operators.                                                 *)

\* The task a running rank asks for is one of its program (moe-jit.h 487-494).
LEMMA CurrentTaskType ==
  ASSUME TypeOK, ProgramInv, NEW r \in Ranks, stage[r] # "done"
  PROVE  CurrentTask(r) \in Tasks
<1>1. Program(r) \in Seq(Tasks) /\ pos[r] \in 1 .. Len(Program(r))
  BY TaskAssumption DEF ProgramInv
<1> QED
  BY <1>1 DEF CurrentTask

\* The number of start slots the search tries (moe-jit.h 342) is a natural number.
LEMMA HorizonType ==
  ASSUME NEW n \in Nat
  PROVE  Horizon(n) \in Nat
BY LedgerAssumption DEF Horizon

\* The span of a task is at least 1, and what a placement takes from a slot
\* (moe-jit.h 336-337, 359, 367) is a natural number.
LEMMA FootTypes ==
  ASSUME TypeOK, NEW t \in Tasks
  PROVE  /\ Span(demand[t]) \in Nat \ {0}
         /\ FootGlobal(t) \in Nat
         /\ \A r \in Ranks : FootRank(t, r) \in Nat
<1>1. demand[t] \in Nat
  BY DEF TypeOK
<1>2. Span(demand[t]) \in Nat \ {0}
  BY <1>1, SpanProps
<1>3. FootGlobal(t) \in Nat
  BY <1>1, <1>2, DivProps DEF FootGlobal
<1>4. ASSUME NEW r \in Ranks PROVE FootRank(t, r) \in Nat
  <2>1. Load(t, r) \in Nat
    BY TaskAssumption
  <2> QED
    BY <2>1, <1>2, DivProps DEF FootRank
<1> QED
  BY <1>2, <1>3, <1>4

\* The quorum and the number of reporters compared with it (moe-jit.h 294-295) are
\* natural numbers.
LEMMA QuorumTypes ==
  ASSUME NEW reps \in SUBSET Ranks, NEW t \in Tasks
  PROVE  Cardinality(reps) \in Nat /\ Quorum(t) \in Nat
<1>1. IsFiniteSet(reps)
  BY FS_Subset, RanksAssumption
<1> QED
  BY <1>1, FS_CardinalityType, TaskAssumption

\* The delay added to the allowed time of a rank (moe-jit.h 286) is a natural number.
LEMMA JitterType ==
  ASSUME NEW r \in Ranks
  PROVE  Jitter(r) \in Nat
<1>1. r \in Nat /\ JitterStep \in Nat
  BY RanksAssumption, TimesAssumption
<1>2. r % 32 \in Nat
  BY <1>1
<1> QED
  BY <1>1, <1>2 DEF Jitter

\* The start time of the first reserved slot (moe-jit.h 384) is a natural number.
LEMMA AllowedType ==
  ASSUME TypeOK, NEW t \in Tasks
  PROVE  AllowedTime(t) \in Nat
<1>1. booking[t].start \in Nat /\ DeltaT \in Nat
  BY TimesAssumption DEF TypeOK, Bookings
<1> QED
  BY <1>1 DEF AllowedTime

\* A slot index, also one that is rounded down (moe-jit.h 329), is a natural number.
LEMMA SlotIndexType ==
  ASSUME NEW n \in Nat
  PROVE  SlotIndices(n) \subseteq Nat
<1>1. n \div DeltaT \in Nat
  BY DivProps, TimesAssumption
<1> QED
  BY <1>1 DEF SlotIndices

-----------------------------------------------------------------------------
(* The parts the actions are made of.                                      *)

\* A report keeps the types of m_pool and never shrinks the set of reporters.
LEMMA ReportProps ==
  ASSUME TypeOK, NEW r \in Ranks, NEW t \in Tasks, Report(r, t)
  PROVE  /\ reported' \in [Tasks -> SUBSET Ranks]
         /\ tSeen' \in [Tasks -> Nat]
         /\ demand' \in [Tasks -> Nat]
         /\ \A u \in Tasks : Cardinality(reported'[u]) >= Cardinality(reported[u])
<1>1. Load(t, r) \in Nat
  BY TaskAssumption
<1>2. reported' \in [Tasks -> SUBSET Ranks]
  BY DEF Report, TypeOK
<1>3. tSeen' \in [Tasks -> Nat]
  BY DEF Report, TypeOK
<1>4. demand' \in [Tasks -> Nat]
  BY <1>1 DEF Report, TypeOK
<1>5. ASSUME NEW u \in Tasks
      PROVE  Cardinality(reported'[u]) >= Cardinality(reported[u])
  <2>1. reported[u] \subseteq reported'[u] /\ reported'[u] \subseteq Ranks
    BY <1>2 DEF Report, TypeOK
  <2>2. IsFiniteSet(reported'[u])
    BY <2>1, FS_Subset, RanksAssumption
  <2>3. Cardinality(reported[u]) <= Cardinality(reported'[u])
    BY <2>1, <2>2, FS_Subset
  <2>4. Cardinality(reported[u]) \in Nat /\ Cardinality(reported'[u]) \in Nat
    BY <2>1, <2>2, FS_Subset, FS_CardinalityType
  <2> QED
    BY <2>3, <2>4
<1> QED
  BY <1>2, <1>3, <1>4, <1>5

\* An answer keeps the types of the loop of the rank and its place in the program.
LEMMA AnswerProps ==
  ASSUME TypeOK, ProgramInv, NEW r \in Ranks, NEW t \in Tasks, NEW yes,
         stage[r] = "ask", Answer(r, t, yes)
  PROVE  /\ pos' \in [Ranks -> Nat \ {0}]
         /\ stage' \in [Ranks -> {"ask", "exchange", "done"}]
         /\ wake' \in [Ranks -> Nat]
         /\ admittedAt' \in [Tasks -> [Ranks -> Nat \cup {-1}]]
         /\ ProgramInv'
         /\ \A u \in Tasks, q \in Ranks :
              \/ admittedAt'[u][q] = admittedAt[u][q]
              \/ yes /\ u = t /\ admittedAt'[u][q] = now
<1>1. CASE yes
  <2>1. /\ pos' = pos /\ wake' = wake
        /\ stage' = [stage EXCEPT ![r] = "exchange"]
        /\ admittedAt' = [admittedAt EXCEPT ![t][r] = now]
    BY <1>1 DEF Answer
  <2>2. /\ pos' \in [Ranks -> Nat \ {0}]
        /\ stage' \in [Ranks -> {"ask", "exchange", "done"}]
        /\ wake' \in [Ranks -> Nat]
    BY <2>1 DEF TypeOK
  <2>3. admittedAt' \in [Tasks -> [Ranks -> Nat \cup {-1}]]
    BY <2>1 DEF TypeOK
  <2>4. ProgramInv'
    BY <2>1 DEF ProgramInv, TypeOK
  <2>5. \A u \in Tasks, q \in Ranks :
          \/ admittedAt'[u][q] = admittedAt[u][q]
          \/ yes /\ u = t /\ admittedAt'[u][q] = now
    BY <1>1, <2>1 DEF TypeOK
  <2> QED
    BY <2>2, <2>3, <2>4, <2>5
<1>2. CASE ~yes
  <2>1. /\ pos' = pos /\ stage' = stage /\ admittedAt' = admittedAt
        /\ wake' = [wake EXCEPT ![r] = now + Backoff]
    BY <1>2 DEF Answer
  <2>2. wake' \in [Ranks -> Nat]
    BY <2>1, TimesAssumption DEF TypeOK
  <2>3. ProgramInv'
    BY <2>1 DEF ProgramInv
  <2> QED
    BY <2>1, <2>2, <2>3 DEF TypeOK
<1> QED
  BY <1>1, <1>2

\* A positive comparison of rounded times still means the time has come.
LEMMA ReachedProps ==
  ASSUME NEW x \in Nat, now \in Nat, NEW yes \in Reached(x), yes
  PROVE  now >= x
<1>1. CASE now = x
  BY <1>1
<1>2. CASE now # x
  <2>1. yes = (now > x)
    BY <1>2 DEF Reached
  <2>2. now > x
    BY <2>1, Zenon
  <2> QED
    BY <2>2
<1> QED
  BY <1>1, <1>2

\* A comparison has one of two outcomes.
LEMMA ReachedBoolean ==
  ASSUME NEW x
  PROVE  Reached(x) \subseteq BOOLEAN
<1> SUFFICES ASSUME NEW y \in Reached(x) PROVE y \in BOOLEAN
  OBVIOUS
<1>1. CASE now = x
  BY <1>1 DEF Reached
<1>2. CASE now # x
  <2>1. y = (now > x)
    BY <1>2, Zenon DEF Reached
  <2>2. CASE now > x
    BY <2>1, <2>2, Zenon
  <2>3. CASE ~(now > x)
    <3>1. (now > x) = FALSE
      BY <2>3
    <3> QED
      BY <2>1, <3>1
  <2> QED
    BY <2>2, <2>3
<1> QED
  BY <1>1, <1>2

\* Only the rank that asks can become admitted, and only if the answer may be yes.
LEMMA AdmittedStep ==
  ASSUME IInv, NEW r \in Ranks, NEW t \in Tasks, NEW yes,
         stage[r] = "ask", Answer(r, t, yes),
         yes => scheduled[t] /\ now >= AllowedTime(t),
         UNCHANGED <<scheduled, booking>>
  PROVE  AdmittedInv'
<1> SUFFICES ASSUME NEW u \in Tasks, NEW q \in Ranks, admittedAt'[u][q] >= 0
             PROVE  scheduled[u] /\ admittedAt'[u][q] >= AllowedTime(u)
  BY DEF AdmittedInv, AllowedTime
<1>1. \/ admittedAt'[u][q] = admittedAt[u][q]
      \/ yes /\ u = t /\ admittedAt'[u][q] = now
  BY AnswerProps DEF IInv
<1>2. CASE admittedAt'[u][q] = admittedAt[u][q]
  BY <1>2 DEF IInv, AdmittedInv
<1>3. CASE yes /\ u = t /\ admittedAt'[u][q] = now
  BY <1>3
<1> QED
  BY <1>1, <1>2, <1>3

-----------------------------------------------------------------------------
(* One lemma per action of Next.                                           *)

\* The freshly constructed scheduler (moe-jit.h 222-255) satisfies the invariant.
LEMMA InitIInv == Init => IInv
<1> SUFFICES ASSUME Init PROVE IInv
  OBVIOUS
<1>1. InitialSize \in Nat /\ GlobalLimit \in Nat /\ RankLimit \in Nat
  BY LedgerAssumption
<1>2. TypeOK
  <2>1. LedgerTypeOK
    BY <1>1 DEF Init, LedgerTypeOK, Slots
  <2>2. booking \in [Tasks -> Bookings]
    BY DEF Init, Bookings
  <2>3. wake \in [Ranks -> Nat]
    BY TimesAssumption DEF Init
  <2>4. /\ stage \in [Ranks -> {"ask", "exchange", "done"}]
        /\ pos \in [Ranks -> Nat \ {0}]
        /\ admittedAt \in [Tasks -> [Ranks -> Nat \cup {-1}]]
    BY DEF Init
  <2>5. /\ reported \in [Tasks -> SUBSET Ranks]
        /\ tSeen \in [Tasks -> Nat]
        /\ demand \in [Tasks -> Nat]
        /\ scheduled \in [Tasks -> BOOLEAN]
    BY DEF Init
  <2>6. /\ now \in Nat /\ lastRun \in Nat \cup {-1}
        /\ caller \in Ranks \cup {None} /\ todo \in SUBSET Tasks
        /\ placing \in Tasks \cup {None} /\ startSlot \in Nat /\ cursor \in Nat
    BY DEF Init
  <2> QED
    BY <2>1, <2>2, <2>3, <2>4, <2>5, <2>6 DEF TypeOK
<1>3. ProgramInv
  <2> SUFFICES ASSUME NEW r \in Ranks, stage[r] # "done"
               PROVE  pos[r] \in 1 .. Len(Program(r))
    BY DEF ProgramInv
  <2>1. Program(r) # <<>> /\ pos[r] = 1
    BY DEF Init
  <2>2. Program(r) \in Seq(Tasks)
    BY TaskAssumption
  <2> QED
    BY <2>1, <2>2
<1>4. RunInv /\ ScheduledHaveQuorum /\ AdmittedInv /\ SearchInv
  BY DEF Init, RunInv, ScheduledHaveQuorum, AdmittedInv, SearchInv
<1> QED
  BY <1>2, <1>3, <1>4 DEF IInv

\* The early return before the slot of a scheduled task (moe-jit.h 258-260).
LEMMA AskTooEarlyIInv ==
  ASSUME IInv, NEW r \in Ranks, AskTooEarly(r)
  PROVE  IInv'
<1> DEFINE t == CurrentTask(r)
<1>1. caller = None /\ stage[r] = "ask" /\ Answer(r, t, FALSE)
  BY DEF AskTooEarly, Asks
<1>2. t \in Tasks
  BY <1>1, CurrentTaskType DEF IInv
<1>3. UNCHANGED <<now, poolVars, ledgerVars, runVars>>
  BY DEF AskTooEarly
<1> HIDE DEF t
<1>4. TypeOK' /\ ProgramInv'
  BY <1>1, <1>2, <1>3, AnswerProps
     DEF IInv, TypeOK, LedgerTypeOK, Slots, poolVars, ledgerVars, runVars
<1>5. AdmittedInv'
  BY <1>1, <1>2, <1>3, AdmittedStep DEF poolVars
<1>6. RunInv' /\ ScheduledHaveQuorum' /\ SearchInv'
  BY <1>1, <1>3
     DEF IInv, RunInv, ScheduledHaveQuorum, SearchInv, poolVars, ledgerVars, runVars
<1> QED
  BY <1>4, <1>5, <1>6 DEF IInv

\* What AskScheduled and AskUnscheduled have in common.
LEMMA ReportAndAnswerIInv ==
  ASSUME IInv, NEW r \in Ranks, NEW t \in Tasks, NEW yes,
         caller = None, stage[r] = "ask", Report(r, t), Answer(r, t, yes),
         yes => scheduled[t] /\ now >= AllowedTime(t),
         UNCHANGED <<now, scheduled, booking, lastRun, ledgerVars, runVars>>
  PROVE  IInv'
<1>1. TypeOK' /\ ProgramInv'
  BY AnswerProps, ReportProps
     DEF IInv, TypeOK, LedgerTypeOK, Slots, ledgerVars, runVars
<1>2. AdmittedInv'
  BY AdmittedStep
<1>3. RunInv' /\ SearchInv'
  BY DEF IInv, RunInv, SearchInv, runVars
<1>4. ScheduledHaveQuorum'
  <2> SUFFICES ASSUME NEW u \in Tasks, scheduled[u]
               PROVE  Cardinality(reported'[u]) >= Quorum(u)
    BY DEF ScheduledHaveQuorum
  <2>1. Cardinality(reported'[u]) >= Cardinality(reported[u])
    BY ReportProps DEF IInv
  <2>2. Cardinality(reported[u]) >= Quorum(u)
    BY DEF IInv, ScheduledHaveQuorum
  <2>3. /\ Cardinality(reported[u]) \in Nat /\ Cardinality(reported'[u]) \in Nat
        /\ Quorum(u) \in Nat
    BY <1>1, QuorumTypes DEF IInv, TypeOK
  <2> QED
    BY <2>1, <2>2, <2>3
<1> QED
  BY <1>1, <1>2, <1>3, <1>4 DEF IInv

\* CheckAdmission of a task that already has a slot (moe-jit.h 283-291).
LEMMA AskScheduledIInv ==
  ASSUME IInv, NEW r \in Ranks, AskScheduled(r)
  PROVE  IInv'
<1> DEFINE t == CurrentTask(r)
<1>1. /\ caller = None /\ stage[r] = "ask" /\ Report(r, t) /\ scheduled[t]
      /\ UNCHANGED <<now, scheduled, booking, lastRun, ledgerVars, runVars>>
  BY DEF AskScheduled, Asks
<1>2. PICK yes \in Reached(AllowedTime(t) + Jitter(r)) : Answer(r, t, yes)
  BY DEF AskScheduled
<1>3. t \in Tasks
  BY <1>1, CurrentTaskType DEF IInv
<1> HIDE DEF t
<1>4. yes => now >= AllowedTime(t)
  <2>1. AllowedTime(t) \in Nat /\ Jitter(r) \in Nat /\ now \in Nat
    BY <1>3, AllowedType, JitterType DEF IInv, TypeOK
  <2>2. ASSUME yes PROVE now >= AllowedTime(t) + Jitter(r)
    <3>1. AllowedTime(t) + Jitter(r) \in Nat
      BY <2>1
    <3> QED
      BY <1>2, <2>1, <2>2, <3>1, ReachedProps
  <2> QED
    BY <2>1, <2>2
<1> QED
  BY <1>1, <1>2, <1>3, <1>4, ReportAndAnswerIInv

\* CheckAdmission of a task without quorum, or at an instant at which the controller
\* has already run (moe-jit.h 293-301).
LEMMA AskUnscheduledIInv ==
  ASSUME IInv, NEW r \in Ranks, AskUnscheduled(r)
  PROVE  IInv'
<1> DEFINE t == CurrentTask(r)
<1>1. /\ caller = None /\ stage[r] = "ask" /\ Report(r, t) /\ Answer(r, t, FALSE)
      /\ UNCHANGED <<now, scheduled, booking, lastRun, ledgerVars, runVars>>
  BY DEF AskUnscheduled, Asks
<1>2. t \in Tasks
  BY <1>1, CurrentTaskType DEF IInv
<1> HIDE DEF t
<1> QED
  BY <1>1, <1>2, ReportAndAnswerIInv

\* CheckAdmission that starts RunScheduling (moe-jit.h 293-301, 311-327).
LEMMA AskAndRunIInv ==
  ASSUME IInv, NEW r \in Ranks, AskAndRun(r)
  PROVE  IInv'
<1> DEFINE t == CurrentTask(r)
<1>1. /\ caller = None /\ stage[r] = "ask" /\ Report(r, t)
      /\ caller' = r /\ todo' = PendingGiven(reported') /\ startSlot' \in SlotIndices(now)
      /\ UNCHANGED <<now, rankVars, scheduled, booking, lastRun, ledgerVars, placing, cursor>>
  BY DEF AskAndRun, Asks
<1>2. t \in Tasks
  BY <1>1, CurrentTaskType DEF IInv
<1> HIDE DEF t
<1>3. placing = None /\ placing' = None
  BY <1>1 DEF IInv, RunInv
<1>4. TypeOK'
  <2>1. startSlot' \in Nat
    BY <1>1, SlotIndexType DEF IInv, TypeOK
  <2>2. todo' \subseteq Tasks
    BY <1>1 DEF PendingGiven
  <2> QED
    BY <1>1, <1>2, <2>1, <2>2, ReportProps
       DEF IInv, TypeOK, LedgerTypeOK, Slots, ledgerVars, rankVars
<1>5. ProgramInv' /\ AdmittedInv' /\ SearchInv'
  BY <1>1, <1>3 DEF IInv, ProgramInv, AdmittedInv, SearchInv, rankVars, AllowedTime
<1>6. RunInv'
  <2>1. \A u \in todo' : ~scheduled'[u] /\ Cardinality(reported'[u]) >= Quorum(u)
    BY <1>1 DEF PendingGiven, IsQuorum
  <2> QED
    BY <1>1, <1>3, <2>1, NoneAssumption DEF RunInv, rankVars
<1>7. ScheduledHaveQuorum'
  <2> SUFFICES ASSUME NEW u \in Tasks, scheduled[u]
               PROVE  Cardinality(reported'[u]) >= Quorum(u)
    BY <1>1 DEF ScheduledHaveQuorum
  <2>1. Cardinality(reported'[u]) >= Cardinality(reported[u])
    BY <1>1, <1>2, ReportProps DEF IInv
  <2>2. Cardinality(reported[u]) >= Quorum(u)
    BY DEF IInv, ScheduledHaveQuorum
  <2>3. /\ Cardinality(reported[u]) \in Nat /\ Cardinality(reported'[u]) \in Nat
        /\ Quorum(u) \in Nat
    BY <1>4, QuorumTypes DEF IInv, TypeOK
  <2> QED
    BY <2>1, <2>2, <2>3
<1> QED
  BY <1>4, <1>5, <1>6, <1>7 DEF IInv

\* The end of RunScheduling and the answer of CheckAdmission (moe-jit.h 297-301).
LEMMA FinishRunIInv ==
  ASSUME IInv, NEW r \in Ranks, FinishRun(r)
  PROVE  IInv'
<1> DEFINE t == CurrentTask(r)
<1>1. /\ caller = r /\ placing = None /\ todo = {} /\ lastRun' = now /\ caller' = None
      /\ UNCHANGED <<now, reported, tSeen, demand, scheduled, booking, ledgerVars>>
      /\ UNCHANGED <<todo, placing, startSlot, cursor>>
  BY DEF FinishRun
<1>2. stage[r] = "ask"
  BY <1>1, NoneAssumption DEF IInv, RunInv
<1>3. t \in Tasks
  BY <1>2, CurrentTaskType DEF IInv
<1>4. PICK yes \in {b \in Reached(AllowedTime(t)) : scheduled[t]}
                    \cup {b \in {FALSE} : ~scheduled[t]} : Answer(r, t, yes)
  BY DEF FinishRun
<1> HIDE DEF t
<1>5. yes => scheduled[t] /\ now >= AllowedTime(t)
  <2>1. AllowedTime(t) \in Nat /\ now \in Nat
    BY <1>3, AllowedType DEF IInv, TypeOK
  <2>2. yes => scheduled[t] /\ yes \in Reached(AllowedTime(t))
    BY <1>4, Zenon
  <2>3. ASSUME yes PROVE now >= AllowedTime(t)
    BY <2>1, <2>2, <2>3, ReachedProps
  <2> QED
    BY <2>2, <2>3
<1>6. TypeOK' /\ ProgramInv'
  BY <1>1, <1>2, <1>3, <1>4, AnswerProps
     DEF IInv, TypeOK, LedgerTypeOK, Slots, ledgerVars
<1>7. AdmittedInv'
  BY <1>1, <1>2, <1>3, <1>4, <1>5, AdmittedStep
<1>8. RunInv' /\ ScheduledHaveQuorum' /\ SearchInv'
  BY <1>1 DEF IInv, RunInv, ScheduledHaveQuorum, SearchInv
<1> QED
  BY <1>6, <1>7, <1>8 DEF IInv

\* The end of the AllToAllV of a rank (moe-jit.h 487-494).
LEMMA FinishExchangeIInv ==
  ASSUME IInv, NEW r \in Ranks, FinishExchange(r)
  PROVE  IInv'
<1>1. /\ caller = None /\ stage[r] = "exchange"
      /\ UNCHANGED <<now, admittedAt, poolVars, ledgerVars, runVars>>
  BY DEF FinishExchange, ExchangeEnds
<1>2. Program(r) \in Seq(Tasks) /\ pos[r] \in 1 .. Len(Program(r))
  BY <1>1, TaskAssumption DEF IInv, ProgramInv
<1>3. CASE pos[r] < Len(Program(r))
  <2>1. PICK x \in ExchangeTimes :
          /\ pos' = [pos EXCEPT ![r] = @ + 1]
          /\ stage' = [stage EXCEPT ![r] = "ask"]
          /\ wake' = [wake EXCEPT ![r] = now + x + ComputeTime[Program(r)[pos[r] + 1]]]
    BY <1>2, <1>3 DEF FinishExchange
  <2>2. Program(r)[pos[r] + 1] \in Tasks /\ Len(Program(r)) \in Nat
    BY <1>2, <1>3
  <2>3. now + x + ComputeTime[Program(r)[pos[r] + 1]] \in Nat
    <3>1. now \in Nat /\ x \in Nat
      BY TimesAssumption DEF IInv, TypeOK
    <3>2. ComputeTime[Program(r)[pos[r] + 1]] \in Nat
      BY <2>2, TimesAssumption
    <3> QED
      BY <3>1, <3>2
  <2>4. /\ pos' \in [Ranks -> Nat \ {0}] /\ wake' \in [Ranks -> Nat]
        /\ stage' \in [Ranks -> {"ask", "exchange", "done"}]
    BY <2>1, <2>3 DEF IInv, TypeOK
  <2>5. pos[r] + 1 \in 1 .. Len(Program(r))
    BY <1>2, <1>3, <2>2
  <2>6. ProgramInv'
    BY <1>1, <2>1, <2>5 DEF IInv, ProgramInv, TypeOK
  <2> QED
    BY <2>4, <2>6, <1>1
       DEF IInv, TypeOK, LedgerTypeOK, Slots, poolVars, ledgerVars, runVars,
           RunInv, ScheduledHaveQuorum, AdmittedInv, SearchInv, AllowedTime
<1>4. CASE ~(pos[r] < Len(Program(r)))
  <2>1. stage' = [stage EXCEPT ![r] = "done"] /\ pos' = pos /\ wake' = wake
    BY <1>4 DEF FinishExchange
  <2>2. /\ stage' \in [Ranks -> {"ask", "exchange", "done"}]
        /\ ProgramInv'
    BY <2>1 DEF IInv, ProgramInv, TypeOK
  <2> QED
    BY <2>1, <2>2, <1>1
       DEF IInv, TypeOK, LedgerTypeOK, Slots, poolVars, ledgerVars, runVars,
           RunInv, ScheduledHaveQuorum, AdmittedInv, SearchInv, AllowedTime
<1> QED
  BY <1>3, <1>4

\* The passing of simulated time.
LEMMA AdvanceIInv ==
  ASSUME IInv, Advance
  PROVE  IInv'
<1>1. /\ caller = None /\ now' \in Nat
      /\ UNCHANGED <<rankVars, poolVars, ledgerVars, runVars>>
  BY DEF Advance, IInv, TypeOK
<1>2. TypeOK'
  BY <1>1 DEF IInv, TypeOK, LedgerTypeOK, Slots, rankVars, poolVars, ledgerVars, runVars
<1>3. ProgramInv' /\ RunInv' /\ ScheduledHaveQuorum' /\ AdmittedInv' /\ SearchInv'
  BY <1>1 DEF IInv, ProgramInv, RunInv, ScheduledHaveQuorum, AdmittedInv, SearchInv,
              AllowedTime, rankVars, poolVars, ledgerVars, runVars
<1> QED
  BY <1>2, <1>3 DEF IInv

\* RunScheduling takes the next pending task and grows the ledger (moe-jit.h 332-347).
LEMMA PlaceNextIInv ==
  ASSUME IInv, NEW t \in Tasks, PlaceNext(t)
  PROVE  IInv'
<1> DEFINE n == Span(demand[t])
           needed == NeededSize(n)
<1>1. /\ caller # None /\ placing = None /\ t \in todo
      /\ todo' = todo \ {t} /\ placing' = t /\ cursor' = startSlot
      /\ UNCHANGED <<now, rankVars, poolVars, caller, startSlot>>
  BY DEF PlaceNext
<1>2. \/ /\ needed > ledgerSize /\ ledgerSize' = needed
         /\ globalCap' = Grow(globalCap, needed, GlobalLimit)
         /\ rankCap' = Grow(rankCap, needed, [r \in Ranks |-> RankLimit])
      \/ ~(needed > ledgerSize) /\ UNCHANGED ledgerVars
  BY DEF PlaceNext
<1>3. n \in Nat /\ needed \in Nat
  <2>1. n \in Nat
    BY FootTypes DEF IInv
  <2>2. Horizon(n) \in Nat /\ startSlot \in Nat /\ Slack \in Nat
    BY <2>1, HorizonType, LedgerAssumption DEF IInv, TypeOK
  <2> HIDE DEF n
  <2> QED
    BY <2>1, <2>2 DEF NeededSize
<1>4. needed' = needed
  BY <1>1 DEF NeededSize, poolVars
<1> HIDE DEF needed
<1>5. LedgerTypeOK' /\ needed <= ledgerSize'
  <2>1. CASE ~(needed > ledgerSize) /\ UNCHANGED ledgerVars
    <3>1. LedgerTypeOK /\ ledgerSize \in Nat
      BY DEF IInv, TypeOK, LedgerTypeOK
    <3>2. LedgerTypeOK'
      BY <2>1, <3>1 DEF LedgerTypeOK, Slots, ledgerVars
    <3> QED
      BY <1>3, <2>1, <3>1, <3>2 DEF ledgerVars
  <2>2. CASE /\ needed > ledgerSize /\ ledgerSize' = needed
             /\ globalCap' = Grow(globalCap, needed, GlobalLimit)
             /\ rankCap' = Grow(rankCap, needed, [r \in Ranks |-> RankLimit])
    <3>1. \A s \in 0 .. (needed - 1) : s < ledgerSize => s \in Slots
      BY <1>3 DEF Slots, IInv, TypeOK, LedgerTypeOK
    <3>2. globalCap' \in [0 .. (needed - 1) -> 0 .. GlobalLimit]
      BY <2>2, <3>1, LedgerAssumption DEF Grow, IInv, TypeOK, LedgerTypeOK
    <3>3. rankCap' \in [0 .. (needed - 1) -> [Ranks -> 0 .. RankLimit]]
      <4>1. [r \in Ranks |-> RankLimit] \in [Ranks -> 0 .. RankLimit]
        BY LedgerAssumption
      <4> DEFINE full == [r \in Ranks |-> RankLimit]
                 Caps == [Ranks -> 0 .. RankLimit]
      <4>2. full \in Caps /\ rankCap \in [Slots -> Caps] /\ rankCap' = Grow(rankCap, needed, full)
        BY <2>2, <4>1 DEF IInv, TypeOK, LedgerTypeOK
      <4> HIDE DEF full, Caps
      <4>3. rankCap' \in [0 .. (needed - 1) -> Caps]
        BY <4>2, <3>1 DEF Grow
      <4> QED
        BY <4>3 DEF Caps
    <3>4. ledgerSize' \in Nat /\ needed <= ledgerSize' /\ Slots' = 0 .. (needed - 1)
      BY <1>3, <2>2 DEF Slots
    <3> QED
      BY <3>2, <3>3, <3>4 DEF LedgerTypeOK
  <2> QED
    BY <1>2, <2>1, <2>2
<1>6. TypeOK'
  BY <1>1, <1>5 DEF IInv, TypeOK, rankVars, poolVars
<1>7. ProgramInv' /\ ScheduledHaveQuorum' /\ AdmittedInv'
  BY <1>1 DEF IInv, ProgramInv, ScheduledHaveQuorum, AdmittedInv, AllowedTime,
              rankVars, poolVars
<1>8. RunInv'
  BY <1>1 DEF IInv, RunInv, rankVars, poolVars
<1>9. SearchInv'
  <2>1. startSlot' = startSlot /\ cursor' = startSlot /\ startSlot \in Nat
    BY <1>1 DEF IInv, TypeOK
  <2>2. startSlot' .. (cursor' - 1) = {}
    BY <2>1
  <2>3. NeededSize(Span(demand[placing]))' = needed
    BY <1>1, <1>4 DEF needed, poolVars
  <2> QED
    BY <1>5, <2>1, <2>2, <2>3 DEF SearchInv
<1> QED
  BY <1>6, <1>7, <1>8, <1>9 DEF IInv

\* Jumping over the failing slot f skips only start slots whose window holds f.
LEMMA SkipIsSafe ==
  ASSUME TypeOK, NEW t \in Tasks, NEW c \in Nat, NEW f, IsFailSlot(t, c, f),
         NEW u \in c .. f
  PROVE  ~Fits(t, u)
<1> DEFINE n == Span(demand[t])
<1>1. n \in Nat
  BY FootTypes
<1>2. f \in c .. (c + n - 1) /\ ~SlotOk(t, f)
  BY DEF IsFailSlot, Window
<1> HIDE DEF n
<1>3. f \in u .. (u + n - 1)
  BY <1>1, <1>2
<1> QED
  BY <1>2, <1>3 DEF Fits, Window, n

\* A probe fails and the search jumps past the failing slot (moe-jit.h 386-389).
LEMMA ProbeFailsIInv ==
  ASSUME IInv, ProbeFails
  PROVE  IInv'
<1>1. /\ placing # None
      /\ UNCHANGED <<now, rankVars, poolVars, ledgerVars, caller, todo, placing, startSlot>>
  BY DEF ProbeFails
<1>2. placing \in Tasks
  BY <1>1 DEF IInv, TypeOK
<1>3. PICK f \in Window(cursor, Span(demand[placing])) :
        IsFailSlot(placing, cursor, f) /\ cursor' = f + 1
  BY DEF ProbeFails
<1>4. cursor \in Nat /\ startSlot \in Nat /\ f \in Nat /\ cursor <= f
  <2>1. cursor \in Nat /\ startSlot \in Nat /\ Span(demand[placing]) \in Nat
    BY <1>2, FootTypes DEF IInv, TypeOK
  <2> QED
    BY <1>3, <2>1 DEF Window
<1>5. TypeOK'
  BY <1>1, <1>3, <1>4
     DEF IInv, TypeOK, LedgerTypeOK, Slots, rankVars, poolVars, ledgerVars
<1>6. ProgramInv' /\ RunInv' /\ ScheduledHaveQuorum' /\ AdmittedInv'
  BY <1>1 DEF IInv, ProgramInv, RunInv, ScheduledHaveQuorum, AdmittedInv, AllowedTime,
              rankVars, poolVars
<1>7. SearchInv'
  <2>1. ASSUME NEW u \in startSlot .. (cursor' - 1)
        PROVE  ~Fits(placing, u)
    <3>1. CASE u < cursor
      <4>1. u \in startSlot .. (cursor - 1)
        BY <1>4, <3>1
      <4> QED
        BY <1>1, <4>1 DEF IInv, SearchInv
    <3>2. CASE ~(u < cursor)
      <4>1. u \in cursor .. f
        BY <1>3, <1>4, <3>2
      <4> QED
        BY <1>2, <1>3, <1>4, <4>1, SkipIsSafe DEF IInv
    <3> QED
      BY <3>1, <3>2
  <2>2. \A u : Fits(placing, u)' = Fits(placing, u)
    BY <1>1 DEF Fits, SlotOk, FootGlobal, FootRank, poolVars, ledgerVars
  <2>3. startSlot <= cursor /\ NeededSize(Span(demand[placing])) <= ledgerSize
    BY <1>1 DEF IInv, SearchInv
  <2>4. NeededSize(Span(demand[placing]))' = NeededSize(Span(demand[placing]))
    BY <1>1 DEF NeededSize, poolVars
  <2>5. startSlot' <= cursor'
    BY <1>1, <1>3, <1>4, <2>3
  <2> QED
    BY <1>1, <2>1, <2>2, <2>3, <2>4, <2>5 DEF SearchInv, ledgerVars
<1> QED
  BY <1>5, <1>6, <1>7 DEF IInv

\* The search leaves the horizon (moe-jit.h 350-351).
LEMMA ProbeGivesUpIInv ==
  ASSUME IInv, ProbeGivesUp
  PROVE  IInv'
<1>1. /\ placing # None /\ placing' = None
      /\ UNCHANGED <<now, rankVars, poolVars, ledgerVars, caller, todo, startSlot, cursor>>
  BY DEF ProbeGivesUp
<1>2. TypeOK'
  BY <1>1 DEF IInv, TypeOK, LedgerTypeOK, Slots, rankVars, poolVars, ledgerVars
<1>3. ProgramInv' /\ RunInv' /\ ScheduledHaveQuorum' /\ AdmittedInv' /\ SearchInv'
  BY <1>1 DEF IInv, ProgramInv, RunInv, ScheduledHaveQuorum, AdmittedInv, SearchInv,
              AllowedTime, rankVars, poolVars
<1> QED
  BY <1>2, <1>3 DEF IInv

\* While the search is inside its horizon its window is inside the ledger.
LEMMA WindowInLedger ==
  ASSUME IInv, placing # None,
         cursor < startSlot + Horizon(Span(demand[placing]))
  PROVE  /\ cursor + Span(demand[placing]) < ledgerSize
         /\ Window(cursor, Span(demand[placing])) \subseteq Slots
<1> DEFINE n == Span(demand[placing])
<1>1. placing \in Tasks /\ n \in Nat
  BY FootTypes DEF IInv, TypeOK
<1>2. /\ Horizon(n) \in Nat /\ startSlot \in Nat /\ cursor \in Nat
      /\ Slack \in Nat /\ ledgerSize \in Nat
  BY <1>1, HorizonType, LedgerAssumption DEF IInv, TypeOK, LedgerTypeOK
<1>3. startSlot + Horizon(n) + n + Slack <= ledgerSize
  BY DEF IInv, SearchInv, NeededSize
<1> HIDE DEF n
<1>4. cursor < startSlot + Horizon(n)
  BY DEF n
<1>5. cursor + n < ledgerSize
  BY <1>1, <1>2, <1>3, <1>4
<1>6. Window(cursor, n) \subseteq Slots
  BY <1>1, <1>2, <1>5 DEF Window, Slots
<1> QED
  BY <1>5, <1>6 DEF n

\* A probe fits: the window is deducted and the task scheduled (moe-jit.h 376-385).
LEMMA ProbeFitsIInv ==
  ASSUME IInv, ProbeFits
  PROVE  IInv'
<1> DEFINE t == placing
           n == Span(demand[t])
           window == Window(cursor, n)
           entry == [start |-> cursor, span |-> n, foot |-> FootGlobal(t),
                     rankFoot |-> [r \in Ranks |->
                       IF r \in reported[t] THEN FootRank(t, r) ELSE 0]]
<1>1. /\ placing # None /\ Fits(t, cursor) /\ placing' = None
      /\ scheduled' = [scheduled EXCEPT ![t] = TRUE]
      /\ booking' = [booking EXCEPT ![t] = entry]
      /\ UNCHANGED <<now, rankVars, reported, tSeen, demand, lastRun, ledgerSize>>
      /\ UNCHANGED <<caller, todo, startSlot, cursor>>
  BY DEF ProbeFits
<1>2. globalCap' = [s \in 0 .. (ledgerSize - 1) |->
        IF s \in window THEN globalCap[s] - FootGlobal(t) ELSE globalCap[s]]
  BY DEF ProbeFits
<1>3. rankCap' = [s \in 0 .. (ledgerSize - 1) |->
        IF s \in window THEN Deduct(t, s) ELSE rankCap[s]]
  BY DEF ProbeFits
<1>4. t \in Tasks /\ FootGlobal(t) \in Nat /\ n \in Nat
      /\ \A r \in Ranks : FootRank(t, r) \in Nat
  BY <1>1, FootTypes DEF IInv, TypeOK
<1>5. \A s \in window : SlotOk(t, s)
  BY <1>1 DEF Fits
<1>6. entry \in Bookings
  <2>1. cursor \in Nat
    BY DEF IInv, TypeOK
  <2>2. [r \in Ranks |-> IF r \in reported[t] THEN FootRank(t, r) ELSE 0] \in [Ranks -> Nat]
    BY <1>4
  <2> HIDE DEF n
  <2> QED
    BY <1>4, <2>1, <2>2 DEF Bookings
<1> HIDE DEF window, n, t, entry
<1>7. LedgerTypeOK'
  <2>1. globalCap' \in [Slots -> 0 .. GlobalLimit]
    <3> SUFFICES ASSUME NEW s \in Slots PROVE globalCap'[s] \in 0 .. GlobalLimit
      BY <1>2 DEF Slots
    <3>1. globalCap[s] \in 0 .. GlobalLimit /\ GlobalLimit \in Nat
      BY LedgerAssumption DEF IInv, TypeOK, LedgerTypeOK
    <3>2. CASE s \in window
      <4>1. globalCap'[s] = globalCap[s] - FootGlobal(t)
        BY <1>2, <3>2 DEF Slots
      <4>2. globalCap[s] >= FootGlobal(t)
        BY <1>5, <3>2 DEF SlotOk
      <4> QED
        BY <1>4, <3>1, <4>1, <4>2
    <3>3. CASE s \notin window
      BY <1>2, <3>1, <3>3 DEF Slots
    <3> QED
      BY <3>2, <3>3
  <2>2. rankCap' \in [Slots -> [Ranks -> 0 .. RankLimit]]
    <3> SUFFICES ASSUME NEW s \in Slots PROVE rankCap'[s] \in [Ranks -> 0 .. RankLimit]
      BY <1>3 DEF Slots
    <3>1. rankCap[s] \in [Ranks -> 0 .. RankLimit] /\ RankLimit \in Nat
      BY LedgerAssumption DEF IInv, TypeOK, LedgerTypeOK
    <3>2. CASE s \in window
      <4>1. rankCap'[s] = Deduct(t, s)
        BY <1>3, <3>2 DEF Slots
      <4>2. ASSUME NEW r \in Ranks, r \in reported[t]
            PROVE  rankCap[s][r] - FootRank(t, r) \in 0 .. RankLimit
        <5>1. rankCap[s][r] >= FootRank(t, r)
          BY <1>5, <3>2, <4>2 DEF SlotOk
        <5>2. rankCap[s][r] \in 0 .. RankLimit /\ FootRank(t, r) \in Nat
          BY <1>4, <3>1
        <5> QED
          BY <3>1, <5>1, <5>2
      <4> QED
        BY <3>1, <4>1, <4>2 DEF Deduct
    <3>3. CASE s \notin window
      BY <1>3, <3>1, <3>3 DEF Slots
    <3> QED
      BY <3>2, <3>3
  <2> QED
    BY <1>1, <2>1, <2>2 DEF LedgerTypeOK, Slots, IInv, TypeOK
<1>8. TypeOK'
  <2>1. scheduled' \in [Tasks -> BOOLEAN] /\ booking' \in [Tasks -> Bookings]
    BY <1>1, <1>4, <1>6 DEF IInv, TypeOK
  <2> QED
    BY <1>1, <1>7, <2>1 DEF IInv, TypeOK, rankVars
<1>9. ~scheduled[t] /\ Cardinality(reported[t]) >= Quorum(t) /\ t \notin todo
  BY <1>1 DEF IInv, RunInv, t
<1>10. ProgramInv' /\ SearchInv'
  BY <1>1 DEF IInv, ProgramInv, SearchInv, rankVars
<1>11. ScheduledHaveQuorum'
  BY <1>1, <1>4, <1>9 DEF IInv, TypeOK, ScheduledHaveQuorum
<1>12. RunInv'
  <2>1. \A u \in todo : u # t /\ u \in Tasks
    BY <1>9 DEF IInv, TypeOK
  <2>2. \A u \in todo : scheduled'[u] = scheduled[u]
    BY <1>1, <1>4, <2>1 DEF IInv, TypeOK
  <2> QED
    BY <1>1, <2>2 DEF IInv, RunInv, rankVars
<1>13. AdmittedInv'
  <2> SUFFICES ASSUME NEW u \in Tasks, NEW r \in Ranks, admittedAt[u][r] >= 0
               PROVE  scheduled'[u] /\ admittedAt[u][r] >= AllowedTime(u)'
    BY <1>1 DEF AdmittedInv, rankVars
  <2>1. scheduled[u] /\ admittedAt[u][r] >= AllowedTime(u)
    BY DEF IInv, AdmittedInv
  <2>2. u # t
    BY <1>9, <2>1
  <2>3. scheduled'[u] = scheduled[u] /\ booking'[u] = booking[u]
    BY <1>1, <1>4, <2>2 DEF IInv, TypeOK
  <2> QED
    BY <2>1, <2>3 DEF AllowedTime
<1> QED
  BY <1>8, <1>10, <1>11, <1>12, <1>13 DEF IInv

\* Every step of the scheduler preserves the invariant.
LEMMA NextIInv == IInv /\ [Next]_vars => IInv'
<1> SUFFICES ASSUME IInv, [Next]_vars PROVE IInv'
  OBVIOUS
<1>1. CASE \E r \in Ranks :
        \/ AskTooEarly(r) \/ AskScheduled(r) \/ AskUnscheduled(r)
        \/ AskAndRun(r) \/ FinishRun(r) \/ FinishExchange(r)
  BY <1>1, AskTooEarlyIInv, AskScheduledIInv, AskUnscheduledIInv, AskAndRunIInv,
     FinishRunIInv, FinishExchangeIInv
<1>2. CASE \E t \in Tasks : PlaceNext(t)
  BY <1>2, PlaceNextIInv
<1>3. CASE ProbeFails \/ ProbeFits \/ ProbeGivesUp \/ Advance
  BY <1>3, ProbeFailsIInv, ProbeFitsIInv, ProbeGivesUpIInv, AdvanceIInv
<1>4. CASE UNCHANGED vars
  <2>1. TypeOK'
    BY <1>4 DEF vars, rankVars, poolVars, ledgerVars, runVars, IInv, TypeOK,
                LedgerTypeOK, Slots
  <2>2. ProgramInv' /\ RunInv' /\ ScheduledHaveQuorum' /\ AdmittedInv'
    BY <1>4 DEF vars, rankVars, poolVars, ledgerVars, runVars, IInv, ProgramInv,
                RunInv, ScheduledHaveQuorum, AdmittedInv, AllowedTime
  <2>3. SearchInv'
    BY <1>4 DEF vars, rankVars, poolVars, ledgerVars, runVars, IInv, SearchInv,
                NeededSize, Fits, SlotOk, FootGlobal, FootRank
  <2> QED
    BY <2>1, <2>2, <2>3 DEF IInv
<1> QED
  BY <1>1, <1>2, <1>3, <1>4 DEF Next

\* The inductive invariant: types, programs, the state of a run of RunScheduling,
\* reservations with their quorum, admitted ranks and the position of the search.
THEOREM Invariance == Spec => []IInv
BY InitIInv, NextIInv, PTL DEF Spec

-----------------------------------------------------------------------------
(* The properties of the specification.                                    *)

\* Type correctness, with every entry of the ledger between 0 and its limit.
THEOREM TypeCorrectness == Spec => []TypeOK
<1>1. IInv => TypeOK
  BY DEF IInv
<1> QED
  BY <1>1, Invariance, PTL

\* No rank starts a task that has no reservation or no quorum of ready ranks.
THEOREM GangAdmissionHolds == Spec => []GangAdmission
<1>1. IInv => GangAdmission
  BY DEF IInv, AdmittedInv, ScheduledHaveQuorum, GangAdmission
<1> QED
  BY <1>1, Invariance, PTL

\* No rank starts a task before the first slot reserved for it.
THEOREM NoEarlyStart == Spec => []NoStartBeforeReservation
<1>1. IInv => NoStartBeforeReservation
  BY DEF IInv, AdmittedInv, NoStartBeforeReservation
<1> QED
  BY <1>1, Invariance, PTL

\* No slot outside the vectors is read or written, and the break on the size of
\* the ledger is dead code.
THEOREM LedgerAccessInBounds == Spec => []SearchInBounds
<1>1. IInv => SearchInBounds
  BY WindowInLedger DEF SearchInBounds
<1> QED
  BY <1>1, Invariance, PTL

\* Which steps change scheduled, and which end the placing of a task.
LEMMA PlacementSteps ==
  ASSUME IInv, [Next]_vars
  PROVE  /\ UNCHANGED scheduled \/ ProbeFits
         /\ placing = None \/ placing' = placing \/ ProbeFits \/ ProbeGivesUp
<1>1. CASE \E r \in Ranks :
        \/ AskTooEarly(r) \/ AskScheduled(r) \/ AskUnscheduled(r)
        \/ AskAndRun(r) \/ FinishRun(r) \/ FinishExchange(r)
  BY <1>1 DEF AskTooEarly, AskScheduled, AskUnscheduled, AskAndRun, FinishRun,
              FinishExchange, poolVars, runVars
<1>2. CASE \E t \in Tasks : PlaceNext(t)
  BY <1>2 DEF PlaceNext, poolVars
<1>3. CASE ProbeFails \/ ProbeFits \/ ProbeGivesUp \/ Advance
  BY <1>3 DEF ProbeFails, ProbeGivesUp, Advance, poolVars, runVars
<1>4. CASE UNCHANGED vars
  BY <1>4 DEF vars, poolVars, runVars
<1> QED
  BY <1>1, <1>2, <1>3, <1>4 DEF Next

\* The slot a run starts from is the one of this instant, or ends at this instant.
StartInv == caller # None => startSlot * DeltaT <= now /\ now <= (startSlot + 1) * DeltaT

\* Whichever way the slot index is rounded (moe-jit.h 329), its slot has begun, and has
\* not ended before the instant it is computed from.
LEMMA SlotIndexNow ==
  ASSUME NEW n \in Nat, NEW k \in SlotIndices(n)
  PROVE  k * DeltaT <= n /\ n <= (k + 1) * DeltaT
<1> DEFINE q == n \div DeltaT
<1>1. /\ DeltaT \in Nat \ {0} /\ q \in Nat
      /\ DeltaT * q <= n /\ n < DeltaT * (q + 1)
  BY DivProps, TimesAssumption
<1>2. CASE k = q
  <2> HIDE DEF q
  <2> QED
    BY <1>1, <1>2
<1>3. CASE k = q - 1 /\ n % DeltaT = 0
  <2>1. n = DeltaT * q
    BY <1>1, <1>3, ExactDiv
  <2> HIDE DEF q
  <2>2. (k + 1) * DeltaT = DeltaT * q /\ k * DeltaT = DeltaT * q - DeltaT
    BY <1>1, <1>3
  <2> QED
    BY <1>1, <2>1, <2>2
<1> QED
  BY <1>2, <1>3 DEF SlotIndices

\* Time stands still while the controller runs.
LEMMA StartStep ==
  ASSUME IInv, StartInv, [Next]_vars
  PROVE  StartInv'
<1>1. ASSUME NEW r \in Ranks, AskAndRun(r) PROVE StartInv'
  <2>1. startSlot' \in SlotIndices(now) /\ now' = now /\ now \in Nat
    BY <1>1 DEF AskAndRun, IInv, TypeOK
  <2> QED
    BY <2>1, SlotIndexNow DEF StartInv
<1>2. CASE caller' = None
  BY <1>2 DEF StartInv
<1>3. CASE UNCHANGED <<now, caller, startSlot>>
  BY <1>3 DEF StartInv
<1>4. \/ caller' = None
      \/ UNCHANGED <<now, caller, startSlot>>
      \/ \E r \in Ranks : AskAndRun(r)
  BY DEF Next, vars, runVars, AskTooEarly, AskScheduled, AskUnscheduled, FinishRun,
         FinishExchange, PlaceNext, ProbeFails, ProbeFits, ProbeGivesUp, Advance
<1> QED
  BY <1>1, <1>2, <1>3, <1>4

\* The search with jumps places a task at the earliest slot, of those that have not ended,
\* where it fits, and never in a slot that ended before the instant of the run.
THEOREM EarliestFitHolds == Spec => EarliestFit
<1> DEFINE Earliest ==
      \A t \in Tasks : ~scheduled[t] /\ scheduled'[t] =>
        LET start == booking'[t].start IN
        /\ Fits(t, start)
        /\ now <= (start + 1) * DeltaT
        /\ \A u \in 0 .. (start - 1) : now < (u + 1) * DeltaT => ~Fits(t, u)
<1>1. Init => StartInv
  BY DEF Init, StartInv
<1>2. ASSUME IInv, StartInv, [Next]_vars PROVE [Earliest]_vars
  <2> SUFFICES ASSUME NEW t \in Tasks, ~scheduled[t], scheduled'[t]
               PROVE  /\ Fits(t, booking'[t].start)
                      /\ now <= (booking'[t].start + 1) * DeltaT
                      /\ \A u \in 0 .. (booking'[t].start - 1) :
                           now < (u + 1) * DeltaT => ~Fits(t, u)
    OBVIOUS
  <2>1. ProbeFits
    BY <1>2, PlacementSteps
  <2>2. /\ placing # None /\ Fits(placing, cursor)
        /\ scheduled' = [scheduled EXCEPT ![placing] = TRUE]
        /\ booking' = [booking EXCEPT ![placing] =
             [start |-> cursor, span |-> Span(demand[placing]), foot |-> FootGlobal(placing),
              rankFoot |-> [r \in Ranks |->
                IF r \in reported[placing] THEN FootRank(placing, r) ELSE 0]]]
    BY <2>1 DEF ProbeFits
  <2>3. t = placing
    BY <1>2, <2>2 DEF IInv, TypeOK
  <2>4. booking'[t].start = cursor
    BY <1>2, <2>2, <2>3 DEF IInv, TypeOK
  <2>5. /\ startSlot <= cursor /\ caller # None
        /\ \A u \in startSlot .. (cursor - 1) : ~Fits(placing, u)
    BY <1>2, <2>2 DEF IInv, SearchInv, RunInv
  <2>6. now \in Nat /\ startSlot \in Nat /\ cursor \in Nat /\ DeltaT \in Nat
    BY <1>2, TimesAssumption DEF IInv, TypeOK
  <2>7. startSlot * DeltaT <= now /\ now <= (startSlot + 1) * DeltaT
    BY <1>2, <2>5 DEF StartInv
  <2>8. now <= (cursor + 1) * DeltaT
    <3>1. (startSlot + 1) * DeltaT <= (cursor + 1) * DeltaT
      BY <2>5, <2>6
    <3> QED
      BY <2>6, <2>7, <3>1
  <2>9. ASSUME NEW u \in 0 .. (cursor - 1), now < (u + 1) * DeltaT PROVE ~Fits(placing, u)
    <3>1. SUFFICES startSlot <= u
      BY <2>5, <2>6, <2>9
    <3>2. SUFFICES ASSUME u + 1 <= startSlot PROVE FALSE
      BY <2>6
    <3>3. (u + 1) * DeltaT <= startSlot * DeltaT
      BY <2>6, <3>2
    <3> QED
      BY <2>6, <2>7, <2>9, <3>3
  <2> QED
    BY <2>2, <2>3, <2>4, <2>8, <2>9
<1> QED
  BY <1>1, <1>2, StartStep, Invariance, PTL DEF Spec, EarliestFit

\* A task is left pending only if no start slot of the horizon fits it.
THEOREM GiveUpOnlyIfFullHolds == Spec => GiveUpOnlyIfFull
<1> DEFINE Justified ==
      \A t \in Tasks : placing = t /\ placing' # t /\ ~scheduled'[t] =>
        \A u \in startSlot .. (startSlot + Horizon(Span(demand[t])) - 1) : ~Fits(t, u)
<1>1. ASSUME IInv, [Next]_vars PROVE [Justified]_vars
  <2> SUFFICES ASSUME NEW t \in Tasks, placing = t, placing' # t, ~scheduled'[t],
                      NEW u \in startSlot .. (startSlot + Horizon(Span(demand[t])) - 1)
               PROVE  ~Fits(t, u)
    OBVIOUS
  <2>1. placing # None
    BY NoneAssumption
  <2>2. ~ProbeFits
    BY <1>1 DEF ProbeFits, IInv, TypeOK
  <2>3. SearchExhausted(t)
    BY <1>1, <2>1, <2>2, PlacementSteps DEF ProbeGivesUp
  <2>4. ~(cursor < startSlot + Horizon(Span(demand[t])))
    <3>1. /\ cursor \in Nat /\ startSlot \in Nat /\ ledgerSize \in Nat
          /\ Span(demand[t]) \in Nat /\ Horizon(Span(demand[t])) \in Nat
      BY <1>1, FootTypes, HorizonType DEF IInv, TypeOK, LedgerTypeOK
    <3> QED
      BY <1>1, <2>1, <2>3, <3>1, WindowInLedger DEF SearchExhausted
  <2>5. u \in startSlot .. (cursor - 1)
    <3>1. /\ cursor \in Nat /\ startSlot \in Nat /\ Horizon(Span(demand[t])) \in Nat
      BY <1>1, FootTypes, HorizonType DEF IInv, TypeOK
    <3> QED
      BY <2>4, <3>1
  <2> QED
    BY <1>1, <2>1, <2>5 DEF IInv, SearchInv
<1> QED
  BY <1>1, Invariance, PTL DEF Spec, GiveUpOnlyIfFull

-----------------------------------------------------------------------------
(* A pending task can always be placed once enough slots are untouched,    *)
(* unless the scale factor makes the rank limit 0.                         *)

\* The demand of a task covers the load of each rank that has reported it.
DemandInv ==
  \A t \in Tasks : \A r \in reported[t] : Load(t, r) <= demand[t]

\* The largest demand of a task (moe-jit.h 276-281) bounds the load of every rank that
\* has reported.
LEMMA DemandStep ==
  ASSUME IInv, DemandInv, [Next]_vars
  PROVE  DemandInv'
<1>1. ASSUME NEW r \in Ranks, NEW t \in Tasks, Report(r, t) PROVE DemandInv'
  <2> SUFFICES ASSUME NEW u \in Tasks, NEW q \in reported'[u]
               PROVE  Load(u, q) <= demand'[u]
    BY DEF DemandInv
  <2>1. /\ Load(t, r) \in Nat /\ demand[u] \in Nat
        /\ q \in Ranks /\ Load(u, q) \in Nat
    BY <1>1, ReportProps, TaskAssumption DEF IInv, TypeOK
  <2>2. CASE u = t
    <3>1. demand'[u] = IF Load(t, r) > demand[t] THEN Load(t, r) ELSE demand[t]
      BY <1>1, <2>2 DEF Report, IInv, TypeOK
    <3>2. q = r \/ q \in reported[t]
      BY <1>1, <2>2 DEF Report, IInv, TypeOK
    <3> QED
      BY <2>1, <2>2, <3>1, <3>2 DEF DemandInv
  <2>3. CASE u # t
    <3>1. demand'[u] = demand[u] /\ reported'[u] = reported[u]
      BY <1>1, <2>3 DEF Report, IInv, TypeOK
    <3> QED
      BY <3>1 DEF DemandInv
  <2> QED
    BY <2>2, <2>3
<1>2. ASSUME NEW r \in Ranks, AskScheduled(r) \/ AskUnscheduled(r) \/ AskAndRun(r)
      PROVE  DemandInv'
  <2>1. stage[r] = "ask" /\ Report(r, CurrentTask(r))
    BY <1>2 DEF AskScheduled, AskUnscheduled, AskAndRun, Asks
  <2>2. CurrentTask(r) \in Tasks
    BY <2>1, CurrentTaskType DEF IInv
  <2> QED
    BY <1>1, <2>1, <2>2
<1>3. CASE UNCHANGED <<reported, demand>>
  BY <1>3 DEF DemandInv
<1>4. \/ UNCHANGED <<reported, demand>>
      \/ \E r \in Ranks : AskScheduled(r) \/ AskUnscheduled(r) \/ AskAndRun(r)
  BY DEF Next, vars, poolVars, AskTooEarly, FinishRun, FinishExchange, PlaceNext,
         ProbeFails, ProbeFits, ProbeGivesUp, Advance
<1> QED
  BY <1>2, <1>3, <1>4

\* With limits of at least m_Rslot per slot, which the constructor ensures except
\* when m_rankLimit is truncated to 0, every pending task fits fresh slots.
THEOREM PendingFits ==
  ASSUME Rslot <= RankLimit, Rslot <= GlobalLimit
  PROVE  Spec => []PendingFitsFreshSlots
<1>1. Init => DemandInv
  BY DEF Init, DemandInv
<1>2. IInv /\ DemandInv /\ [Next]_vars => DemandInv'
  BY DemandStep
<1>3. ASSUME IInv, DemandInv PROVE PendingFitsFreshSlots
  <2> SUFFICES ASSUME NEW t \in Tasks
               PROVE  /\ FootGlobal(t) <= GlobalLimit
                      /\ \A r \in reported[t] : FootRank(t, r) <= RankLimit
    BY DEF PendingFitsFreshSlots, PendingGiven
  <2> DEFINE n == Span(demand[t])
  <2>1. demand[t] \in Nat /\ n \in Nat \ {0}
    BY <1>3, FootTypes DEF IInv, TypeOK
  <2>2. /\ Rslot \in Nat /\ GlobalLimit \in Nat /\ RankLimit \in Nat
        /\ FootGlobal(t) \in Nat /\ FootGlobal(t) <= Rslot
        /\ demand[t] < n * (FootGlobal(t) + 1)
    BY <2>1, ShareBound, LedgerAssumption DEF FootGlobal
  <2>3. ASSUME NEW r \in reported[t] PROVE FootRank(t, r) <= FootGlobal(t)
    <3>1. r \in Ranks /\ Load(t, r) \in Nat /\ Load(t, r) <= demand[t]
      BY <1>3, TaskAssumption DEF IInv, TypeOK, DemandInv
    <3>2. FootRank(t, r) \in Nat /\ n * FootRank(t, r) <= Load(t, r)
      BY <2>1, <3>1, DivProps DEF FootRank
    <3> HIDE DEF n
    <3>3. SUFFICES ASSUME FootRank(t, r) >= FootGlobal(t) + 1 PROVE FALSE
      BY <2>2, <3>2
    <3>4. n * FootRank(t, r) >= n * (FootGlobal(t) + 1)
      BY <2>1, <2>2, <3>2, <3>3
    <3> QED
      BY <2>1, <2>2, <3>1, <3>2, <3>4
  <2>4. ASSUME NEW r \in reported[t] PROVE FootRank(t, r) \in Nat
    BY <1>3, FootTypes DEF IInv, TypeOK
  <2> QED
    BY <2>2, <2>3, <2>4
<1> QED
  BY <1>1, <1>2, <1>3, Invariance, PTL DEF Spec
-----------------------------------------------------------------------------
(* Conservation of the ledger.                                             *)

\* Reservations lie inside the ledger: slots added later are untouched.
InLedger ==
  \A t \in Tasks : scheduled[t] => booking[t].start + booking[t].span <= ledgerSize

LedgerInv == InLedger /\ LedgerConserved

LEMMA TasksFinite == IsFiniteSet(Tasks)
<1>1. DOMAIN Events = 1 .. Len(Events) /\ Len(Events) \in Nat
  BY TaskAssumption
<1>2. IsFiniteSet(DOMAIN Events)
  BY <1>1, FS_Interval
<1>3. Events \in Surjection(DOMAIN Events, Tasks)
  BY TaskAssumption DEF Surjection, Tasks
<1> QED
  BY <1>2, <1>3, FS_Surjection

\* Steps that leave reservations and ledger alone.
LEMMA QuietLedger ==
  ASSUME LedgerInv, UNCHANGED <<scheduled, booking, ledgerSize, globalCap, rankCap>>
  PROVE  LedgerInv'
  BY DEF LedgerInv, InLedger, LedgerConserved, Slots, Covering

LEMMA InitLedger == Init => LedgerInv
<1> SUFFICES ASSUME Init PROVE LedgerInv
  OBVIOUS
<1>1. InLedger
  BY DEF Init, InLedger
<1>2. ASSUME NEW s \in Slots PROVE Covering(s) = {} /\ globalCap[s] = GlobalLimit /\ \A r \in Ranks : rankCap[s][r] = RankLimit
  BY <1>2 DEF Init, Covering, Slots
<1>3. LedgerConserved
  BY <1>2, SumEmpty, LedgerAssumption DEF LedgerConserved
<1> QED
  BY <1>1, <1>3 DEF LedgerInv

\* No reservation covers a slot past the end of the ledger.
LEMMA PastTheEnd ==
  ASSUME TypeOK, InLedger, NEW s \in Nat, s >= ledgerSize
  PROVE  Covering(s) = {}
<1> SUFFICES ASSUME NEW t \in Tasks, scheduled[t], s \in Window(booking[t].start, booking[t].span)
             PROVE  FALSE
  BY DEF Covering
<1>1. booking[t].start \in Nat /\ booking[t].span \in Nat /\ ledgerSize \in Nat
  BY DEF TypeOK, LedgerTypeOK, Bookings
<1>2. booking[t].start + booking[t].span <= ledgerSize
  BY DEF InLedger
<1> QED
  BY <1>1, <1>2 DEF Window

\* Growing keeps the slots and adds untouched ones (moe-jit.h 342-346).
LEMMA PlaceNextLedger ==
  ASSUME IInv, LedgerInv, NEW t \in Tasks, PlaceNext(t)
  PROVE  LedgerInv'
<1> DEFINE needed == NeededSize(Span(demand[t]))
<1>1. UNCHANGED <<scheduled, booking>>
  BY DEF PlaceNext, poolVars
<1>2. \/ /\ needed > ledgerSize /\ ledgerSize' = needed
         /\ globalCap' = Grow(globalCap, needed, GlobalLimit)
         /\ rankCap' = Grow(rankCap, needed, [r \in Ranks |-> RankLimit])
      \/ UNCHANGED <<ledgerSize, globalCap, rankCap>>
  BY DEF PlaceNext, ledgerVars
<1>3. TypeOK'
  BY PlaceNextIInv DEF IInv
<1>4. /\ ledgerSize \in Nat /\ ledgerSize' \in Nat
      /\ \A u \in Tasks : booking[u].start \in Nat /\ booking[u].span \in Nat
  BY <1>3 DEF IInv, TypeOK, LedgerTypeOK, Bookings
<1> HIDE DEF needed
<1>5. CASE UNCHANGED <<ledgerSize, globalCap, rankCap>>
  BY <1>1, <1>5, QuietLedger
<1>6. CASE /\ needed > ledgerSize /\ ledgerSize' = needed
           /\ globalCap' = Grow(globalCap, needed, GlobalLimit)
           /\ rankCap' = Grow(rankCap, needed, [r \in Ranks |-> RankLimit])
  <2>1. InLedger'
    <3> SUFFICES ASSUME NEW u \in Tasks, scheduled[u] PROVE booking[u].start + booking[u].span <= ledgerSize'
      BY <1>1 DEF InLedger
    <3>1. booking[u].start + booking[u].span <= ledgerSize
      BY DEF LedgerInv, InLedger
    <3> QED
      BY <1>4, <1>6, <3>1
  <2>2. ASSUME NEW s \in Slots'
        PROVE  /\ globalCap'[s] + SumFunctionOnSet([u \in Tasks |-> booking[u].foot], Covering(s)) = GlobalLimit
               /\ \A r \in Ranks : rankCap'[s][r]
                    + SumFunctionOnSet([u \in Tasks |-> booking[u].rankFoot[r]], Covering(s)) = RankLimit
    <3>1. s \in 0 .. (needed - 1) /\ s \in Nat
      BY <1>4, <1>6 DEF Slots
    <3>2. CASE s < ledgerSize
      <4>1. s \in Slots /\ globalCap'[s] = globalCap[s] /\ rankCap'[s] = rankCap[s]
        BY <1>4, <1>6, <3>1, <3>2 DEF Slots, Grow
      <4> QED
        BY <4>1 DEF LedgerInv, LedgerConserved
    <3>3. CASE s >= ledgerSize
      <4>1. Covering(s) = {}
        BY <3>1, <3>3, PastTheEnd DEF IInv, LedgerInv
      <4>2. globalCap'[s] = GlobalLimit /\ \A r \in Ranks : rankCap'[s][r] = RankLimit
        BY <1>4, <1>6, <3>1, <3>3 DEF Grow
      <4> QED
        BY <4>1, <4>2, SumEmpty, LedgerAssumption
    <3> QED
      BY <1>4, <3>1, <3>2, <3>3
  <2>3. LedgerConserved'
    BY <1>1, <2>2 DEF LedgerConserved, Covering
  <2> QED
    BY <2>1, <2>3 DEF LedgerInv
<1> QED
  BY <1>2, <1>5, <1>6

\* The sum over the reservations of a slot when t is added to them.
LEMMA ReserveSum ==
  ASSUME NEW C \in SUBSET Tasks, NEW t \in Tasks \ C, NEW f \in [Tasks -> Nat], NEW g \in [Tasks -> Nat],
         \A u \in Tasks \ {t} : g[u] = f[u]
  PROVE  /\ SumFunctionOnSet(f, C) \in Nat
         /\ SumFunctionOnSet(g, C) = SumFunctionOnSet(f, C)
         /\ SumFunctionOnSet(g, C \cup {t}) = SumFunctionOnSet(f, C) + g[t]
<1>1. IsFiniteSet(C)
  BY TasksFinite, FS_Subset
<1>2. SumFunctionOnSet(f, C) \in Nat
  BY <1>1, SumType
<1>3. SumFunctionOnSet(g, C) = SumFunctionOnSet(f, C)
  BY <1>1, SumSame
<1>4. SumFunctionOnSet(g, C \cup {t}) = SumFunctionOnSet(g, C) + g[t]
  BY <1>1, SumAdd
<1> QED
  BY <1>2, <1>3, <1>4

\* A reservation takes from every slot of its window what it is booked with
\* (moe-jit.h 376-380).
LEMMA ProbeFitsLedger ==
  ASSUME IInv, LedgerInv, ProbeFits
  PROVE  LedgerInv'
<1> DEFINE t == placing
           n == Span(demand[t])
           window == Window(cursor, n)
           foot == [u \in Tasks |-> booking[u].foot]
           rfoot(r) == [u \in Tasks |-> booking[u].rankFoot[r]]
           rfootNew(r) == [u \in Tasks |-> booking'[u].rankFoot[r]]
<1>1. /\ placing # None /\ ~SearchExhausted(t)
      /\ ledgerSize' = ledgerSize
      /\ scheduled' = [scheduled EXCEPT ![t] = TRUE]
      /\ booking' = [booking EXCEPT ![t] = [start |-> cursor, span |-> n, foot |-> FootGlobal(t),
                       rankFoot |-> [r \in Ranks |-> IF r \in reported[t] THEN FootRank(t, r) ELSE 0]]]
      /\ globalCap' = [s \in 0 .. (ledgerSize - 1) |->
           IF s \in window THEN globalCap[s] - FootGlobal(t) ELSE globalCap[s]]
      /\ rankCap' = [s \in 0 .. (ledgerSize - 1) |-> IF s \in window THEN Deduct(t, s) ELSE rankCap[s]]
  BY DEF ProbeFits
<1>2. /\ t \in Tasks /\ FootGlobal(t) \in Nat /\ n \in Nat
      /\ \A r \in Ranks : FootRank(t, r) \in Nat
  BY <1>1, FootTypes DEF IInv, TypeOK
<1>3. ~scheduled[t]
  BY <1>1 DEF IInv, RunInv
<1>4. /\ booking \in [Tasks -> Bookings] /\ scheduled \in [Tasks -> BOOLEAN]
      /\ ledgerSize \in Nat /\ cursor \in Nat
      /\ globalCap \in [Slots -> 0 .. GlobalLimit] /\ rankCap \in [Slots -> [Ranks -> 0 .. RankLimit]]
      /\ booking' \in [Tasks -> Bookings]
  BY ProbeFitsIInv DEF IInv, TypeOK, LedgerTypeOK
<1>5. cursor + n < ledgerSize
  <2>1. startSlot \in Nat /\ Horizon(n) \in Nat
    BY <1>2, HorizonType DEF IInv, TypeOK
  <2> QED
    BY <1>1, <1>2, <1>4, <2>1, WindowInLedger DEF SearchExhausted
<1> HIDE DEF t, n, window
<1>6. /\ booking'[t].start = cursor /\ booking'[t].span = n /\ booking'[t].foot = FootGlobal(t)
      /\ \A r \in Ranks : booking'[t].rankFoot[r] = IF r \in reported[t] THEN FootRank(t, r) ELSE 0
      /\ scheduled'[t]
      /\ \A u \in Tasks \ {t} : booking'[u] = booking[u] /\ scheduled'[u] = scheduled[u]
  BY <1>1, <1>2, <1>4
<1>7. InLedger'
  <2> SUFFICES ASSUME NEW u \in Tasks, scheduled'[u]
               PROVE  booking'[u].start + booking'[u].span <= ledgerSize
    BY <1>1 DEF InLedger
  <2>1. CASE u = t
    BY <1>2, <1>4, <1>5, <1>6, <2>1
  <2>2. CASE u # t
    BY <1>6, <2>2 DEF LedgerInv, InLedger
  <2> QED
    BY <2>1, <2>2
<1>8. ASSUME NEW s \in Slots
      PROVE  /\ s \in window => Covering(s)' = Covering(s) \cup {t}
             /\ s \notin window => Covering(s)' = Covering(s)
             /\ t \notin Covering(s)
  BY <1>2, <1>3, <1>6 DEF Covering, window
<1>9. /\ foot \in [Tasks -> Nat] /\ foot' \in [Tasks -> Nat] /\ foot'[t] = FootGlobal(t)
      /\ \A u \in Tasks \ {t} : foot'[u] = foot[u]
  BY <1>2, <1>4, <1>6 DEF Bookings
<1>10. ASSUME NEW r \in Ranks
       PROVE  /\ rfoot(r) \in [Tasks -> Nat] /\ rfootNew(r) \in [Tasks -> Nat]
              /\ rfootNew(r)[t] = IF r \in reported[t] THEN FootRank(t, r) ELSE 0
              /\ \A u \in Tasks \ {t} : rfootNew(r)[u] = rfoot(r)[u]
  <2>1. \A u \in Tasks : booking[u].rankFoot[r] \in Nat /\ booking'[u].rankFoot[r] \in Nat
    BY <1>4 DEF Bookings
  <2> QED
    BY <1>2, <1>6, <2>1
<1> HIDE DEF foot, rfoot, rfootNew
<1>11. ASSUME NEW s \in Slots
       PROVE  /\ globalCap'[s] + SumFunctionOnSet(foot', Covering(s)') = GlobalLimit
              /\ \A r \in Ranks : rankCap'[s][r] + SumFunctionOnSet(rfootNew(r), Covering(s)') = RankLimit
  <2>1. globalCap[s] + SumFunctionOnSet(foot, Covering(s)) = GlobalLimit
    BY DEF LedgerInv, LedgerConserved, foot
  <2>2. \A r \in Ranks : rankCap[s][r] + SumFunctionOnSet(rfoot(r), Covering(s)) = RankLimit
    BY DEF LedgerInv, LedgerConserved, rfoot
  <2>3. Covering(s) \in SUBSET Tasks /\ t \in Tasks \ Covering(s)
    BY <1>2, <1>8 DEF Covering
  <2>4. globalCap[s] \in Int /\ \A r \in Ranks : rankCap[s][r] \in Int
    BY <1>4, LedgerAssumption
  <2>5. globalCap'[s] + SumFunctionOnSet(foot', Covering(s)') = GlobalLimit
    <3>1. /\ SumFunctionOnSet(foot, Covering(s)) \in Nat
          /\ SumFunctionOnSet(foot', Covering(s)) = SumFunctionOnSet(foot, Covering(s))
          /\ SumFunctionOnSet(foot', Covering(s) \cup {t}) = SumFunctionOnSet(foot, Covering(s)) + FootGlobal(t)
      BY <1>9, <2>3, ReserveSum
    <3>2. globalCap'[s] = IF s \in window THEN globalCap[s] - FootGlobal(t) ELSE globalCap[s]
      BY <1>1 DEF Slots
    <3> QED
      BY <1>2, <1>8, <2>1, <2>4, <3>1, <3>2
  <2>6. ASSUME NEW r \in Ranks
        PROVE  rankCap'[s][r] + SumFunctionOnSet(rfootNew(r), Covering(s)') = RankLimit
    <3> DEFINE share == IF r \in reported[t] THEN FootRank(t, r) ELSE 0
    <3>1. /\ SumFunctionOnSet(rfoot(r), Covering(s)) \in Nat
          /\ SumFunctionOnSet(rfootNew(r), Covering(s)) = SumFunctionOnSet(rfoot(r), Covering(s))
          /\ SumFunctionOnSet(rfootNew(r), Covering(s) \cup {t}) = SumFunctionOnSet(rfoot(r), Covering(s)) + share
      <4>1. rfootNew(r)[t] = share
        BY <1>10
      <4> QED
        BY <1>10, <2>3, <4>1, ReserveSum
    <3>2. rankCap'[s][r] = IF s \in window THEN rankCap[s][r] - share ELSE rankCap[s][r]
      <4>1. rankCap'[s] = IF s \in window THEN Deduct(t, s) ELSE rankCap[s]
        BY <1>1 DEF Slots
      <4>2. rankCap[s][r] \in Int
        BY <2>4
      <4> QED
        BY <1>2, <4>1, <4>2 DEF Deduct
    <3>3. share \in Nat /\ rankCap[s][r] \in Int
      BY <1>2, <2>4
    <3>4. rankCap[s][r] + SumFunctionOnSet(rfoot(r), Covering(s)) = RankLimit
      BY <2>2
    <3> HIDE DEF share
    <3>5. CASE s \in window
      <4>1. SumFunctionOnSet(rfootNew(r), Covering(s)') = SumFunctionOnSet(rfoot(r), Covering(s)) + share
        BY <1>8, <3>1, <3>5
      <4>2. rankCap'[s][r] = rankCap[s][r] - share
        BY <3>2, <3>5
      <4> QED
        BY <3>1, <3>3, <3>4, <4>1, <4>2
    <3>6. CASE s \notin window
      BY <1>8, <3>1, <3>2, <3>3, <3>4, <3>6
    <3> QED
      BY <3>5, <3>6
  <2> QED
    BY <2>5, <2>6
<1>12. LedgerConserved'
  <2>1. Slots' = Slots
    BY <1>1 DEF Slots
  <2> QED
    BY <1>11, <2>1 DEF LedgerConserved, foot, rfootNew
<1> QED
  BY <1>7, <1>12 DEF LedgerInv

LEMMA NextLedger == IInv /\ LedgerInv /\ [Next]_vars => LedgerInv'
<1> SUFFICES ASSUME IInv, LedgerInv, [Next]_vars PROVE LedgerInv'
  OBVIOUS
<1>1. \/ UNCHANGED <<scheduled, booking, ledgerSize, globalCap, rankCap>>
      \/ ProbeFits
      \/ \E t \in Tasks : PlaceNext(t)
  BY DEF Next, vars, poolVars, ledgerVars, AskTooEarly, AskScheduled, AskUnscheduled, AskAndRun, FinishRun,
         FinishExchange, ProbeFails, ProbeGivesUp, Advance
<1> QED
  BY <1>1, QuietLedger, ProbeFitsLedger, PlaceNextLedger

\* In every slot what is left and what the reservations covering it have taken add up to
\* the limit, globally and for every rank: nothing is deducted twice, forgotten, or lost
\* when the vectors grow.
THEOREM LedgerIsConserved == Spec => []LedgerConserved
<1>1. LedgerInv => LedgerConserved
  BY DEF LedgerInv
<1> QED
  BY <1>1, InitLedger, NextLedger, Invariance, PTL DEF Spec
-----------------------------------------------------------------------------
(* Pending tasks are looked at again.                                      *)

\* Rank r polls for task t and will ask again within a backoff of the last run, or of
\* the run in progress.
Polls(r, t) ==
  /\ stage[r] = "ask"
  /\ CurrentTask(r) = t
  /\ StartTime[t] < wake[r]
  /\ wake[r] <= (IF caller = None THEN lastRun ELSE now) + Backoff

\* No rank sleeps past its time; every pending task has a rank that polls for it, or is
\* the one whose call runs the scheduler.
PollInv ==
  /\ \A r \in Ranks : stage[r] = "ask" => now <= wake[r]
  /\ lastRun <= now
  /\ caller # None => StartTime[CurrentTask(caller)] <= now
  /\ \A t \in PendingGiven(reported) :
       \/ \E r \in Ranks : Polls(r, t)
       \/ caller # None /\ CurrentTask(caller) = t

LEMMA InitPoll == Init => PollInv
<1> SUFFICES ASSUME Init PROVE PollInv
  OBVIOUS
<1>1. PendingGiven(reported) = {}
  <2> SUFFICES ASSUME NEW t \in Tasks, IsQuorum(t, reported[t]) PROVE FALSE
    BY DEF PendingGiven
  <2>1. Cardinality(reported[t]) = 0
    BY FS_EmptySet DEF Init
  <2>2. Quorum(t) \in Nat \ {0}
    BY TaskAssumption
  <2> QED
    BY <2>1, <2>2 DEF IsQuorum
<1>2. /\ now = 0 /\ lastRun = -1 /\ caller = None /\ wake \in [Ranks -> Nat]
  BY TimesAssumption DEF Init
<1> QED
  BY <1>1, <1>2 DEF PollInv

\* What an answer does to the loops of the ranks.
LEMMA AnswerFrame ==
  ASSUME TypeOK, NEW r \in Ranks, NEW t, NEW yes, Answer(r, t, yes), stage[r] = "ask"
  PROVE  /\ \A q \in Ranks : CurrentTask(q)' = CurrentTask(q)
         /\ \A q \in Ranks \ {r} : stage'[q] = stage[q] /\ wake'[q] = wake[q]
         /\ yes => stage'[r] = "exchange"
         /\ ~yes => stage'[r] = "ask" /\ wake'[r] = now + Backoff
<1>1. stage \in [Ranks -> {"ask", "exchange", "done"}] /\ wake \in [Ranks -> Nat]
  BY DEF TypeOK
<1>2. pos' = pos
  BY DEF Answer
<1>3. \A q \in Ranks : CurrentTask(q)' = CurrentTask(q)
  BY <1>2 DEF CurrentTask
<1>4. CASE yes
  BY <1>1, <1>3, <1>4 DEF Answer
<1>5. CASE ~yes
  BY <1>1, <1>3, <1>5 DEF Answer
<1> QED
  BY <1>4, <1>5

\* The numbers of the invariant.
LEMMA PollTypes ==
  ASSUME IInv
  PROVE  /\ now \in Nat /\ lastRun \in Int /\ Backoff \in Nat \ {0}
         /\ \A r \in Ranks : wake[r] \in Nat /\ (stage[r] = "ask" => CurrentTask(r) \in Tasks)
         /\ \A t \in Tasks : StartTime[t] \in Nat
         /\ \A t \in PendingGiven(reported) : t \in Tasks
  BY CurrentTaskType, TimesAssumption DEF IInv, TypeOK, PendingGiven

\* A refusal before the start time (moe-jit.h 260) does not reach a rank that polls for a
\* pending task.
LEMMA AskTooEarlyPoll ==
  ASSUME IInv, PollInv, NEW r \in Ranks, AskTooEarly(r)
  PROVE  PollInv'
<1>1. /\ caller = None /\ stage[r] = "ask" /\ wake[r] = now
      /\ FALSE \in Reached(StartTime[CurrentTask(r)]) /\ Answer(r, CurrentTask(r), FALSE)
      /\ UNCHANGED <<now, reported, scheduled, lastRun, caller>>
  BY DEF AskTooEarly, Asks, poolVars, runVars
<1>2. /\ \A q \in Ranks : CurrentTask(q)' = CurrentTask(q)
      /\ \A q \in Ranks \ {r} : stage'[q] = stage[q] /\ wake'[q] = wake[q]
      /\ stage'[r] = "ask" /\ wake'[r] = now + Backoff
  BY <1>1, AnswerFrame DEF IInv
<1>3. ~(StartTime[CurrentTask(r)] < now)
  <2> DEFINE x == StartTime[CurrentTask(r)]
  <2>1. x \in Nat /\ now \in Nat
    BY <1>1, PollTypes
  <2> HIDE DEF x
  <2>2. CASE now = x
    BY <2>1, <2>2 DEF x
  <2>3. CASE now # x
    <3>1. FALSE \in {now > x}
      BY <1>1, <2>3 DEF Reached, x
    <3>2. ~(now > x)
      BY <3>1, Zenon
    <3> QED
      BY <2>1, <3>2 DEF x
  <2> QED
    BY <2>2, <2>3
<1>4. \A q \in Ranks : stage'[q] = "ask" => now <= wake'[q]
  BY <1>2, PollTypes DEF PollInv
<1>5. ASSUME NEW t \in PendingGiven(reported) PROVE \E q \in Ranks : Polls(q, t)'
  <2>1. PICK q \in Ranks : Polls(q, t)
    BY <1>1 DEF PollInv
  <2>2. q # r
    BY <1>1, <1>3, <2>1 DEF Polls
  <2> QED
    BY <1>1, <1>2, <2>1, <2>2 DEF Polls
<1>6. PendingGiven(reported)' = PendingGiven(reported)
  BY <1>1 DEF PendingGiven
<1> QED
  BY <1>1, <1>4, <1>5, <1>6 DEF PollInv

\* A report adds at most the task of the rank to the pending ones.
LEMMA ReportPending ==
  ASSUME IInv, NEW r \in Ranks, NEW t \in Tasks, Report(r, t), scheduled' = scheduled
  PROVE  PendingGiven(reported)' \ {t} \subseteq PendingGiven(reported)
<1>1. \A u \in Tasks \ {t} : reported'[u] = reported[u]
  BY DEF IInv, TypeOK, Report
<1> QED
  BY <1>1 DEF PendingGiven, IsQuorum

\* A call that does not run the scheduler although a quorum is there is made at the instant
\* of the last run (moe-jit.h 294-300).
LEMMA AskReportedPoll ==
  ASSUME IInv, PollInv, NEW r \in Ranks, AskScheduled(r) \/ AskUnscheduled(r)
  PROVE  PollInv'
<1> DEFINE t == CurrentTask(r)
<1>1. /\ caller = None /\ stage[r] = "ask" /\ wake[r] = now /\ t \in Tasks
      /\ TRUE \in Reached(StartTime[t]) /\ Report(r, t)
      /\ UNCHANGED <<now, scheduled, lastRun, caller>>
  BY PollTypes DEF AskScheduled, AskUnscheduled, Asks, runVars
<1>2. PICK yes \in BOOLEAN : /\ Answer(r, t, yes)
                             /\ yes => scheduled[t]
                             /\ scheduled[t] \/ (~yes /\ ~(IsQuorum(t, reported'[t]) /\ now > lastRun))
  <2>1. CASE AskScheduled(r)
    <3>1. scheduled[t] /\ \E yes \in Reached(AllowedTime(t) + Jitter(r)) : Answer(r, t, yes)
      BY <2>1 DEF AskScheduled
    <3>2. Reached(AllowedTime(t) + Jitter(r)) \subseteq BOOLEAN
      BY ReachedBoolean
    <3> QED
      BY <3>1, <3>2, Zenon
  <2>2. CASE AskUnscheduled(r)
    BY <2>2 DEF AskUnscheduled
  <2> QED
    BY <2>1, <2>2
<1>3. StartTime[t] <= now
  BY <1>1, PollTypes, ReachedProps
<1> HIDE DEF t
<1>4. /\ \A q \in Ranks : CurrentTask(q)' = CurrentTask(q)
      /\ \A q \in Ranks \ {r} : stage'[q] = stage[q] /\ wake'[q] = wake[q]
      /\ yes => stage'[r] = "exchange"
      /\ ~yes => stage'[r] = "ask" /\ wake'[r] = now + Backoff
  BY <1>1, <1>2, AnswerFrame DEF IInv
<1>5. \A q \in Ranks : stage'[q] = "ask" => now <= wake'[q]
  BY <1>2, <1>4, PollTypes DEF PollInv
<1>6. ASSUME NEW u \in PendingGiven(reported)' PROVE \E q \in Ranks : Polls(q, u)'
  <2>1. CASE u = t
    <3>1. ~scheduled[t] /\ IsQuorum(t, reported'[t])
      BY <1>1, <2>1 DEF PendingGiven
    <3>2. ~yes /\ ~(now > lastRun)
      BY <1>2, <3>1
    <3>3. now = lastRun
      BY <3>2, PollTypes DEF PollInv
    <3>4. CurrentTask(r)' = t
      BY <1>4 DEF t
    <3>5. stage'[r] = "ask" /\ wake'[r] = now + Backoff
      BY <1>4, <3>2
    <3>6. StartTime[t] < now + Backoff /\ now + Backoff <= lastRun + Backoff
      BY <1>1, <1>3, <3>3, PollTypes
    <3> QED
      BY <1>1, <2>1, <3>4, <3>5, <3>6 DEF Polls
  <2>2. CASE u # t
    <3>1. u \in PendingGiven(reported)
      BY <1>1, <2>2, ReportPending
    <3>2. PICK q \in Ranks : Polls(q, u)
      BY <1>1, <3>1 DEF PollInv
    <3>3. q # r
      BY <2>2, <3>2 DEF Polls, t
    <3> QED
      BY <1>1, <1>4, <3>2, <3>3 DEF Polls
  <2> QED
    BY <2>1, <2>2
<1> QED
  BY <1>1, <1>5, <1>6 DEF PollInv

\* The call that runs the scheduler answers for its own task afterwards.
LEMMA AskAndRunPoll ==
  ASSUME IInv, PollInv, NEW r \in Ranks, AskAndRun(r)
  PROVE  PollInv'
<1> DEFINE t == CurrentTask(r)
<1>1. /\ caller = None /\ caller' = r /\ stage[r] = "ask" /\ t \in Tasks
      /\ TRUE \in Reached(StartTime[t]) /\ Report(r, t)
      /\ UNCHANGED <<now, scheduled, lastRun, stage, wake, pos>>
  BY PollTypes DEF AskAndRun, Asks, rankVars
<1>2. StartTime[t] <= now
  BY <1>1, PollTypes, ReachedProps
<1>3. \A q \in Ranks : CurrentTask(q)' = CurrentTask(q)
  BY <1>1 DEF CurrentTask
<1>4. caller' # None /\ CurrentTask(caller)' = t
  BY <1>1, <1>3, NoneAssumption DEF CurrentTask
<1> HIDE DEF t
<1>5. ASSUME NEW u \in PendingGiven(reported)', u # t PROVE \E q \in Ranks : Polls(q, u)'
  <2>1. u \in PendingGiven(reported)
    BY <1>1, <1>5, ReportPending
  <2>2. PICK q \in Ranks : Polls(q, u)
    BY <1>1, <2>1 DEF PollInv
  <2>3. wake[q] <= now + Backoff
    BY <1>1, <2>2, PollTypes DEF Polls, PollInv
  <2> QED
    BY <1>1, <1>3, <1>4, <2>2, <2>3 DEF Polls
<1> QED
  BY <1>1, <1>2, <1>4, <1>5 DEF PollInv

\* While the scheduler runs, tasks only leave the pending ones.
LEMMA RunPoll ==
  ASSUME IInv, PollInv, UNCHANGED <<now, reported, lastRun, caller, stage, wake, pos>>,
         PendingGiven(reported)' \subseteq PendingGiven(reported)
  PROVE  PollInv'
<1>1. \A q \in Ranks : CurrentTask(q)' = CurrentTask(q)
  BY DEF CurrentTask
<1>2. caller # None => CurrentTask(caller)' = CurrentTask(caller)
  BY DEF CurrentTask
<1>3. \A q \in Ranks, t \in Tasks : Polls(q, t) => Polls(q, t)'
  BY <1>1 DEF Polls
<1>4. ASSUME NEW t \in PendingGiven(reported)'
      PROVE  (\E q \in Ranks : Polls(q, t)') \/ (caller # None /\ CurrentTask(caller)' = t)
  <2>1. t \in PendingGiven(reported) /\ t \in Tasks
    BY PollTypes
  <2> QED
    BY <1>2, <1>3, <2>1 DEF PollInv
<1> QED
  BY <1>2, <1>4 DEF PollInv

\* When the scheduler returns, its caller polls on unless its task got slots and may start.
LEMMA FinishRunPoll ==
  ASSUME IInv, PollInv, NEW r \in Ranks, FinishRun(r)
  PROVE  PollInv'
<1> DEFINE t == CurrentTask(r)
<1>1. /\ caller = r /\ caller # None /\ caller' = None /\ lastRun' = now /\ stage[r] = "ask" /\ t \in Tasks
      /\ UNCHANGED <<now, reported, scheduled>>
  BY PollTypes, NoneAssumption DEF FinishRun, IInv, RunInv
<1>2. PICK yes \in BOOLEAN : Answer(r, t, yes) /\ (yes => scheduled[t])
  <2>1. \E yes \in IF scheduled[t] THEN Reached(AllowedTime(t)) ELSE {FALSE} : Answer(r, t, yes)
    BY DEF FinishRun
  <2>2. Reached(AllowedTime(t)) \subseteq BOOLEAN
    BY ReachedBoolean
  <2>3. CASE scheduled[t]
    BY <2>1, <2>2, <2>3, Zenon
  <2>4. CASE ~scheduled[t]
    BY <2>1, <2>4, Zenon
  <2> QED
    BY <2>3, <2>4
<1>3. StartTime[t] <= now
  BY <1>1 DEF PollInv
<1> HIDE DEF t
<1>4. /\ \A q \in Ranks : CurrentTask(q)' = CurrentTask(q)
      /\ \A q \in Ranks \ {r} : stage'[q] = stage[q] /\ wake'[q] = wake[q]
      /\ yes => stage'[r] = "exchange"
      /\ ~yes => stage'[r] = "ask" /\ wake'[r] = now + Backoff
  BY <1>1, <1>2, AnswerFrame DEF IInv
<1>5. \A q \in Ranks : stage'[q] = "ask" => now <= wake'[q]
  BY <1>2, <1>4, PollTypes DEF PollInv
<1>6. ASSUME NEW u \in PendingGiven(reported)' PROVE \E q \in Ranks : Polls(q, u)'
  <2>1. u \in PendingGiven(reported) /\ ~scheduled[u]
    BY <1>1 DEF PendingGiven
  <2>2. CASE u = t
    <3>1. ~yes
      BY <1>2, <2>1, <2>2
    <3>2. CurrentTask(r)' = t /\ stage'[r] = "ask" /\ wake'[r] = now + Backoff
      BY <1>4, <3>1 DEF t
    <3>3. StartTime[t] < now + Backoff
      BY <1>1, <1>3, PollTypes
    <3>4. now + Backoff <= now + Backoff
      BY PollTypes
    <3> QED
      BY <1>1, <2>2, <3>2, <3>3, <3>4 DEF Polls
  <2>3. CASE u # t
    <3>1. PICK q \in Ranks : Polls(q, u)
      BY <1>1, <2>1, <2>3 DEF PollInv, t
    <3>2. q # r
      BY <2>3, <3>1 DEF Polls, t
    <3> QED
      BY <1>1, <1>4, <3>1, <3>2 DEF Polls
  <2> QED
    BY <2>2, <2>3
<1>7. now <= now
  BY PollTypes
<1> QED
  BY <1>1, <1>5, <1>6, <1>7 DEF PollInv

\* The rank whose exchange ends did not poll; it asks for its next task later.
LEMMA FinishExchangePoll ==
  ASSUME IInv, PollInv, NEW r \in Ranks, FinishExchange(r)
  PROVE  PollInv'
<1>1. /\ caller = None /\ stage[r] = "exchange"
      /\ UNCHANGED <<now, reported, scheduled, lastRun, caller>>
  BY DEF FinishExchange, ExchangeEnds, poolVars, runVars
<1>2. /\ stage \in [Ranks -> {"ask", "exchange", "done"}] /\ wake \in [Ranks -> Nat] /\ pos \in [Ranks -> Nat \ {0}]
  BY DEF IInv, TypeOK
<1>3. \A q \in Ranks \ {r} : stage'[q] = stage[q] /\ wake'[q] = wake[q] /\ pos'[q] = pos[q]
  BY <1>2 DEF FinishExchange
<1>4. stage'[r] = "ask" => now <= wake'[r]
  <2> SUFFICES ASSUME stage'[r] = "ask" PROVE now <= wake'[r]
    OBVIOUS
  <2>1. /\ pos[r] < Len(Program(r))
        /\ \E x \in ExchangeTimes : wake' = [wake EXCEPT ![r] = now + x + ComputeTime[Program(r)[pos[r] + 1]]]
    BY <1>2 DEF FinishExchange
  <2>2. Program(r)[pos[r] + 1] \in Tasks
    <3>1. Program(r) \in Seq(Tasks) /\ pos[r] \in Nat
      BY <1>2, TaskAssumption
    <3>2. pos[r] + 1 \in 1 .. Len(Program(r))
      BY <2>1, <3>1
    <3> QED
      BY <3>1, <3>2
  <2>3. ComputeTime[Program(r)[pos[r] + 1]] \in Nat /\ ExchangeTimes \subseteq Nat /\ now \in Nat
    BY <2>2, TimesAssumption DEF IInv, TypeOK
  <2> QED
    BY <1>2, <2>1, <2>3
<1>5. \A q \in Ranks : stage'[q] = "ask" => now <= wake'[q]
  BY <1>3, <1>4 DEF PollInv
<1>6. ASSUME NEW t \in PendingGiven(reported) PROVE \E q \in Ranks : Polls(q, t)'
  <2>1. PICK q \in Ranks : Polls(q, t)
    BY <1>1 DEF PollInv
  <2>2. q # r
    BY <1>1, <2>1 DEF Polls
  <2>3. CurrentTask(q)' = CurrentTask(q)
    BY <1>3, <2>2 DEF CurrentTask
  <2> QED
    BY <1>1, <1>3, <2>1, <2>2, <2>3 DEF Polls
<1>7. PendingGiven(reported)' = PendingGiven(reported)
  BY <1>1 DEF PendingGiven
<1> QED
  BY <1>1, <1>5, <1>6, <1>7 DEF PollInv

\* Time goes to the next instant at which a rank asks, not past it.
LEMMA AdvancePoll ==
  ASSUME IInv, PollInv, Advance
  PROVE  PollInv'
<1>1. /\ caller = None /\ UNCHANGED <<reported, scheduled, lastRun, caller, stage, wake, pos>>
      /\ \E r \in Ranks : /\ stage[r] = "ask" /\ now' = wake[r]
                          /\ \A q \in Ranks : stage[q] = "ask" => wake[q] >= wake[r]
  BY DEF Advance, rankVars, poolVars, runVars
<1>2. now <= now' /\ now' \in Nat /\ \A q \in Ranks : stage[q] = "ask" => now' <= wake[q]
  BY <1>1, PollTypes DEF PollInv
<1>3. lastRun <= now'
  BY <1>2, PollTypes DEF PollInv
<1>4. \A q \in Ranks, t \in Tasks : Polls(q, t) => Polls(q, t)'
  BY <1>1 DEF Polls, CurrentTask
<1>5. PendingGiven(reported)' = PendingGiven(reported) /\ PendingGiven(reported) \subseteq Tasks
  BY <1>1 DEF PendingGiven
<1> QED
  BY <1>1, <1>2, <1>3, <1>4, <1>5 DEF PollInv

LEMMA NextPoll == IInv /\ PollInv /\ [Next]_vars => PollInv'
<1> SUFFICES ASSUME IInv, PollInv, [Next]_vars PROVE PollInv'
  OBVIOUS
<1>1. CASE \E r \in Ranks :
        \/ AskTooEarly(r) \/ AskScheduled(r) \/ AskUnscheduled(r)
        \/ AskAndRun(r) \/ FinishRun(r) \/ FinishExchange(r)
  BY <1>1, AskTooEarlyPoll, AskReportedPoll, AskAndRunPoll, FinishRunPoll, FinishExchangePoll
<1>2. CASE Advance
  BY <1>2, AdvancePoll
<1>3. CASE (\E t \in Tasks : PlaceNext(t)) \/ ProbeFails \/ ProbeGivesUp \/ UNCHANGED vars
  <2>1. UNCHANGED <<now, reported, scheduled, lastRun, caller, stage, wake, pos>>
    BY <1>3 DEF PlaceNext, ProbeFails, ProbeGivesUp, vars, rankVars, poolVars, runVars
  <2> QED
    BY <2>1, RunPoll DEF PendingGiven
<1>4. CASE ProbeFits
  <2>1. /\ UNCHANGED <<now, reported, lastRun, caller, stage, wake, pos>>
        /\ scheduled' = [scheduled EXCEPT ![placing] = TRUE]
    BY <1>4 DEF ProbeFits, rankVars
  <2>2. \A t \in Tasks : scheduled[t] => scheduled'[t]
    BY <2>1 DEF IInv, TypeOK
  <2>3. PendingGiven(reported)' \subseteq PendingGiven(reported)
    BY <2>1, <2>2 DEF PendingGiven
  <2> QED
    BY <2>1, <2>3, RunPoll
<1> QED
  BY <1>1, <1>2, <1>3, <1>4 DEF Next

\* A task with a quorum and no slots is looked at again within one backoff of the last run,
\* since some rank polls for it: neither a second quorum at the instant of a run nor a full
\* horizon leaves a task unattended.
THEOREM PendingIsRevisited == Spec => []PendingRevisited
<1>1. ASSUME IInv, PollInv PROVE PendingRevisited
  <2> SUFFICES ASSUME NEW t \in PendingGiven(reported), caller = None PROVE now <= lastRun + Backoff
    BY DEF PendingRevisited
  <2>1. PICK r \in Ranks : Polls(r, t)
    BY <1>1 DEF PollInv
  <2>2. now <= wake[r] /\ wake[r] <= lastRun + Backoff
    BY <1>1, <2>1 DEF PollInv, Polls
  <2> QED
    BY <1>1, <2>2, PollTypes
<1> QED
  BY <1>1, InitPoll, NextPoll, Invariance, PTL DEF Spec

=============================================================================
