------------------------ MODULE DistributedAging_proofs ------------------------
(***************************************************************************)
(* Proofs about DistributedAging for all events, leaves, loads, capacities *)
(* and orders of service: the tables of the brokers never wrap around and  *)
(* the ledgers of both sides are conserved.                                *)
(***************************************************************************)
EXTENDS DistributedAging, SumTheorems, FiniteSetTheorems, TLAPS

\* What the running loop has left: FastControlPath works on events that are not
\* committed, destinations on requests with an earliest slot.
QueueInv ==
  /\ phase = "fast" => queue \cap committed = {}
  /\ phase = "grant" => \A e \in queue : earliest[e] # None

Phases == [time : Nat, sources : SUBSET Leaves]

IInv ==
  /\ TypeOK
  /\ nextPhase \in [Slots -> Phases]
  /\ QueueInv
  /\ QuotaConserved
  /\ SourceConserved
-----------------------------------------------------------------------------
(* Sizes, footprints and windows.                                          *)

\* Euclidean division, as the provers need it.
LEMMA DivType ==
  ASSUME NEW a \in Nat, NEW b \in Nat \ {0}
  PROVE  a \div b \in Nat /\ 0 \div b = 0
OBVIOUS

LEMMA MaxOfTwo ==
  ASSUME NEW a \in Int, NEW b \in Int
  PROVE  Max({a, b}) \in {a, b} /\ Max({a, b}) >= a /\ Max({a, b}) >= b
<1>1. \E x \in {a, b} : \A y \in {a, b} : x >= y
  <2>1. CASE a >= b
    BY <2>1
  <2>2. CASE ~(a >= b)
    BY <2>2
  <2> QED
    BY <2>1, <2>2
<1>2. Max({a, b}) \in {a, b} /\ \A y \in {a, b} : Max({a, b}) >= y
  BY <1>1 DEF Max
<1> QED
  BY <1>2

\* The shares of an event (moe-fifo-scheduler.h 112-121).
LEMMA FootTypes ==
  ASSUME NEW e \in Events
  PROVE  /\ LeafOf[e] \in Leaves
         /\ Span[e] \in Nat \ {0}
         /\ SrcFoot[e] \in Nat
         /\ Dests[e] \subseteq Leaves
         /\ \A d \in Leaves : Foot[e][d] \in Nat /\ (d \notin Dests[e] => Foot[e][d] = 0)
<1>1. LeafOf[e] \in Leaves /\ Bytes[e] \in [Leaves -> Nat]
  BY EventsAssumption
<1>2. Total[e] \in Nat
  <2>1. SumFunctionOnSet(Bytes[e], Leaves) \in Nat
    BY <1>1, LeavesAssumption, SumType
  <2> QED
    BY <2>1 DEF Total
<1>3. Span[e] \in Nat \ {0}
  <2> DEFINE q == (Total[e] + Rslot - 1) \div Rslot
  <2>1. Total[e] + Rslot - 1 \in Nat /\ Rslot \in Nat \ {0}
    BY <1>2, CapacityAssumption
  <2>2. q \in Nat
    BY <2>1, DivType
  <2>3. Span[e] = Max({1, q})
    BY DEF Span
  <2> HIDE DEF q
  <2>4. Max({1, q}) \in {1, q} /\ Max({1, q}) >= 1
    BY <2>2, MaxOfTwo
  <2> QED
    BY <2>2, <2>3, <2>4
<1>4. SrcFoot[e] \in Nat
  BY <1>2, <1>3, DivType DEF SrcFoot
<1>5. Dests[e] \subseteq Leaves
  BY DEF Dests
<1>6. ASSUME NEW d \in Leaves PROVE Foot[e][d] \in Nat /\ (d \notin Dests[e] => Foot[e][d] = 0)
  <2>1. Foot[e][d] = Bytes[e][d] \div Span[e] /\ Bytes[e][d] \in Nat
    BY <1>1 DEF Foot
  <2>2. d \notin Dests[e] => Bytes[e][d] = 0
    BY <2>1 DEF Dests
  <2> QED
    BY <1>3, <2>1, <2>2, DivType
<1> QED
  BY <1>1, <1>3, <1>4, <1>5, <1>6

\* A search returns a slot at or after its base whose window passes the test
\* (moe-fifo-scheduler.h 165-175, 228-243 and 255-275).
LEMMA FirstFitProps ==
  ASSUME NEW e \in Events, NEW base \in Nat, NEW passing \in SUBSET Slots, FirstFit(e, base, passing) # None
  PROVE  /\ FirstFit(e, base, passing) \in Slots
         /\ FirstFit(e, base, passing) >= base
         /\ Window(e, FirstFit(e, base, passing)) \subseteq passing
<1> DEFINE fits == {s \in base .. (base + Wsearch - 1) : Window(e, s) \subseteq passing}
<1>1. fits \in SUBSET Nat /\ Wsearch \in Nat
  BY CapacityAssumption
<1>2. fits # {} /\ FirstFit(e, base, passing) = Min(fits)
  BY DEF FirstFit
<1>3. Min(fits) \in fits
  <2> HIDE DEF fits
  <2> QED
    BY <1>1, <1>2, NatMin
<1>4. PICK s \in fits : s = FirstFit(e, base, passing)
  BY <1>2, <1>3
<1>5. s \in Nat /\ s >= base /\ Window(e, s) \subseteq passing
  BY <1>1, <1>4
<1>6. s \in Window(e, s)
  BY <1>5, FootTypes DEF Window
<1> QED
  BY <1>4, <1>5, <1>6

\* A table stays between 0 and the capacity when a share that is there is taken.
LEMMA TakeType ==
  ASSUME NEW tab \in [Slots -> 0 .. Capacity], NEW w, NEW f \in Nat, \A u \in w \cap Slots : tab[u] >= f
  PROVE  /\ Take(tab, w, f) \in [Slots -> 0 .. Capacity]
         /\ \A u \in Slots : Take(tab, w, f)[u] = IF u \in w THEN tab[u] - f ELSE tab[u]
<1>1. \A u \in Slots : Take(tab, w, f)[u] = IF u \in w THEN tab[u] - f ELSE tab[u]
  BY DEF Take
<1>2. ASSUME NEW u \in Slots PROVE Take(tab, w, f)[u] \in 0 .. Capacity
  <2>1. tab[u] \in 0 .. Capacity /\ Capacity \in Nat
    BY CapacityAssumption
  <2> QED
    BY <1>1, <2>1
<1>3. Take(tab, w, f) = [u \in Slots |-> Take(tab, w, f)[u]]
  BY DEF Take
<1> QED
  BY <1>1, <1>2, <1>3

\* The slot of a committed event is not before the call, and its release not before its
\* slot and its predicted start (moe-fifo-scheduler.h 198-209).
LEMMA ReleaseProps ==
  ASSUME TypeOK, NEW e \in Events, NEW s \in Slots, NEW n \in Nat
  PROVE  /\ ReleaseTime(e, s, n) \in Nat
         /\ ReleaseTime(e, s, n) >= s + LocalDelay
         /\ ReleaseTime(e, s, n) >= TPred[e]
<1> DEFINE phases == {grantPhase[LeafOf[e]][d][s] : d \in Dests[e]} \ {None}
           later == {s + p : p \in phases}
           base == s + LocalDelay + n * LocalGap
           T == {TPred[e], base} \cup later
<1>1. s \in Nat /\ TPred[e] \in Nat /\ LocalDelay \in Nat /\ LocalGap \in Nat
  BY EventsAssumption, TimesAssumption, CapacityAssumption DEF Slots
<1>2. base \in Nat /\ base >= s + LocalDelay
  <2>1. n * LocalGap \in Nat
    BY <1>1
  <2> HIDE DEF T, later, phases
  <2> QED
    BY <1>1, <2>1
<1>3. phases \subseteq Nat
  BY FootTypes DEF TypeOK
<1>4. IsFiniteSet(later)
  <2> DEFINE g == [d \in Dests[e] |-> grantPhase[LeafOf[e]][d][s]]
             All == {g[d] : d \in Dests[e]}
             h == [p \in phases |-> s + p]
  <2>1. IsFiniteSet(Dests[e])
    BY FootTypes, LeavesAssumption, FS_Subset
  <2>2. g \in Surjection(Dests[e], All)
    BY DEF Surjection
  <2>3. IsFiniteSet(All)
    <3> HIDE DEF g, All
    <3> QED
      BY <2>1, <2>2, FS_Surjection
  <2>4. phases \subseteq All
    OBVIOUS
  <2>5. IsFiniteSet(phases)
    <3> HIDE DEF All, phases
    <3> QED
      BY <2>3, <2>4, FS_Subset
  <2>6. h \in Surjection(phases, later)
    <3> HIDE DEF phases
    <3> QED
      BY DEF Surjection
  <2> HIDE DEF phases, later, h
  <2> QED
    BY <2>5, <2>6, FS_Surjection
<1>5. later \subseteq Nat
  <2> HIDE DEF phases
  <2> QED
    BY <1>1, <1>3
<1>6. T \in SUBSET Nat /\ T # {} /\ IsFiniteSet(T)
  <2> HIDE DEF later, base
  <2>1. IsFiniteSet({TPred[e], base})
    <3>1. IsFiniteSet({TPred[e]}) /\ {TPred[e], base} = {TPred[e]} \cup {base}
      BY FS_Singleton
    <3> QED
      BY <3>1, FS_AddElement
  <2> QED
    BY <1>1, <1>2, <1>4, <1>5, <2>1, FS_Union
<1>7. ReleaseTime(e, s, n) = Max(T)
  BY DEF ReleaseTime
<1> HIDE DEF T
<1>8. Max(T) \in Nat /\ \A y \in T : y <= Max(T)
  BY <1>6, NatMax
<1>9. TPred[e] \in T /\ base \in T
  BY DEF T
<1> HIDE DEF base
<1> QED
  BY <1>1, <1>2, <1>7, <1>8, <1>9
-----------------------------------------------------------------------------
(* Sums of the ledgers.                                                    *)

\* The quota that all sources have at destination d in slot u, and what the events in C use
\* of a destination and of a source.
QuotaSum(q, d, u) == SumFunctionOnSet([l \in Leaves |-> q[l][d][u]], Leaves)
FootSum(d, C) == SumFunctionOnSet([e \in Events |-> Foot[e][d]], C)
SrcSum(C) == SumFunctionOnSet([e \in Events |-> SrcFoot[e]], C)

Quotas(N) == [Leaves -> [Leaves -> [Slots -> N]]]

LEMMA QuotaSumProps ==
  ASSUME NEW q \in Quotas(Nat), NEW d \in Leaves, NEW u \in Slots
  PROVE  /\ QuotaSum(q, d, u) \in Nat
         /\ \A l \in Leaves : q[l][d][u] <= QuotaSum(q, d, u)
<1> DEFINE f == [l \in Leaves |-> q[l][d][u]]
<1>1. \A l \in Leaves : f[l] \in Nat /\ f[l] = q[l][d][u]
  BY DEF Quotas
<1>2. QuotaSum(q, d, u) = SumFunctionOnSet(f, Leaves)
  BY DEF QuotaSum
<1> HIDE DEF f
<1>3. SumFunctionOnSet(f, Leaves) \in Nat
  BY <1>1, SumType, LeavesAssumption
<1>4. ASSUME NEW l \in Leaves PROVE f[l] <= SumFunctionOnSet(f, Leaves)
  BY <1>1, SumBound, LeavesAssumption
<1> QED
  BY <1>1, <1>2, <1>3, <1>4

\* The quota of one source changes.
LEMMA QuotaSumChange ==
  ASSUME NEW q \in Quotas(Nat), NEW q2 \in Quotas(Nat), NEW d \in Leaves, NEW u \in Slots, NEW l \in Leaves,
         \A k \in Leaves \ {l} : q2[k][d][u] = q[k][d][u]
  PROVE  QuotaSum(q2, d, u) = QuotaSum(q, d, u) + (q2[l][d][u] - q[l][d][u])
<1> DEFINE f == [k \in Leaves |-> q[k][d][u]]
           g == [k \in Leaves |-> q2[k][d][u]]
<1>1. \A k \in Leaves : f[k] = q[k][d][u] /\ g[k] = q2[k][d][u] /\ f[k] \in Int /\ g[k] \in Int
  BY DEF Quotas
<1>2. QuotaSum(q, d, u) = SumFunctionOnSet(f, Leaves) /\ QuotaSum(q2, d, u) = SumFunctionOnSet(g, Leaves)
  BY DEF QuotaSum
<1>3. \A k \in Leaves \ {l} : g[k] = f[k]
  BY <1>1
<1> HIDE DEF f, g
<1>4. SumFunctionOnSet(g, Leaves) = SumFunctionOnSet(f, Leaves) + (g[l] - f[l])
  BY <1>1, <1>3, SumUpdate, LeavesAssumption
<1> QED
  BY <1>1, <1>2, <1>4

\* One more event uses its share.
LEMMA FootSumProps ==
  ASSUME NEW C \in SUBSET Events, NEW d \in Leaves, NEW e \in Events \ C
  PROVE  /\ FootSum(d, C) \in Nat
         /\ FootSum(d, C \cup {e}) = FootSum(d, C) + Foot[e][d]
         /\ SrcSum(C) \in Nat
         /\ SrcSum(C \cup {e}) = SrcSum(C) + SrcFoot[e]
<1>1. IsFiniteSet(C)
  BY EventsAssumption, FS_Subset
<1> DEFINE f == [x \in Events |-> Foot[x][d]]
           g == [x \in Events |-> SrcFoot[x]]
<1>2. \A x \in Events : f[x] = Foot[x][d] /\ f[x] \in Nat /\ g[x] = SrcFoot[x] /\ g[x] \in Nat
  BY FootTypes
<1> HIDE DEF f, g
<1>3. /\ SumFunctionOnSet(f, C) \in Nat /\ SumFunctionOnSet(g, C) \in Nat
  BY <1>1, <1>2, SumType
<1>4. \A y \in C \cup {e} : f[y] \in Int /\ g[y] \in Int
  BY <1>2
<1>5. SumFunctionOnSet(f, C \cup {e}) = SumFunctionOnSet(f, C) + f[e]
  BY <1>1, <1>4, SumAdd
<1>6. SumFunctionOnSet(g, C \cup {e}) = SumFunctionOnSet(g, C) + g[e]
  BY <1>1, <1>4, SumAdd
<1> QED
  BY <1>2, <1>3, <1>5, <1>6 DEF f, g, FootSum, SrcSum

LEMMA CoveringSubset ==
  ASSUME TypeOK, NEW u
  PROVE  Covering(u) \in SUBSET Events
  BY DEF TypeOK, Covering

LEMMA FootSumType ==
  ASSUME NEW C \in SUBSET Events, NEW d \in Leaves
  PROVE  FootSum(d, C) \in Nat
<1>1. IsFiniteSet(C)
  BY EventsAssumption, FS_Subset
<1> DEFINE f == [x \in Events |-> Foot[x][d]]
<1>2. \A x \in C : f[x] \in Nat
  BY FootTypes
<1> HIDE DEF f
<1>3. SumFunctionOnSet(f, C) \in Nat
  BY <1>1, <1>2, SumType
<1> QED
  BY <1>3 DEF f, FootSum

\* No source has more quota than the capacity.
LEMMA QuotaBound ==
  ASSUME NEW q \in Quotas(Nat), NEW free \in [Leaves -> [Slots -> Nat]], NEW C \in [Slots -> SUBSET Events],
         \A d \in Leaves, u \in Slots : free[d][u] + QuotaSum(q, d, u) + FootSum(d, C[u]) = Capacity
  PROVE  q \in Quotas(0 .. Capacity)
<1>1. ASSUME NEW l \in Leaves, NEW d \in Leaves, NEW u \in Slots PROVE q[l][d][u] \in 0 .. Capacity
  <2>1. QuotaSum(q, d, u) \in Nat /\ q[l][d][u] <= QuotaSum(q, d, u)
    BY QuotaSumProps
  <2>2. q[l][d][u] \in Nat /\ free[d][u] \in Nat
    BY DEF Quotas
  <2>3. FootSum(d, C[u]) \in Nat /\ Capacity \in Nat
    BY FootSumType, CapacityAssumption
  <2>4. free[d][u] + QuotaSum(q, d, u) + FootSum(d, C[u]) = Capacity
    OBVIOUS
  <2> QED
    BY <2>1, <2>2, <2>3, <2>4
<1> QED
  BY <1>1 DEF Quotas
-----------------------------------------------------------------------------
(* The invariant in parts.                                                 *)

EventsOK ==
  /\ mode \in Modes
  /\ now \in Nat
  /\ timer \in Nat \cup {None}
  /\ registered \subseteq Events
  /\ committed \subseteq registered
  /\ admitted \subseteq committed
  /\ wasEligible \subseteq registered
  /\ readySlot \in [Events -> Nat]
  /\ age \in [Events -> Nat]
  /\ earliest \in [Events -> Slots \cup {None}]
  /\ start \in [Events -> Slots \cup {None}]
  /\ release \in [Events -> Nat \cup {None}]

TablesOK ==
  /\ srcFree \in Tables /\ dstFree \in Tables /\ provSrc \in Tables
  /\ quota \in Quotas(0 .. Capacity)
  /\ grantPhase \in [Leaves -> [Leaves -> [Slots -> Nat \cup {None}]]]
  /\ nextPhase \in [Slots -> Phases]

CallOK ==
  /\ phase \in {"idle", "fast", "collect", "grant"}
  /\ at \in Leaves
  /\ inEpoch \in BOOLEAN
  /\ queue \subseteq registered
  /\ fresh \subseteq committed

\* The two equations of the ledgers.
QuotaEq(d, u) == dstFree[d][u] + QuotaSum(quota, d, u) + FootSum(d, Covering(u)) = Capacity
SrcEq(l, u) == srcFree[l][u] + SrcSum({e \in Covering(u) : LeafOf[e] = l}) = Capacity

Ledgers == \A d \in Leaves, u \in Slots : QuotaEq(d, u) /\ SrcEq(d, u)

LEMMA Parts == IInv <=> EventsOK /\ TablesOK /\ CallOK /\ QueueInv /\ Ledgers
<1>1. TypeOK /\ nextPhase \in [Slots -> Phases] <=> EventsOK /\ TablesOK /\ CallOK
  BY DEF TypeOK, EventsOK, TablesOK, CallOK, Tables, Quotas
<1>2. QuotaConserved /\ SourceConserved <=> Ledgers
  BY DEF QuotaConserved, SourceConserved, Ledgers, QuotaEq, SrcEq, QuotaSum, FootSum, SrcSum
<1> QED
  BY <1>1, <1>2 DEF IInv

\* The same in the next state.
LEMMA PartsNext == EventsOK' /\ TablesOK' /\ CallOK' /\ QueueInv' /\ Ledgers' => IInv'
  BY Parts, PTL

\* Steps that leave the ledgers alone.
LEMMA QuietLedgers ==
  ASSUME Ledgers, UNCHANGED <<srcFree, dstFree, quota, committed, start>>
  PROVE  Ledgers'
  BY DEF Ledgers, QuotaEq, SrcEq, Covering

\* Steps that leave all tables alone.
LEMMA QuietTables ==
  ASSUME TablesOK, UNCHANGED <<srcFree, dstFree, quota, grantPhase, provSrc, nextPhase>>
  PROVE  TablesOK'
  BY DEF TablesOK
-----------------------------------------------------------------------------
(* The steps.                                                              *)

LEMMA InitIInv == Init => IInv
<1> SUFFICES ASSUME Init PROVE IInv
  OBVIOUS
<1> USE DEF Init
<1>1. EventsOK
  BY DEF EventsOK
<1>2. TablesOK
  <2>1. srcFree \in Tables /\ dstFree \in Tables /\ provSrc \in Tables
    BY CapacityAssumption DEF Tables
  <2>2. quota \in Quotas(0 .. Capacity)
    BY CapacityAssumption DEF Quotas
  <2>3. grantPhase \in [Leaves -> [Leaves -> [Slots -> Nat \cup {None}]]]
    OBVIOUS
  <2>4. nextPhase \in [Slots -> Phases]
    <3>1. [time |-> 0, sources |-> {}] \in Phases
      BY DEF Phases
    <3> QED
      BY <3>1
  <2> QED
    BY <2>1, <2>2, <2>3, <2>4 DEF TablesOK
<1>3. CallOK
  BY LeavesAssumption DEF CallOK
<1>4. QueueInv
  BY DEF QueueInv
<1>5. ASSUME NEW d \in Leaves, NEW u \in Slots PROVE QuotaEq(d, u) /\ SrcEq(d, u)
  <2>1. Covering(u) = {} /\ {e \in Covering(u) : LeafOf[e] = d} = {}
    BY DEF Covering
  <2>2. FootSum(d, {}) = 0 /\ SrcSum({}) = 0
    BY SumEmpty DEF FootSum, SrcSum
  <2>3. QuotaSum(quota, d, u) = 0
    <3> DEFINE f == [l \in Leaves |-> quota[l][d][u]]
    <3>1. \A l \in Leaves : f[l] = 0
      OBVIOUS
    <3> HIDE DEF f
    <3>2. SumFunctionOnSet(f, Leaves) = 0
      BY <3>1, SumZero, LeavesAssumption
    <3> QED
      BY <3>2 DEF f, QuotaSum
  <2>4. dstFree[d][u] = Capacity /\ srcFree[d][u] = Capacity /\ Capacity \in Nat
    BY CapacityAssumption
  <2> QED
    BY <2>1, <2>2, <2>3, <2>4 DEF QuotaEq, SrcEq
<1>6. Ledgers
  BY <1>5 DEF Ledgers
<1> QED
  BY <1>1, <1>2, <1>3, <1>4, <1>6, Parts

\* FastControlPath is entered with events that are not committed.
LEMMA EnterFastProps ==
  ASSUME EventsOK, TablesOK, NEW l \in Leaves, NEW evs \in SUBSET Events, NEW epoch \in BOOLEAN, EnterFast(l, evs, epoch),
         UNCHANGED committed, evs \subseteq registered',
         UNCHANGED <<srcFree, dstFree, quota, grantPhase>>
  PROVE  CallOK' /\ QueueInv' /\ TablesOK'
<1>1. queue' \subseteq evs /\ queue' \cap committed = {}
  BY DEF EnterFast, LocalEvents, EligibleIn
<1>2. CallOK' /\ QueueInv'
  BY <1>1 DEF EnterFast, CallOK, QueueInv
<1>3. TablesOK'
  BY QuietTables DEF EnterFast
<1> QED
  BY <1>2, <1>3

LEMMA RegisterIInv ==
  ASSUME IInv, NEW e \in Events, Register(e)
  PROVE  IInv'
<1>1. EventsOK /\ TablesOK /\ CallOK /\ QueueInv /\ Ledgers
  BY Parts
<1>2. /\ timer' = IF timer = None THEN now + Epoch ELSE timer
      /\ registered' = registered \cup {e}
      /\ readySlot' = [readySlot EXCEPT ![e] = Max({now, TPred[e]})]
      /\ EnterFast(LeafOf[e], registered', FALSE)
      /\ UNCHANGED <<mode, now, age, wasEligible, earliest, committed, start, release, admitted,
                     srcFree, dstFree, quota, grantPhase>>
  BY DEF Register, commitVars, tableVars
<1>3. Max({now, TPred[e]}) \in Nat
  <2>1. now \in Nat /\ TPred[e] \in Nat
    BY <1>1, EventsAssumption DEF EventsOK
  <2>2. now \in Int /\ TPred[e] \in Int
    BY <2>1
  <2>3. Max({now, TPred[e]}) \in {now, TPred[e]}
    BY <2>2, MaxOfTwo, Zenon
  <2> QED
    BY <2>1, <2>3
<1>4. timer' \in Nat \cup {None} /\ readySlot' \in [Events -> Nat]
  BY <1>1, <1>2, <1>3, TimesAssumption DEF EventsOK
<1>5. EventsOK'
  BY <1>1, <1>2, <1>4 DEF EventsOK
<1>6. CallOK' /\ QueueInv' /\ TablesOK'
  <2>1. registered' \in SUBSET Events /\ LeafOf[e] \in Leaves
    BY <1>1, <1>2, FootTypes DEF EventsOK
  <2> QED
    BY <1>1, <1>2, <2>1, EnterFastProps
<1>7. Ledgers'
  BY <1>1, <1>2, QuietLedgers
<1> QED
  BY <1>5, <1>6, <1>7, PartsNext

LEMMA AdmitIInv ==
  ASSUME IInv, NEW e \in Events, Admit(e)
  PROVE  IInv'
<1>1. EventsOK /\ TablesOK /\ CallOK /\ QueueInv /\ Ledgers
  BY Parts
<1>2. /\ e \in committed /\ admitted' = admitted \cup {e}
      /\ UNCHANGED <<mode, now, timer, registered, readySlot, age, wasEligible, earliest, committed, start, release,
                     srcFree, dstFree, quota, grantPhase, phase, at, inEpoch, queue, fresh, provSrc, nextPhase>>
  BY DEF Admit, eventVars, commitVars, tableVars, callVars
<1>3. EventsOK' /\ CallOK' /\ QueueInv'
  BY <1>1, <1>2 DEF EventsOK, CallOK, QueueInv
<1>4. TablesOK' /\ Ledgers'
  BY <1>1, <1>2, QuietTables, QuietLedgers
<1> QED
  BY <1>3, <1>4, PartsNext

LEMMA AdvanceIInv ==
  ASSUME IInv, Advance \/ UNCHANGED vars
  PROVE  IInv'
<1>1. EventsOK /\ TablesOK /\ CallOK /\ QueueInv /\ Ledgers
  BY Parts
<1>2. /\ now' \in {now, now + 1}
      /\ UNCHANGED <<mode, timer, registered, readySlot, age, wasEligible, earliest, committed, start, release, admitted,
                     srcFree, dstFree, quota, grantPhase, phase, at, inEpoch, queue, fresh, provSrc, nextPhase>>
  BY DEF Advance, vars, eventVars, commitVars, tableVars, callVars
<1>3. EventsOK'
  BY <1>1, <1>2 DEF EventsOK
<1>4. CallOK' /\ QueueInv'
  BY <1>1, <1>2 DEF CallOK, QueueInv
<1>5. TablesOK' /\ Ledgers'
  BY <1>1, <1>2, QuietTables, QuietLedgers
<1> QED
  BY <1>3, <1>4, <1>5, PartsNext

LEMMA FastDoneIInv ==
  ASSUME IInv, FastDone
  PROVE  IInv'
<1>1. EventsOK /\ TablesOK /\ CallOK /\ QueueInv /\ Ledgers
  BY Parts
<1>2. /\ UNCHANGED <<mode, now, registered, readySlot, age, wasEligible, earliest, committed, start, release, admitted,
                     srcFree, dstFree, quota, grantPhase>>
      /\ timer' \in {timer, now + Epoch}
  BY DEF FastDone, eventVars, commitVars, tableVars
<1>3. EventsOK'
  <2>1. timer' \in Nat \cup {None}
    BY <1>1, <1>2, TimesAssumption DEF EventsOK
  <2> QED
    BY <1>1, <1>2, <2>1 DEF EventsOK
<1>4. ASSUME at + 1 \in Leaves, EnterFast(at + 1, registered, TRUE)
      PROVE  CallOK' /\ QueueInv' /\ TablesOK'
  <2>1. registered \in SUBSET Events /\ registered \subseteq registered' /\ TRUE \in BOOLEAN
    BY <1>1, <1>2 DEF EventsOK
  <2> QED
    BY <1>1, <1>2, <1>4, <2>1, EnterFastProps
<1>5. ASSUME phase' = "idle", inEpoch' = FALSE, fresh' = {}, UNCHANGED <<at, queue, provSrc, nextPhase>>
      PROVE  CallOK' /\ QueueInv' /\ TablesOK'
  <2>1. CallOK' /\ QueueInv'
    BY <1>1, <1>2, <1>5 DEF CallOK, QueueInv
  <2>2. TablesOK'
    BY <1>1, <1>2, <1>5, QuietTables
  <2> QED
    BY <2>1, <2>2
<1>6. CallOK' /\ QueueInv' /\ TablesOK'
  BY <1>4, <1>5 DEF FastDone
<1>7. Ledgers'
  BY <1>1, <1>2, QuietLedgers
<1> QED
  BY <1>3, <1>6, <1>7, PartsNext

LEMMA EpochFiresIInv ==
  ASSUME IInv, EpochFires
  PROVE  IInv'
<1> DEFINE eligible == EligibleIn(registered)
<1>1. EventsOK /\ TablesOK /\ CallOK /\ QueueInv /\ Ledgers
  BY Parts
<1>2. /\ age' = [e \in Events |->
           IF e \in eligible THEN IF e \in wasEligible THEN age[e] + 1 ELSE 0 ELSE age[e]]
      /\ wasEligible' = wasEligible \cup eligible
      /\ earliest' = [e \in Events |-> IF e \in eligible THEN None ELSE earliest[e]]
      /\ phase' = "collect" /\ queue' = eligible /\ provSrc' = srcFree
      /\ UNCHANGED <<mode, now, timer, registered, readySlot, committed, start, release, admitted,
                     srcFree, dstFree, quota, grantPhase, at, inEpoch, fresh, nextPhase>>
  BY DEF EpochFires, commitVars, tableVars
<1>3. eligible \subseteq registered
  BY DEF EligibleIn
<1> HIDE DEF eligible
<1>4. age' \in [Events -> Nat] /\ earliest' \in [Events -> Slots \cup {None}]
  BY <1>1, <1>2 DEF EventsOK
<1>5. EventsOK'
  BY <1>1, <1>2, <1>3, <1>4 DEF EventsOK
<1>6. CallOK' /\ QueueInv'
  BY <1>1, <1>2, <1>3 DEF CallOK, QueueInv
<1>7. TablesOK'
  BY <1>1, <1>2 DEF TablesOK
<1>8. Ledgers'
  BY <1>1, <1>2, QuietLedgers
<1> QED
  BY <1>5, <1>6, <1>7, <1>8, PartsNext

\* The first slot a search tries is not in the past.
LEMMA BaseProps ==
  ASSUME EventsOK, NEW e \in Events
  PROVE  Base(e) \in Nat /\ Base(e) >= now /\ Base(e) >= readySlot[e]
<1>1. now \in Nat /\ readySlot[e] \in Nat
  BY DEF EventsOK
<1>2. now \in Int /\ readySlot[e] \in Int
  BY <1>1
<1>3. /\ Max({readySlot[e], now}) \in {readySlot[e], now}
      /\ Max({readySlot[e], now}) >= readySlot[e] /\ Max({readySlot[e], now}) >= now
  BY <1>2, MaxOfTwo, Zenon
<1> QED
  BY <1>1, <1>3 DEF Base

\* FastControlPath places an event at or after the present and its ready slot, where there is
\* source capacity and quota (moe-fifo-scheduler.h 162-175).
LEMMA FastSlotProps ==
  ASSUME EventsOK, NEW e \in Events, FastSlot(e) # None
  PROVE  /\ FastSlot(e) \in Slots
         /\ FastSlot(e) >= now /\ FastSlot(e) >= readySlot[e]
         /\ \A u \in Window(e, FastSlot(e)) : u \in Slots /\ SlotCovers(e, u)
<1> DEFINE base == IF earliest[e] # None /\ earliest[e] > Base(e) THEN earliest[e] ELSE Base(e)
           passing == {u \in Slots : SlotCovers(e, u)}
<1>1. Base(e) \in Nat /\ Base(e) >= now /\ Base(e) >= readySlot[e]
  BY BaseProps
<1>2. now \in Nat /\ readySlot[e] \in Nat /\ earliest[e] \in Slots \cup {None}
  BY DEF EventsOK
<1>3. base \in Nat /\ base >= Base(e)
  BY <1>1, <1>2 DEF Slots
<1>4. FastSlot(e) = FirstFit(e, base, passing) /\ passing \in SUBSET Slots
  BY DEF FastSlot
<1> HIDE DEF base
<1>5. /\ FirstFit(e, base, passing) \in Slots
      /\ FirstFit(e, base, passing) >= base
      /\ Window(e, FirstFit(e, base, passing)) \subseteq passing
  <2> HIDE DEF passing
  <2> QED
    BY <1>3, <1>4, FirstFitProps
<1>6. FastSlot(e) \in Nat
  BY <1>4, <1>5, CapacityAssumption DEF Slots
<1> QED
  BY <1>1, <1>2, <1>3, <1>4, <1>5, <1>6

\* What a commit does to the tables.
LEMMA CommitTables ==
  ASSUME TablesOK, NEW e \in Events, NEW s \in Slots, Commit(e, s),
         \A u \in Window(e, s) : u \in Slots /\ SlotCovers(e, u)
  PROVE  /\ srcFree' \in Tables
         /\ quota' \in Quotas(0 .. Capacity)
         /\ \A l \in Leaves, u \in Slots : srcFree'[l][u] =
              IF l = LeafOf[e] /\ u \in Window(e, s) THEN srcFree[l][u] - SrcFoot[e] ELSE srcFree[l][u]
         /\ \A l, d \in Leaves, u \in Slots : quota'[l][d][u] =
              IF l = LeafOf[e] /\ u \in Window(e, s) THEN quota[l][d][u] - Foot[e][d] ELSE quota[l][d][u]
<1> DEFINE k == LeafOf[e]
           w == Window(e, s)
<1>1. /\ srcFree' = [srcFree EXCEPT ![k] = Take(srcFree[k], w, SrcFoot[e])]
      /\ quota' = [quota EXCEPT ![k] = [d \in Leaves |->
           IF d \in Dests[e] THEN Take(quota[k][d], w, Foot[e][d]) ELSE quota[k][d]]]
  BY DEF Commit, TablesOK, Tables, Quotas
<1>2. /\ k \in Leaves /\ SrcFoot[e] \in Nat /\ Dests[e] \subseteq Leaves
      /\ \A d \in Leaves : Foot[e][d] \in Nat /\ (d \notin Dests[e] => Foot[e][d] = 0)
  BY FootTypes
<1>3. /\ \A u \in w \cap Slots : srcFree[k][u] >= SrcFoot[e]
      /\ \A d \in Dests[e] : \A u \in w \cap Slots : quota[k][d][u] >= Foot[e][d]
  BY DEF SlotCovers
<1>4. srcFree[k] \in [Slots -> 0 .. Capacity] /\ \A d \in Leaves : quota[k][d] \in [Slots -> 0 .. Capacity]
  BY <1>2 DEF TablesOK, Tables, Quotas
<1>5. srcFree \in [Leaves -> [Slots -> 0 .. Capacity]] /\ quota \in [Leaves -> [Leaves -> [Slots -> 0 .. Capacity]]]
  BY DEF TablesOK, Tables, Quotas
<1> HIDE DEF k, w
<1>6. /\ Take(srcFree[k], w, SrcFoot[e]) \in [Slots -> 0 .. Capacity]
      /\ \A u \in Slots : Take(srcFree[k], w, SrcFoot[e])[u] = IF u \in w THEN srcFree[k][u] - SrcFoot[e] ELSE srcFree[k][u]
  BY <1>2, <1>3, <1>4, TakeType
<1>7. ASSUME NEW d \in Dests[e]
      PROVE  /\ Take(quota[k][d], w, Foot[e][d]) \in [Slots -> 0 .. Capacity]
             /\ \A u \in Slots : Take(quota[k][d], w, Foot[e][d])[u] =
                  IF u \in w THEN quota[k][d][u] - Foot[e][d] ELSE quota[k][d][u]
  <2>1. d \in Leaves /\ Foot[e][d] \in Nat /\ quota[k][d] \in [Slots -> 0 .. Capacity]
    BY <1>2, <1>4
  <2>2. \A u \in w \cap Slots : quota[k][d][u] >= Foot[e][d]
    BY <1>3
  <2> QED
    BY <2>1, <2>2, TakeType
<1>8. srcFree' \in Tables
  BY <1>1, <1>5, <1>6 DEF Tables
<1>9. ASSUME NEW l \in Leaves, NEW u \in Slots
      PROVE  srcFree'[l][u] = IF l = k /\ u \in w THEN srcFree[l][u] - SrcFoot[e] ELSE srcFree[l][u]
  BY <1>1, <1>5, <1>6
<1>10. quota' \in Quotas(0 .. Capacity)
  <2> DEFINE row == [d \in Leaves |-> IF d \in Dests[e] THEN Take(quota[k][d], w, Foot[e][d]) ELSE quota[k][d]]
  <2>1. row \in [Leaves -> [Slots -> 0 .. Capacity]]
    BY <1>4, <1>7
  <2>2. quota' = [quota EXCEPT ![k] = row]
    BY <1>1
  <2> HIDE DEF row
  <2> QED
    BY <1>5, <2>1, <2>2 DEF Quotas
<1>11. ASSUME NEW l \in Leaves, NEW d \in Leaves, NEW u \in Slots
       PROVE  quota'[l][d][u] = IF l = k /\ u \in w THEN quota[l][d][u] - Foot[e][d] ELSE quota[l][d][u]
  <2>1. CASE l # k
    BY <1>1, <1>5, <2>1
  <2>2. CASE l = k /\ d \in Dests[e]
    <3>1. quota'[l][d] = Take(quota[k][d], w, Foot[e][d])
      BY <1>1, <1>5, <2>2
    <3> QED
      BY <1>7, <2>2, <3>1
  <2>3. CASE l = k /\ d \notin Dests[e]
    <3>1. quota'[l][d] = quota[k][d]
      BY <1>1, <1>5, <2>3
    <3>2. Foot[e][d] = 0 /\ quota[k][d][u] \in Nat
      BY <1>2, <1>4, <2>3
    <3> QED
      BY <2>3, <3>1, <3>2
  <2> QED
    BY <2>1, <2>2, <2>3
<1> QED
  BY <1>8, <1>9, <1>10, <1>11 DEF k, w

\* The events that cover a slot after a commit.
LEMMA CommitCovering ==
  ASSUME EventsOK, NEW e \in Events \ committed, NEW s \in Slots, Commit(e, s), NEW u \in Slots
  PROVE  /\ e \notin Covering(u)
         /\ Covering(u) \in SUBSET Events
         /\ Covering(u)' = IF u \in Window(e, s) THEN Covering(u) \cup {e} ELSE Covering(u)
<1>1. committed \subseteq Events /\ start \in [Events -> Slots \cup {None}]
  BY DEF EventsOK
<1>2. committed' = committed \cup {e} /\ start' = [start EXCEPT ![e] = s]
  BY DEF Commit
<1>3. start'[e] = s /\ \A x \in committed : start'[x] = start[x]
  BY <1>1, <1>2
<1>4. Covering(u)' = {x \in committed' : u \in Window(x, start'[x])}
  BY DEF Covering, Window
<1>5. Covering(u) = {x \in committed : u \in Window(x, start[x])}
  BY DEF Covering
<1>6. Covering(u)' = {x \in committed : u \in Window(x, start[x])} \cup {x \in {e} : u \in Window(x, s)}
  BY <1>2, <1>3, <1>4
<1> QED
  BY <1>1, <1>5, <1>6

\* A commit moves its footprints from free source capacity and from quota to use.
LEMMA CommitLedgers ==
  ASSUME EventsOK, TablesOK, Ledgers, NEW e \in Events \ committed, NEW s \in Slots, Commit(e, s),
         \A u \in Window(e, s) : u \in Slots /\ SlotCovers(e, u), UNCHANGED dstFree
  PROVE  Ledgers'
<1>1. /\ srcFree' \in Tables
      /\ quota' \in Quotas(0 .. Capacity)
      /\ \A l \in Leaves, u \in Slots : srcFree'[l][u] =
           IF l = LeafOf[e] /\ u \in Window(e, s) THEN srcFree[l][u] - SrcFoot[e] ELSE srcFree[l][u]
      /\ \A l, d \in Leaves, u \in Slots : quota'[l][d][u] =
           IF l = LeafOf[e] /\ u \in Window(e, s) THEN quota[l][d][u] - Foot[e][d] ELSE quota[l][d][u]
  BY CommitTables
<1>2. LeafOf[e] \in Leaves /\ SrcFoot[e] \in Nat /\ \A d \in Leaves : Foot[e][d] \in Nat
  BY FootTypes
<1>3. quota \in Quotas(Nat) /\ quota' \in Quotas(Nat)
  BY <1>1 DEF TablesOK, Quotas
<1>4. ASSUME NEW d \in Leaves, NEW u \in Slots PROVE QuotaEq(d, u)'
  <2>1. QuotaEq(d, u)
    BY DEF Ledgers
  <2>2. QuotaSum(quota', d, u) = QuotaSum(quota, d, u) + (quota'[LeafOf[e]][d][u] - quota[LeafOf[e]][d][u])
    <3>1. \A k \in Leaves \ {LeafOf[e]} : quota'[k][d][u] = quota[k][d][u]
      BY <1>1
    <3> QED
      BY <1>2, <1>3, <3>1, QuotaSumChange
  <2>3. quota[LeafOf[e]][d][u] \in Nat /\ QuotaSum(quota, d, u) \in Nat /\ dstFree[d][u] \in Nat
    <3>1. QuotaSum(quota, d, u) \in Nat
      BY <1>3, QuotaSumProps
    <3>2. quota[LeafOf[e]][d][u] \in Nat
      BY <1>2, <1>3 DEF Quotas
    <3>3. dstFree[d][u] \in Nat
      BY DEF TablesOK, Tables
    <3> QED
      BY <3>1, <3>2, <3>3
  <2>4. QuotaEq(d, u)' <=> dstFree[d][u] + QuotaSum(quota', d, u) + FootSum(d, Covering(u)') = Capacity
    BY DEF QuotaEq, QuotaSum, FootSum, Foot, Span, Total
  <2>5. /\ e \notin Covering(u) /\ Covering(u) \in SUBSET Events
        /\ Covering(u)' = IF u \in Window(e, s) THEN Covering(u) \cup {e} ELSE Covering(u)
    BY CommitCovering
  <2>6. FootSum(d, Covering(u)) \in Nat /\ FootSum(d, Covering(u) \cup {e}) = FootSum(d, Covering(u)) + Foot[e][d]
    BY <2>5, FootSumProps
  <2>7. CASE u \in Window(e, s)
    <3>1. quota'[LeafOf[e]][d][u] = quota[LeafOf[e]][d][u] - Foot[e][d]
      BY <1>1, <1>2, <2>7
    <3>2. dstFree[d][u] + QuotaSum(quota, d, u) + FootSum(d, Covering(u)) = Capacity
      BY <2>1 DEF QuotaEq
    <3>3. Foot[e][d] \in Nat /\ Covering(u)' = Covering(u) \cup {e}
      BY <1>2, <2>5, <2>7
    <3> QED
      BY <2>2, <2>3, <2>4, <2>6, <3>1, <3>2, <3>3
  <2>8. CASE u \notin Window(e, s)
    <3>1. quota'[LeafOf[e]][d][u] = quota[LeafOf[e]][d][u]
      BY <1>1, <1>2, <2>8
    <3>2. dstFree[d][u] + QuotaSum(quota, d, u) + FootSum(d, Covering(u)) = Capacity
      BY <2>1 DEF QuotaEq
    <3>3. Covering(u)' = Covering(u)
      BY <2>5, <2>8
    <3> QED
      BY <2>2, <2>3, <2>4, <2>6, <3>1, <3>2, <3>3
  <2> QED
    BY <2>7, <2>8
<1>5. ASSUME NEW l \in Leaves, NEW u \in Slots PROVE SrcEq(l, u)'
  <2> DEFINE C == {x \in Covering(u) : LeafOf[x] = l}
             D == {x \in Covering(u)' : LeafOf[x] = l}
  <2>1. SrcEq(l, u)
    BY DEF Ledgers
  <2>2. /\ e \notin Covering(u) /\ Covering(u) \in SUBSET Events
        /\ Covering(u)' = IF u \in Window(e, s) THEN Covering(u) \cup {e} ELSE Covering(u)
    BY CommitCovering
  <2>3. C \in SUBSET Events /\ e \notin C
    BY <2>2
  <2>4. D = IF l = LeafOf[e] /\ u \in Window(e, s) THEN C \cup {e} ELSE C
    BY <2>2
  <2>5. srcFree[l][u] + SrcSum(C) = Capacity
    BY <2>1 DEF SrcEq
  <2>6. SrcEq(l, u)' <=> srcFree'[l][u] + SrcSum(D) = Capacity
    BY DEF SrcEq, SrcSum, SrcFoot, Span, Total
  <2> HIDE DEF C, D
  <2>7. SrcSum(C) \in Nat /\ SrcSum(C \cup {e}) = SrcSum(C) + SrcFoot[e]
    BY <1>2, <2>3, FootSumProps
  <2>8. srcFree[l][u] \in Nat
    BY DEF TablesOK, Tables
  <2>9. CASE l = LeafOf[e] /\ u \in Window(e, s)
    <3>1. srcFree'[l][u] = srcFree[l][u] - SrcFoot[e] /\ D = C \cup {e}
      BY <1>1, <2>4, <2>9
    <3> QED
      BY <1>2, <2>5, <2>6, <2>7, <2>8, <3>1
  <2>10. CASE ~(l = LeafOf[e] /\ u \in Window(e, s))
    <3>1. srcFree'[l][u] = srcFree[l][u] /\ D = C
      BY <1>1, <2>4, <2>10
    <3> QED
      BY <2>5, <2>6, <3>1
  <2> QED
    BY <2>9, <2>10
<1>6. \A d \in Leaves, u \in Slots : QuotaEq(d, u)' /\ SrcEq(d, u)'
  BY <1>4, <1>5
<1> QED
  BY <1>6 DEF Ledgers

LEMMA FastStepIInv ==
  ASSUME IInv, NEW e \in Events, FastStep(e)
  PROVE  IInv'
<1>1. EventsOK /\ TablesOK /\ CallOK /\ QueueInv /\ Ledgers
  BY Parts
<1>2. /\ phase = "fast" /\ e \in queue /\ queue' = queue \ {e}
      /\ UNCHANGED <<mode, now, timer, registered, readySlot, age, wasEligible, earliest, admitted, dstFree, grantPhase,
                     phase, at, inEpoch, provSrc, nextPhase>>
  BY DEF FastStep, eventVars
<1>3. ASSUME UNCHANGED <<committed, start, release, srcFree, quota, fresh>>
      PROVE  IInv'
  <2>1. EventsOK'
    BY <1>1, <1>2, <1>3 DEF EventsOK
  <2>2. CallOK' /\ QueueInv'
    BY <1>1, <1>2, <1>3 DEF CallOK, QueueInv
  <2>3. TablesOK' /\ Ledgers'
    BY <1>1, <1>2, <1>3, QuietTables, QuietLedgers
  <2> QED
    BY <2>1, <2>2, <2>3, PartsNext
<1>4. ASSUME NEW s, s = FastSlot(e), s # None, Commit(e, s), fresh' = fresh \cup {e}
      PROVE  IInv'
  <2>1. s \in Slots /\ \A u \in Window(e, s) : u \in Slots /\ SlotCovers(e, u)
    BY <1>1, <1>4, FastSlotProps
  <2>2. e \in Events \ committed /\ e \in registered
    BY <1>1, <1>2 DEF QueueInv, CallOK
  <2>3. srcFree' \in Tables /\ quota' \in Quotas(0 .. Capacity)
    BY <1>1, <1>4, <2>1, CommitTables
  <2>4. TablesOK'
    BY <1>1, <1>2, <2>3 DEF TablesOK
  <2>5. Ledgers'
    BY <1>1, <1>2, <1>4, <2>1, <2>2, CommitLedgers
  <2> DEFINE n == Cardinality({x \in fresh : start[x] = s})
  <2>6. /\ committed' = committed \cup {e} /\ start' = [start EXCEPT ![e] = s]
        /\ release' = [release EXCEPT ![e] = ReleaseTime(e, s, n)]
    BY <1>4 DEF Commit
  <2>7. n \in Nat
    <3>1. fresh \subseteq Events
      BY <1>1 DEF CallOK, EventsOK
    <3>2. IsFiniteSet({x \in fresh : start[x] = s})
      BY <3>1, EventsAssumption, FS_Subset
    <3> QED
      BY <3>2, FS_CardinalityType
  <2> HIDE DEF n
  <2>8. ReleaseTime(e, s, n) \in Nat
    BY <2>1, <2>7, ReleaseProps DEF IInv
  <2>9. EventsOK'
    <3>1. start' \in [Events -> Slots \cup {None}] /\ release' \in [Events -> Nat \cup {None}]
      BY <1>1, <2>1, <2>6, <2>8 DEF EventsOK
    <3>2. committed' \subseteq registered' /\ admitted' \subseteq committed'
      BY <1>1, <1>2, <2>2, <2>6 DEF EventsOK
    <3> QED
      BY <1>1, <1>2, <3>1, <3>2 DEF EventsOK
  <2>10. CallOK'
    BY <1>1, <1>2, <1>4, <2>6 DEF CallOK
  <2>11. QueueInv'
    BY <1>1, <1>2, <2>6 DEF QueueInv
  <2> QED
    BY <2>4, <2>5, <2>9, <2>10, <2>11, PartsNext
<1> QED
  BY <1>3, <1>4 DEF FastStep, commitVars

LEMMA CollectStepIInv ==
  ASSUME IInv, NEW e \in Events, CollectStep(e)
  PROVE  IInv'
<1> DEFINE l == LeafOf[e]
           passing == {u \in Slots : provSrc[l][u] >= SrcFoot[e]}
           slot == FirstFit(e, Base(e), passing)
<1>1. EventsOK /\ TablesOK /\ CallOK /\ QueueInv /\ Ledgers
  BY Parts
<1>2. /\ phase = "collect" /\ queue' = queue \ {e}
      /\ earliest' = [earliest EXCEPT ![e] = slot]
      /\ provSrc' = IF slot = None THEN provSrc
                    ELSE [provSrc EXCEPT ![l] = Take(provSrc[l], Window(e, slot), SrcFoot[e])]
      /\ UNCHANGED <<mode, now, timer, registered, readySlot, age, wasEligible, committed, start, release, admitted,
                     srcFree, dstFree, quota, grantPhase, phase, at, inEpoch, fresh, nextPhase>>
  <2>1. /\ phase = "collect" /\ queue' = queue \ {e}
        /\ UNCHANGED <<mode, now, timer, registered, readySlot, age, wasEligible, committed, start, release, admitted,
                       srcFree, dstFree, quota, grantPhase, phase, at, inEpoch, fresh, nextPhase>>
    BY DEF CollectStep, commitVars, tableVars
  <2>2. \E s \in {slot} :
          /\ earliest' = [earliest EXCEPT ![e] = s]
          /\ provSrc' = IF s = None THEN provSrc
                        ELSE [provSrc EXCEPT ![l] = Take(@, Window(e, s), SrcFoot[e])]
    BY DEF CollectStep
  <2> HIDE DEF slot, l
  <2> QED
    BY <2>1, <2>2
<1>3. l \in Leaves /\ SrcFoot[e] \in Nat /\ passing \in SUBSET Slots
  BY FootTypes
<1>4. slot # None => slot \in Slots /\ Window(e, slot) \subseteq passing
  <2>1. Base(e) \in Nat
    BY <1>1, BaseProps
  <2> HIDE DEF passing
  <2> QED
    BY <1>3, <2>1, FirstFitProps
<1>5. provSrc \in [Leaves -> [Slots -> 0 .. Capacity]]
  BY <1>1 DEF TablesOK, Tables
<1> HIDE DEF slot
<1>6. provSrc' \in Tables
  <2>1. CASE slot = None
    BY <1>2, <1>5, <2>1 DEF Tables
  <2>2. CASE slot # None
    <3>1. \A u \in Window(e, slot) \cap Slots : provSrc[l][u] >= SrcFoot[e]
      BY <1>4, <2>2
    <3> HIDE DEF passing, l
    <3>2. Take(provSrc[l], Window(e, slot), SrcFoot[e]) \in [Slots -> 0 .. Capacity]
      BY <1>3, <1>5, <3>1, TakeType
    <3> QED
      BY <1>2, <1>5, <2>2, <3>2 DEF Tables
  <2> QED
    BY <2>1, <2>2
<1> HIDE DEF passing, l
<1>7. EventsOK'
  <2>1. earliest' \in [Events -> Slots \cup {None}]
    BY <1>1, <1>2, <1>4 DEF EventsOK
  <2> QED
    BY <1>1, <1>2, <2>1 DEF EventsOK
<1>8. CallOK' /\ QueueInv'
  BY <1>1, <1>2 DEF CallOK, QueueInv
<1>9. TablesOK'
  BY <1>1, <1>2, <1>6 DEF TablesOK
<1>10. Ledgers'
  BY <1>1, <1>2, QuietLedgers
<1> QED
  BY <1>7, <1>8, <1>9, <1>10, PartsNext

\* A destination is entered with requests that have an earliest slot.
LEMMA EnterGrantProps ==
  ASSUME EventsOK, TablesOK, CallOK, NEW d \in Leaves, EnterGrant(d),
         UNCHANGED <<mode, now, timer, registered, readySlot, age, wasEligible, earliest, committed, start, release, admitted,
                     srcFree, dstFree, quota, grantPhase>>
  PROVE  EventsOK' /\ TablesOK' /\ CallOK' /\ QueueInv'
<1>1. /\ phase' = "grant" /\ at' = d /\ queue' = Requests(d)
      /\ nextPhase' = [s \in Slots |-> [time |-> 0, sources |-> {}]]
      /\ UNCHANGED <<inEpoch, fresh, provSrc>>
  BY DEF EnterGrant
<1>2. Requests(d) \subseteq registered /\ \A e \in Requests(d) : earliest[e] # None
  BY DEF Requests, EligibleIn
<1>3. EventsOK'
  BY DEF EventsOK
<1>4. CallOK' /\ QueueInv'
  BY <1>1, <1>2 DEF CallOK, QueueInv
<1>5. TablesOK'
  <2>1. [time |-> 0, sources |-> {}] \in Phases
    BY DEF Phases
  <2>2. nextPhase' \in [Slots -> Phases]
    BY <1>1, <2>1
  <2> QED
    BY <1>1, <2>2 DEF TablesOK
<1> QED
  BY <1>3, <1>4, <1>5

LEMMA CollectDoneIInv ==
  ASSUME IInv, CollectDone
  PROVE  IInv'
<1>1. EventsOK /\ TablesOK /\ CallOK /\ Ledgers
  BY Parts
<1>2. /\ EnterGrant(0)
      /\ UNCHANGED <<mode, now, timer, registered, readySlot, age, wasEligible, earliest, committed, start, release, admitted,
                     srcFree, dstFree, quota, grantPhase>>
  BY DEF CollectDone, eventVars, commitVars, tableVars
<1>3. EventsOK' /\ TablesOK' /\ CallOK' /\ QueueInv'
  BY <1>1, <1>2, EnterGrantProps, LeavesAssumption
<1>4. Ledgers'
  BY <1>1, <1>2, QuietLedgers
<1> QED
  BY <1>3, <1>4, PartsNext

LEMMA GrantDoneIInv ==
  ASSUME IInv, GrantDone
  PROVE  IInv'
<1>1. EventsOK /\ TablesOK /\ CallOK /\ Ledgers
  BY Parts
<1>2. UNCHANGED <<mode, now, timer, registered, readySlot, age, wasEligible, earliest, committed, start, release, admitted,
                  srcFree, dstFree, quota, grantPhase>>
  BY DEF GrantDone, eventVars, commitVars, tableVars
<1>3. Ledgers'
  BY <1>1, <1>2, QuietLedgers
<1>4. CASE at + 1 \in Leaves /\ EnterGrant(at + 1)
  <2>1. EventsOK' /\ TablesOK' /\ CallOK' /\ QueueInv'
    BY <1>1, <1>2, <1>4, EnterGrantProps
  <2> QED
    BY <1>3, <2>1, PartsNext
<1>5. CASE EnterFast(0, registered, TRUE)
  <2>1. registered \in SUBSET Events /\ registered \subseteq registered' /\ TRUE \in BOOLEAN /\ 0 \in Leaves
    BY <1>1, <1>2, LeavesAssumption DEF EventsOK
  <2>2. CallOK' /\ QueueInv' /\ TablesOK'
    BY <1>1, <1>2, <1>5, <2>1, EnterFastProps
  <2>3. EventsOK'
    BY <1>1, <1>2 DEF EventsOK
  <2> QED
    BY <1>3, <2>2, <2>3, PartsNext
<1> QED
  BY <1>4, <1>5 DEF GrantDone

\* What a grant does to the tables.
LEMMA GrantTables ==
  ASSUME TablesOK, NEW e \in Events, NEW d \in Leaves, NEW s \in Slots, Grant(e, d, s),
         \A u \in Window(e, s) : u \in Slots /\ dstFree[d][u] >= Foot[e][d]
  PROVE  /\ dstFree' \in Tables
         /\ quota' \in Quotas(Nat)
         /\ \A k \in Leaves, u \in Slots : dstFree'[k][u] =
              IF k = d /\ u \in Window(e, s) THEN dstFree[k][u] - Foot[e][d] ELSE dstFree[k][u]
         /\ \A l, k \in Leaves, u \in Slots : quota'[l][k][u] =
              IF l = LeafOf[e] /\ k = d /\ u \in Window(e, s) THEN quota[l][k][u] + Foot[e][d] ELSE quota[l][k][u]
         /\ grantPhase' \in [Leaves -> [Leaves -> [Slots -> Nat \cup {None}]]]
         /\ nextPhase' \in [Slots -> Phases]
<1> DEFINE l == LeafOf[e]
           w == Window(e, s)
           f == Foot[e][d]
<1>1. l \in Leaves /\ f \in Nat
  BY FootTypes
<1>2. /\ dstFree \in [Leaves -> [Slots -> 0 .. Capacity]]
      /\ quota \in [Leaves -> [Leaves -> [Slots -> 0 .. Capacity]]]
      /\ grantPhase \in [Leaves -> [Leaves -> [Slots -> Nat \cup {None}]]]
      /\ nextPhase \in [Slots -> Phases]
      /\ Capacity \in Nat /\ PhaseGap \in Nat
  BY CapacityAssumption, TimesAssumption DEF TablesOK, Tables, Quotas
<1>3. /\ dstFree' = [dstFree EXCEPT ![d] = Take(dstFree[d], w, f)]
      /\ quota' = [quota EXCEPT ![l] = [quota[l] EXCEPT ![d] = Give(quota[l][d], w, f)]]
  BY <1>1, <1>2 DEF Grant
<1>4. \/ UNCHANGED <<grantPhase, nextPhase>>
      \/ /\ grantPhase' = [grantPhase EXCEPT ![l] = [grantPhase[l] EXCEPT ![d] = [grantPhase[l][d] EXCEPT ![s] = nextPhase[s].time]]]
         /\ nextPhase' = [nextPhase EXCEPT ![s] = [time |-> nextPhase[s].time + PhaseGap, sources |-> nextPhase[s].sources \cup {l}]]
  BY <1>1, <1>2 DEF Grant
<1>5. \A u \in w \cap Slots : dstFree[d][u] >= f
  OBVIOUS
<1> HIDE DEF l, w, f
<1>6. /\ Take(dstFree[d], w, f) \in [Slots -> 0 .. Capacity]
      /\ \A u \in Slots : Take(dstFree[d], w, f)[u] = IF u \in w THEN dstFree[d][u] - f ELSE dstFree[d][u]
  <2>1. dstFree[d] \in [Slots -> 0 .. Capacity]
    BY <1>2
  <2> QED
    BY <1>1, <1>5, <2>1, TakeType
<1>7. /\ Give(quota[l][d], w, f) \in [Slots -> Nat]
      /\ \A u \in Slots : Give(quota[l][d], w, f)[u] = IF u \in w THEN quota[l][d][u] + f ELSE quota[l][d][u]
  <2>1. quota[l][d] \in [Slots -> Nat]
    BY <1>1, <1>2
  <2> QED
    BY <1>1, <2>1 DEF Give
<1>8. dstFree' \in Tables
  BY <1>2, <1>3, <1>6 DEF Tables
<1>9. \A k \in Leaves, u \in Slots : dstFree'[k][u] = IF k = d /\ u \in w THEN dstFree[k][u] - f ELSE dstFree[k][u]
  BY <1>2, <1>3, <1>6
<1>10. quota' \in Quotas(Nat)
  <2>1. quota \in [Leaves -> [Leaves -> [Slots -> Nat]]]
    BY <1>2
  <2>2. [quota[l] EXCEPT ![d] = Give(quota[l][d], w, f)] \in [Leaves -> [Slots -> Nat]]
    BY <1>1, <1>7, <2>1
  <2> QED
    BY <1>3, <2>1, <2>2 DEF Quotas
<1>11. ASSUME NEW m \in Leaves, NEW k \in Leaves, NEW u \in Slots
       PROVE  quota'[m][k][u] = IF m = l /\ k = d /\ u \in w THEN quota[m][k][u] + f ELSE quota[m][k][u]
  <2>1. CASE m = l /\ k = d
    <3>1. quota'[m][k] = Give(quota[l][d], w, f)
      BY <1>1, <1>2, <1>3, <2>1
    <3> QED
      BY <1>7, <2>1, <3>1
  <2>2. CASE ~(m = l /\ k = d)
    <3>1. quota'[m][k] = quota[m][k]
      BY <1>1, <1>2, <1>3, <2>2
    <3> QED
      BY <2>2, <3>1
  <2> QED
    BY <2>1, <2>2
<1>12. nextPhase[s].time \in Nat /\ nextPhase[s].sources \subseteq Leaves
  <2>1. nextPhase[s] \in Phases
    BY <1>2
  <2> QED
    BY <2>1 DEF Phases
<1>13. nextPhase' \in [Slots -> Phases]
  <2>1. [time |-> nextPhase[s].time + PhaseGap, sources |-> nextPhase[s].sources \cup {l}] \in Phases
    BY <1>1, <1>2, <1>12 DEF Phases
  <2> QED
    BY <1>2, <1>4, <2>1
<1>14. grantPhase' \in [Leaves -> [Leaves -> [Slots -> Nat \cup {None}]]]
  <2>1. [grantPhase[l][d] EXCEPT ![s] = nextPhase[s].time] \in [Slots -> Nat \cup {None}]
    BY <1>1, <1>2, <1>12
  <2>2. [grantPhase[l] EXCEPT ![d] = [grantPhase[l][d] EXCEPT ![s] = nextPhase[s].time]] \in [Leaves -> [Slots -> Nat \cup {None}]]
    BY <1>1, <1>2, <2>1
  <2> QED
    BY <1>2, <1>4, <2>2
<1> QED
  BY <1>8, <1>9, <1>10, <1>11, <1>13, <1>14 DEF l, w, f

\* A grant moves the footprint from free destination capacity to quota.
LEMMA GrantLedgers ==
  ASSUME EventsOK, TablesOK, Ledgers, NEW e \in Events, NEW d \in Leaves, NEW s \in Slots, Grant(e, d, s),
         \A u \in Window(e, s) : u \in Slots /\ dstFree[d][u] >= Foot[e][d],
         UNCHANGED <<srcFree, committed, start>>
  PROVE  Ledgers' /\ quota' \in Quotas(0 .. Capacity)
<1>1. /\ dstFree' \in Tables
      /\ quota' \in Quotas(Nat)
      /\ \A k \in Leaves, u \in Slots : dstFree'[k][u] =
           IF k = d /\ u \in Window(e, s) THEN dstFree[k][u] - Foot[e][d] ELSE dstFree[k][u]
      /\ \A l, k \in Leaves, u \in Slots : quota'[l][k][u] =
           IF l = LeafOf[e] /\ k = d /\ u \in Window(e, s) THEN quota[l][k][u] + Foot[e][d] ELSE quota[l][k][u]
  BY GrantTables
<1>2. LeafOf[e] \in Leaves /\ Foot[e][d] \in Nat
  BY FootTypes
<1>3. quota \in Quotas(Nat)
  BY DEF TablesOK, Quotas
<1>4. ASSUME NEW k \in Leaves, NEW u \in Slots
      PROVE  dstFree'[k][u] + QuotaSum(quota', k, u) + FootSum(k, Covering(u)) = Capacity
  <2>1. dstFree[k][u] + QuotaSum(quota, k, u) + FootSum(k, Covering(u)) = Capacity
    BY DEF Ledgers, QuotaEq
  <2>2. QuotaSum(quota', k, u) = QuotaSum(quota, k, u) + (quota'[LeafOf[e]][k][u] - quota[LeafOf[e]][k][u])
    <3>1. \A m \in Leaves \ {LeafOf[e]} : quota'[m][k][u] = quota[m][k][u]
      BY <1>1
    <3> QED
      BY <1>1, <1>2, <1>3, <3>1, QuotaSumChange
  <2>3. QuotaSum(quota, k, u) \in Nat
    BY <1>3, QuotaSumProps
  <2>4. quota[LeafOf[e]][k][u] \in Nat
    BY <1>2, <1>3 DEF Quotas
  <2>5. dstFree[k][u] \in Nat
    BY DEF TablesOK, Tables
  <2>6. FootSum(k, Covering(u)) \in Nat
    <3>1. Covering(u) \in SUBSET Events
      BY DEF EventsOK, Covering
    <3> QED
      BY <3>1, FootSumType
  <2>7. CASE k = d /\ u \in Window(e, s)
    <3>1. dstFree'[k][u] = dstFree[k][u] - Foot[e][d] /\ quota'[LeafOf[e]][k][u] = quota[LeafOf[e]][k][u] + Foot[e][d]
      BY <1>1, <1>2, <2>7
    <3> QED
      BY <1>2, <2>1, <2>2, <2>3, <2>4, <2>5, <2>6, <3>1
  <2>8. CASE ~(k = d /\ u \in Window(e, s))
    <3>1. dstFree'[k][u] = dstFree[k][u] /\ quota'[LeafOf[e]][k][u] = quota[LeafOf[e]][k][u]
      BY <1>1, <1>2, <2>8
    <3> QED
      BY <2>1, <2>2, <2>3, <2>4, <2>5, <2>6, <3>1
  <2> QED
    BY <2>7, <2>8
<1>5. quota' \in Quotas(0 .. Capacity)
  <2> DEFINE C == [u \in Slots |-> Covering(u)]
  <2>1. C \in [Slots -> SUBSET Events]
    BY DEF EventsOK, Covering
  <2>2. \A k \in Leaves, u \in Slots : dstFree'[k][u] + QuotaSum(quota', k, u) + FootSum(k, C[u]) = Capacity
    BY <1>4
  <2>3. dstFree' \in [Leaves -> [Slots -> Nat]]
    BY <1>1 DEF Tables
  <2> HIDE DEF C
  <2> QED
    BY <1>1, <2>1, <2>2, <2>3, QuotaBound
<1>6. ASSUME NEW k \in Leaves, NEW u \in Slots PROVE QuotaEq(k, u)' /\ SrcEq(k, u)'
  <2>1. Covering(u)' = Covering(u)
    BY DEF Covering, Window, Span, Total
  <2>2. QuotaEq(k, u)' <=> dstFree'[k][u] + QuotaSum(quota', k, u) + FootSum(k, Covering(u)') = Capacity
    BY DEF QuotaEq, QuotaSum, FootSum, Foot, Span, Total
  <2>3. SrcEq(k, u)' <=> srcFree'[k][u] + SrcSum({x \in Covering(u)' : LeafOf[x] = k}) = Capacity
    BY DEF SrcEq, SrcSum, SrcFoot, Span, Total
  <2>4. SrcEq(k, u) <=> srcFree[k][u] + SrcSum({x \in Covering(u) : LeafOf[x] = k}) = Capacity
    BY DEF SrcEq
  <2>5. SrcEq(k, u)
    BY DEF Ledgers
  <2> QED
    BY <1>4, <2>1, <2>2, <2>3, <2>4, <2>5
<1>7. Ledgers'
  BY <1>6 DEF Ledgers
<1> QED
  BY <1>5, <1>7

LEMMA GrantStepIInv ==
  ASSUME IInv, NEW e \in Events, GrantStep(e)
  PROVE  IInv'
<1> DEFINE passing == {u \in Slots : dstFree[at][u] >= Foot[e][at]}
<1>1. EventsOK /\ TablesOK /\ CallOK /\ QueueInv /\ Ledgers
  BY Parts
<1>2. /\ phase = "grant" /\ e \in queue /\ queue' = queue \ {e}
      /\ UNCHANGED <<mode, now, timer, registered, readySlot, age, wasEligible, earliest, committed, start, release, admitted,
                     srcFree, phase, at, inEpoch, fresh, provSrc>>
  BY DEF GrantStep, eventVars, commitVars
<1>3. EventsOK'
  BY <1>1, <1>2 DEF EventsOK
<1>4. CallOK' /\ QueueInv'
  BY <1>1, <1>2 DEF CallOK, QueueInv
<1>5. at \in Leaves /\ earliest[e] \in Nat /\ passing \in SUBSET Slots
  <2>1. earliest[e] \in Slots /\ at \in Leaves
    BY <1>1, <1>2 DEF EventsOK, QueueInv, CallOK
  <2> QED
    BY <2>1, CapacityAssumption DEF Slots
<1>6. ASSUME UNCHANGED <<dstFree, quota, grantPhase, nextPhase>>
      PROVE  IInv'
  <2>1. TablesOK' /\ Ledgers'
    BY <1>1, <1>2, <1>6, QuietTables, QuietLedgers
  <2> QED
    BY <1>3, <1>4, <2>1, PartsNext
<1>7. ASSUME NEW s, s = FirstFit(e, earliest[e], passing), s # None, Grant(e, at, s)
      PROVE  IInv'
  <2>1. s \in Slots /\ Window(e, s) \subseteq passing
    <3> HIDE DEF passing
    <3> QED
      BY <1>5, <1>7, FirstFitProps
  <2>2. \A u \in Window(e, s) : u \in Slots /\ dstFree[at][u] >= Foot[e][at]
    BY <2>1
  <2>3. Ledgers' /\ quota' \in Quotas(0 .. Capacity)
    BY <1>1, <1>2, <1>5, <1>7, <2>1, <2>2, GrantLedgers
  <2>4. /\ dstFree' \in Tables
        /\ grantPhase' \in [Leaves -> [Leaves -> [Slots -> Nat \cup {None}]]]
        /\ nextPhase' \in [Slots -> Phases]
    BY <1>1, <1>5, <1>7, <2>1, <2>2, GrantTables
  <2>5. TablesOK'
    BY <1>1, <1>2, <2>3, <2>4 DEF TablesOK
  <2> QED
    BY <1>3, <1>4, <2>3, <2>5, PartsNext
<1> QED
  BY <1>6, <1>7 DEF GrantStep

LEMMA NextIInv == IInv /\ [Next]_vars => IInv'
<1> SUFFICES ASSUME IInv, [Next]_vars PROVE IInv'
  OBVIOUS
<1>1. ASSUME NEW e \in Events, Register(e) \/ Admit(e) \/ FastStep(e) \/ CollectStep(e) \/ GrantStep(e)
      PROVE  IInv'
  BY <1>1, RegisterIInv, AdmitIInv, FastStepIInv, CollectStepIInv, GrantStepIInv
<1>2. ASSUME FastDone \/ EpochFires \/ CollectDone \/ GrantDone PROVE IInv'
  BY <1>2, FastDoneIInv, EpochFiresIInv, CollectDoneIInv, GrantDoneIInv
<1>3. ASSUME Advance \/ UNCHANGED vars PROVE IInv'
  BY <1>3, AdvanceIInv
<1> QED
  BY <1>1, <1>2, <1>3 DEF Next

LEMMA Invariance == Spec => []IInv
  BY InitIInv, NextIInv, PTL DEF Spec
-----------------------------------------------------------------------------
(* The theorems.                                                           *)

\* In every reachable state all entries of the tables of all brokers are between 0 and the
\* capacity of a slot: no subtraction of FastControlPath or OnEpochTimer wraps around
\* (moe-fifo-scheduler.h 178-179, 265 and 317-318).
THEOREM TypeCorrect == Spec => []TypeOK
  BY Invariance, PTL DEF IInv

\* In every slot of every destination, free capacity, unused quota of the sources and the shares
\* of the committed events always add up to the capacity, for every load, every order of service
\* and every interleaving of epochs and FastControlPath calls (moe-fifo-scheduler.h 176-180 and
\* 315-332).
THEOREM QuotaIsConserved == Spec => []QuotaConserved
  BY Invariance, PTL DEF IInv

\* In every slot of every source, free capacity and the shares of the committed events of that
\* leaf always add up to the capacity (moe-fifo-scheduler.h 176-178 and 224).
THEOREM SourceIsConserved == Spec => []SourceConserved
  BY Invariance, PTL DEF IInv

\* A step commits only the event FastControlPath is at.
LEMMA CommitStep ==
  ASSUME IInv, [Next]_vars, NEW e \in committed' \ committed
  PROVE  /\ start'[e] >= now /\ start'[e] >= readySlot[e]
         /\ release'[e] >= start'[e] + LocalDelay /\ release'[e] >= TPred[e]
<1>1. EventsOK /\ CallOK
  BY Parts
<1>2. PICK x \in Events : FastStep(x)
  <2>1. ASSUME NEW x \in Events, Register(x) \/ Admit(x) \/ CollectStep(x) \/ GrantStep(x) PROVE committed' = committed
    BY <2>1 DEF Register, Admit, CollectStep, GrantStep, commitVars
  <2>2. ASSUME FastDone \/ EpochFires \/ CollectDone \/ GrantDone \/ Advance \/ UNCHANGED vars PROVE committed' = committed
    BY <2>2 DEF FastDone, EpochFires, CollectDone, GrantDone, Advance, vars, commitVars
  <2> QED
    BY <2>1, <2>2 DEF Next
<1>3. PICK s : s = FastSlot(x) /\ s # None /\ Commit(x, s)
  BY <1>2 DEF FastStep, commitVars
<1>4. s \in Slots /\ s >= now /\ s >= readySlot[x]
  BY <1>1, <1>3, FastSlotProps
<1> DEFINE n == Cardinality({y \in fresh : start[y] = s})
<1>5. /\ committed' = committed \cup {x} /\ start' = [start EXCEPT ![x] = s]
      /\ release' = [release EXCEPT ![x] = ReleaseTime(x, s, n)]
  BY <1>3 DEF Commit
<1>6. n \in Nat
  <2>1. fresh \subseteq Events
    BY <1>1 DEF CallOK, EventsOK
  <2>2. IsFiniteSet({y \in fresh : start[y] = s})
    BY <2>1, EventsAssumption, FS_Subset
  <2> QED
    BY <2>2, FS_CardinalityType
<1> HIDE DEF n
<1>7. ReleaseTime(x, s, n) >= s + LocalDelay /\ ReleaseTime(x, s, n) >= TPred[x]
  BY <1>4, <1>6, ReleaseProps DEF IInv
<1>8. e = x
  BY <1>5
<1>9. start'[x] = s /\ release'[x] = ReleaseTime(x, s, n)
  BY <1>1, <1>5 DEF EventsOK
<1> QED
  BY <1>4, <1>7, <1>8, <1>9

\* No step reserves slots that have passed or that are before the ready slot of the event, and
\* no step releases a rank before its window, the local delay and its predicted start
\* (moe-fifo-scheduler.h 162-163, 198-209 and 254).
THEOREM CommitsInFuture == Spec => CommitInFuture
<1>1. IInv /\ [Next]_vars =>
        [\A e \in committed' \ committed :
           /\ start'[e] >= now /\ start'[e] >= readySlot[e]
           /\ release'[e] >= start'[e] + LocalDelay /\ release'[e] >= TPred[e]]_vars
  BY CommitStep
<1> QED
  BY <1>1, Invariance, PTL DEF Spec, CommitInFuture
=============================================================================
