--------------------------- MODULE DistributedAging ---------------------------
(***************************************************************************)
(* The distributed scheduler of MoEJIT (DistributedAgingScheduler in       *)
(* scratch/moe-jit/moe-fifo-scheduler.h).  Each leaf switch has a broker.  *)
(* An event is one rank's share of one all-to-all task.  Every epoch the   *)
(* source brokers ask the destination brokers for quota, the destinations  *)
(* grant it first fit out of dstFree, and FastControlPath of each source   *)
(* commits the events whose window is covered by free source capacity and  *)
(* by quota at every destination.  FastControlPath also runs when an event *)
(* is registered, between two epochs.                                      *)
(*                                                                         *)
(* Time is counted in slots of 10 us, of which all delays of the code are  *)
(* multiples.  Calls run to completion at one instant: their loops are the *)
(* steps guarded by phase, and while phase # "idle" nothing else happens.  *)
(* The searches "for s ... s = failSlot" are FirstFit here: module         *)
(* CentralizedAdmission shows that jumping to the failing slot finds it.   *)
(***************************************************************************)
EXTENDS Integers, FiniteSets, FiniteSetsExt, Functions

CONSTANTS
  Events,      \* the (rank, task) pairs
  Leaves,      \* broker indices, 0 .. m_numLeafs - 1
  LeafOf,      \* LeafOf[e]: rank / m_k
  Bytes,       \* Bytes[e][d]: bytesByLeaf, 0 where the map has no entry
  TPred,       \* TPred[e]: the predicted start
  Modes,       \* a subset of {"AGING", "FIFO", "SJF", "SRPT"}
  Rslot,       \* m_Rslot
  Capacity,    \* m_capacityPerSlot
  Wsearch,     \* m_Wsearch
  Epoch,       \* m_epoch
  Helig,       \* m_Helig
  LocalDelay,  \* the 50 us added to every release
  LocalGap,    \* m_localGap
  PhaseGap,    \* m_phaseGap
  LastArrival, \* bound: no rank asks for a new task after this
  MaxTime,     \* bound: the model stops advancing time here
  LastSlot,    \* bound: last slot of the tables, past all windows up to MaxTime
  None

ASSUME EventsAssumption ==
  /\ IsFiniteSet(Events)
  /\ LeafOf \in [Events -> Leaves]
  /\ Bytes \in [Events -> [Leaves -> Nat]]
  /\ TPred \in [Events -> Nat]

ASSUME LeavesAssumption == IsFiniteSet(Leaves) /\ Leaves \subseteq Nat /\ 0 \in Leaves

ASSUME CapacityAssumption ==
  /\ Rslot \in Nat \ {0}
  /\ {Capacity, Wsearch, LastSlot} \subseteq Nat

ASSUME TimesAssumption == {Epoch, LocalDelay, LocalGap, PhaseGap} \subseteq Nat

ASSUME NoneAssumption == None \notin Int

VARIABLES
  mode,        \* m_mode, chosen at construction
  now,         \* Simulator::Now(), in slots
  timer,       \* when OnEpochTimer fires next, None before the first request
  registered,  \* keys of localEvents, over all brokers
  readySlot,   \* LocalEvent::readySlot
  age,         \* LocalEvent::age
  wasEligible, \* the events whose wasEligible is set
  earliest,    \* LocalEvent::earliestSlot, None for 0xFFFF...
  committed,   \* the events whose committed is set
  start,       \* the slot a committed event's window starts at
  release,     \* LocalEvent::releaseTime
  admitted,    \* the events whose rank has left the polling loop
  srcFree,     \* srcFree[l][s]
  dstFree,     \* dstFree[d][s]
  quota,       \* quota[l][d][s]: grantedQuota[d][s] of broker l
  grantPhase,  \* grantPhase[l][d][s]: grantedPhase, None where absent
  phase,       \* the running call: "idle", "fast", "collect" or "grant"
  at,          \* the broker the running loop is at
  inEpoch,     \* the FastControlPath running was called by OnEpochTimer
  queue,       \* the events the running loop has left
  fresh,       \* the events committed by the FastControlPath running
  provSrc,     \* provisionalSrcFree
  nextPhase    \* nextPhase[s] and the sources given a phase in this epoch

eventVars == <<registered, readySlot, age, wasEligible, earliest>>
commitVars == <<committed, start, release>>
tableVars == <<srcFree, dstFree, quota, grantPhase>>
callVars == <<phase, at, inEpoch, queue, fresh, provSrc, nextPhase>>
vars == <<mode, now, timer, eventVars, commitVars, admitted, tableVars, callVars>>
-----------------------------------------------------------------------------
Slots == 0 .. LastSlot

\* LocalEvent::b, span and foot, and the source footprint srcReq.
Total == [e \in Events |-> SumFunctionOnSet(Bytes[e], Leaves)]
Span == [e \in Events |-> Max({1, (Total[e] + Rslot - 1) \div Rslot})]
Foot == [e \in Events |-> [d \in Leaves |-> Bytes[e][d] \div Span[e]]]
SrcFoot == [e \in Events |-> Total[e] \div Span[e]]
\* The keys of bytesByLeaf: the loader enters no flow of 0 bytes (spine-8app.cpp 148-151).
Dests == [e \in Events |-> {d \in Leaves : Bytes[e][d] > 0}]
Window(e, s) == s .. (s + Span[e] - 1)

\* The search loops: the first of the Wsearch start slots from base whose window
\* is among the slots that pass the test, or None.
FirstFit(e, base, passing) ==
  LET fits == {s \in base .. (base + Wsearch - 1) : Window(e, s) \subseteq passing}
  IN IF fits = {} THEN None ELSE Min(fits)

\* prio(a) < prio(b), cross-multiplied; w is the weight of the age, in halves:
\* m_alphaAge = 1.5 in FastControlPath, but 2.0 in OnEpochTimer.
PrioLess(a, b, w) ==
  LET left(e) == IF Total[e] > age[e] * Capacity THEN Total[e] - age[e] * Capacity ELSE 1
  IN CASE mode = "AGING" -> Total[a] * (2 + w * age[b]) < Total[b] * (2 + w * age[a])
       [] mode = "FIFO" -> TPred[a] < TPred[b]
       [] mode = "SJF" -> Total[a] < Total[b]
       [] mode = "SRPT" -> left(a) < left(b)

FastWeight == 3
EpochWeight == 4

\* The sort order of the eligible lists; ties are left open by std::sort.
Before(a, b, w) ==
  \/ PrioLess(a, b, w)
  \/ ~PrioLess(b, a, w) /\ TPred[a] < TPred[b]

\* The order in which a destination serves the heads of its source queues.
ServedBefore(a, b) ==
  \/ Before(a, b, EpochWeight)
  \/ ~Before(b, a, EpochWeight) /\ LeafOf[a] < LeafOf[b]

\* Faulty variant: events that are overdue by more than Helig drop out.
EligibleInBothWays(evs) == {e \in evs \ committed : TPred[e] - now \in (-Helig) .. Helig}

\* Not committed, and predicted to start within Helig.
EligibleIn(evs) == {e \in evs \ committed : TPred[e] - now <= Helig}
LocalEvents(evs, l) == {e \in EligibleIn(evs) : LeafOf[e] = l}

\* Faulty variant: the search starts where the event became ready, even if that
\* slot has passed.
BaseReady(e) == readySlot[e]

\* The first slot a search for event e tries.
Base(e) == Max({readySlot[e], now})
-----------------------------------------------------------------------------
Init ==
  /\ mode \in Modes
  /\ now = 0
  /\ timer = None
  /\ registered = {}
  /\ readySlot = [e \in Events |-> 0]
  /\ age = [e \in Events |-> 0]
  /\ wasEligible = {}
  /\ earliest = [e \in Events |-> None]
  /\ committed = {}
  /\ start = [e \in Events |-> None]
  /\ release = [e \in Events |-> None]
  /\ admitted = {}
  /\ srcFree = [l \in Leaves |-> [s \in Slots |-> Capacity]]
  /\ dstFree = [l \in Leaves |-> [s \in Slots |-> Capacity]]
  /\ quota = [l \in Leaves |-> [d \in Leaves |-> [s \in Slots |-> 0]]]
  /\ grantPhase = [l \in Leaves |-> [d \in Leaves |-> [s \in Slots |-> None]]]
  /\ phase = "idle"
  /\ at = 0
  /\ inEpoch = FALSE
  /\ queue = {}
  /\ fresh = {}
  /\ provSrc = srcFree
  /\ nextPhase = [s \in Slots |-> [time |-> 0, sources |-> {}]]

\* Enter FastControlPath of broker l, with localEvents evs.
EnterFast(l, evs, epoch) ==
  /\ phase' = "fast"
  /\ at' = l
  /\ inEpoch' = epoch
  /\ queue' = LocalEvents(evs, l)
  /\ fresh' = {}
  /\ UNCHANGED <<provSrc, nextPhase>>

\* First CheckAdmission of a rank for a task: start the epoch timer if need be,
\* register the event, run FastControlPath, answer no.
Register(e) ==
  /\ phase = "idle"
  /\ e \notin registered
  /\ now <= LastArrival
  /\ timer' = IF timer = None THEN now + Epoch ELSE timer
  /\ registered' = registered \cup {e}
  /\ readySlot' = [readySlot EXCEPT ![e] = Max({now, TPred[e]})]
  /\ EnterFast(LeafOf[e], registered', FALSE)
  /\ UNCHANGED <<mode, now, age, wasEligible, earliest, commitVars, admitted, tableVars>>

\* Later CheckAdmission: the answer is yes from the release time on.
Admit(e) ==
  /\ phase = "idle"
  /\ e \in committed \ admitted
  /\ now >= release[e]
  /\ admitted' = admitted \cup {e}
  /\ UNCHANGED <<mode, now, timer, eventVars, commitVars, tableVars, callVars>>

\* Faulty variant: the quota of the destinations is not consulted.
SlotCoversSource(e, u) == srcFree[LeafOf[e]][u] >= SrcFoot[e]

\* Slot u of broker LeafOf[e] has source capacity and quota for event e.
SlotCovers(e, u) ==
  /\ srcFree[LeafOf[e]][u] >= SrcFoot[e]
  /\ \A d \in Dests[e] : quota[LeafOf[e]][d][u] >= Foot[e][d]

\* Where the search of FastControlPath places event e.
FastSlot(e) ==
  FirstFit(e, IF earliest[e] # None /\ earliest[e] > Base(e) THEN earliest[e] ELSE Base(e),
           {u \in Slots : SlotCovers(e, u)})

\* releaseTime of an event placed at slot s with n others ahead in its bucket.
ReleaseTime(e, s, n) ==
  LET phases == {grantPhase[LeafOf[e]][d][s] : d \in Dests[e]} \ {None}
  IN Max({TPred[e], s + LocalDelay + n * LocalGap} \cup {s + p : p \in phases})

\* Take f from each slot of window w in table tab.
Take(tab, w, f) == [s \in Slots |-> IF s \in w THEN tab[s] - f ELSE tab[s]]

\* Reserve the window of event e at slot s and fix its release.
Commit(e, s) ==
  LET l == LeafOf[e]
      w == Window(e, s)
  IN
  /\ srcFree' = [srcFree EXCEPT ![l] = Take(@, w, SrcFoot[e])]
  /\ quota' = [quota EXCEPT ![l] = [d \in Leaves |->
       IF d \in Dests[e] THEN Take(quota[l][d], w, Foot[e][d]) ELSE quota[l][d]]]
  /\ committed' = committed \cup {e}
  /\ start' = [start EXCEPT ![e] = s]
  /\ release' = [release EXCEPT ![e] =
       ReleaseTime(e, s, Cardinality({x \in fresh : start[x] = s}))]

\* FastControlPath takes the next event in order of priority and commits it if
\* its search finds a slot.
FastStep(e) ==
  /\ phase = "fast"
  /\ e \in queue
  /\ \A x \in queue : ~Before(x, e, FastWeight)
  /\ queue' = queue \ {e}
  /\ \E s \in {FastSlot(e)} :
       \/ /\ s = None
          /\ UNCHANGED <<commitVars, srcFree, quota, fresh>>
       \/ /\ s # None
          /\ Commit(e, s)
          /\ fresh' = fresh \cup {e}
  /\ UNCHANGED <<mode, now, timer, eventVars, admitted, dstFree, grantPhase>>
  /\ UNCHANGED <<phase, at, inEpoch, provSrc, nextPhase>>

\* FastControlPath returns to CheckAdmission, or to the loop over all brokers at
\* the end of OnEpochTimer, which then schedules itself again.
FastDone ==
  /\ phase = "fast"
  /\ queue = {}
  /\ \/ /\ inEpoch /\ at + 1 \in Leaves
        /\ EnterFast(at + 1, registered, TRUE)
        /\ UNCHANGED timer
     \/ /\ ~(inEpoch /\ at + 1 \in Leaves)
        /\ phase' = "idle"
        /\ timer' = IF inEpoch THEN now + Epoch ELSE timer
        /\ inEpoch' = FALSE
        /\ fresh' = {}
        /\ UNCHANGED <<at, queue, provSrc, nextPhase>>
  /\ UNCHANGED <<mode, now, eventVars, commitVars, admitted, tableVars>>

\* OnEpochTimer fires: age the eligible events, forget their earliest slots, and
\* copy srcFree.
EpochFires ==
  LET eligible == EligibleIn(registered) IN
  /\ phase = "idle"
  /\ timer = now
  /\ age' = [e \in Events |->
       IF e \in eligible THEN IF e \in wasEligible THEN age[e] + 1 ELSE 0 ELSE age[e]]
  /\ wasEligible' = wasEligible \cup eligible
  /\ earliest' = [e \in Events |-> IF e \in eligible THEN None ELSE earliest[e]]
  /\ phase' = "collect"
  /\ queue' = eligible
  /\ provSrc' = srcFree
  /\ UNCHANGED <<mode, now, timer, registered, readySlot, commitVars, admitted, tableVars>>
  /\ UNCHANGED <<at, inEpoch, fresh, nextPhase>>

\* Faulty variant: the search works on srcFree itself, not on the copy.
CollectStepNoCopy(e) ==
  LET l == LeafOf[e] IN
  /\ phase = "collect"
  /\ e \in queue
  /\ queue' = queue \ {e}
  /\ \E s \in {FirstFit(e, Base(e), {u \in Slots : srcFree[l][u] >= SrcFoot[e]})} :
       /\ earliest' = [earliest EXCEPT ![e] = s]
       /\ srcFree' = IF s = None THEN srcFree
                     ELSE [srcFree EXCEPT ![l] = Take(@, Window(e, s), SrcFoot[e])]
  /\ UNCHANGED <<mode, now, timer, registered, readySlot, age, wasEligible, commitVars, admitted>>
  /\ UNCHANGED <<dstFree, quota, grantPhase, phase, at, inEpoch, fresh, provSrc, nextPhase>>

\* A source broker finds the earliest window an event could have at the source,
\* brokers in order, events of one broker by priority.
CollectStep(e) ==
  LET l == LeafOf[e] IN
  /\ phase = "collect"
  /\ e \in queue
  /\ \A x \in queue :
       l < LeafOf[x] \/ (l = LeafOf[x] /\ ~Before(x, e, EpochWeight))
  /\ queue' = queue \ {e}
  /\ \E s \in {FirstFit(e, Base(e), {u \in Slots : provSrc[l][u] >= SrcFoot[e]})} :
       /\ earliest' = [earliest EXCEPT ![e] = s]
       /\ provSrc' = IF s = None THEN provSrc
                     ELSE [provSrc EXCEPT ![l] = Take(@, Window(e, s), SrcFoot[e])]
  /\ UNCHANGED <<mode, now, timer, registered, readySlot, age, wasEligible>>
  /\ UNCHANGED <<commitVars, admitted, tableVars, phase, at, inEpoch, fresh, nextPhase>>

\* The requests of this epoch that name destination d.
Requests(d) ==
  {e \in EligibleIn(registered) : earliest[e] # None /\ d \in Dests[e]}

\* Start serving destination d, with nextPhase cleared.
EnterGrant(d) ==
  /\ phase' = "grant"
  /\ at' = d
  /\ queue' = Requests(d)
  /\ nextPhase' = [s \in Slots |-> [time |-> 0, sources |-> {}]]
  /\ UNCHANGED <<inEpoch, fresh, provSrc>>

CollectDone ==
  /\ phase = "collect"
  /\ queue = {}
  /\ EnterGrant(0)
  /\ UNCHANGED <<mode, now, timer, eventVars, commitVars, admitted, tableVars>>

\* Add f to each slot of window w in table tab.
Give(tab, w, f) == [s \in Slots |-> IF s \in w THEN tab[s] + f ELSE tab[s]]

\* Faulty variant: the grant leaves dstFree as it was, for other epochs to grant.
GrantNotTaken(e, d, s) ==
  /\ quota' = [quota EXCEPT ![LeafOf[e]][d] = Give(@, Window(e, s), Foot[e][d])]
  /\ UNCHANGED <<dstFree, grantPhase, nextPhase>>

\* Destination d grants event e the window at slot s: the grant is taken out of
\* dstFree and becomes quota of the source; the first grant of a source at a
\* start slot fixes the phase of the source there.
Grant(e, d, s) ==
  LET l == LeafOf[e]
      w == Window(e, s)
  IN
  /\ dstFree' = [dstFree EXCEPT ![d] = Take(@, w, Foot[e][d])]
  /\ quota' = [quota EXCEPT ![l][d] = Give(@, w, Foot[e][d])]
  /\ \/ /\ l \in nextPhase[s].sources
        /\ UNCHANGED <<grantPhase, nextPhase>>
     \/ /\ l \notin nextPhase[s].sources
        /\ grantPhase' = [grantPhase EXCEPT ![l][d][s] = nextPhase[s].time]
        /\ nextPhase' = [nextPhase EXCEPT ![s] =
             [time |-> @.time + PhaseGap, sources |-> @.sources \cup {l}]]

\* The destination serves the best request left.
GrantStep(e) ==
  /\ phase = "grant"
  /\ e \in queue
  /\ \A x \in queue : ~ServedBefore(x, e)
  /\ queue' = queue \ {e}
  /\ \E s \in {FirstFit(e, earliest[e], {u \in Slots : dstFree[at][u] >= Foot[e][at]})} :
       \/ /\ s = None
          /\ UNCHANGED <<dstFree, quota, grantPhase, nextPhase>>
       \/ /\ s # None
          /\ Grant(e, at, s)
  /\ UNCHANGED <<mode, now, timer, eventVars, commitVars, admitted, srcFree>>
  /\ UNCHANGED <<phase, at, inEpoch, fresh, provSrc>>

GrantDone ==
  /\ phase = "grant"
  /\ queue = {}
  /\ IF at + 1 \in Leaves THEN EnterGrant(at + 1) ELSE EnterFast(0, registered, TRUE)
  /\ UNCHANGED <<mode, now, timer, eventVars, commitVars, admitted, tableVars>>

\* Time passes once the timer and the ranks whose release has come have run.
Advance ==
  /\ phase = "idle"
  /\ timer # now
  /\ \A e \in committed \ admitted : release[e] > now
  /\ now < MaxTime
  /\ now' = now + 1
  /\ UNCHANGED <<mode, timer, eventVars, commitVars, admitted, tableVars, callVars>>

Next ==
  \/ \E e \in Events :
       Register(e) \/ Admit(e) \/ FastStep(e) \/ CollectStep(e) \/ GrantStep(e)
  \/ FastDone
  \/ EpochFires
  \/ CollectDone
  \/ GrantDone
  \/ Advance

Spec == Init /\ [][Next]_vars
FairSpec == Spec /\ WF_vars(Next)
-----------------------------------------------------------------------------
(* Properties.                                                             *)

Tables == [Leaves -> [Slots -> 0 .. Capacity]]

\* Type invariant; no table entry wraps below 0 (moe-fifo-scheduler.h 178-179,
\* 265 and 317-318) or exceeds the capacity of a slot.
TypeOK ==
  /\ mode \in Modes
  /\ now \in Nat
  /\ timer \in Nat \cup {None}
  /\ registered \subseteq Events
  /\ committed \subseteq registered
  /\ admitted \subseteq committed
  /\ wasEligible \subseteq registered
  /\ readySlot \in [Events -> Nat]
  /\ age \in [Events -> Nat]
  /\ earliest \in [Events -> Slots \cup {None}]
  /\ start \in [Events -> Slots \cup {None}]
  /\ release \in [Events -> Nat \cup {None}]
  /\ srcFree \in Tables /\ dstFree \in Tables /\ provSrc \in Tables
  /\ quota \in [Leaves -> Tables]
  /\ grantPhase \in [Leaves -> [Leaves -> [Slots -> Nat \cup {None}]]]
  /\ phase \in {"idle", "fast", "collect", "grant"}
  /\ at \in Leaves
  /\ inEpoch \in BOOLEAN
  /\ queue \subseteq registered
  /\ fresh \subseteq committed

\* The committed events whose window covers slot s.
Covering(s) == {e \in committed : s \in Window(e, start[e])}

\* Quota is conserved: in every slot of every destination, what is free, what is
\* granted and unused at the sources, and what committed events use add up to
\* the capacity.  In particular no destination is ever over-committed, however
\* epochs and FastControlPath calls between them interleave (moe-fifo-scheduler.h
\* 176-180 and 315-332).
QuotaConserved ==
  \A d \in Leaves, s \in Slots :
    dstFree[d][s]
      + SumFunctionOnSet([l \in Leaves |-> quota[l][d][s]], Leaves)
      + SumFunctionOnSet([e \in Events |-> Foot[e][d]], Covering(s))
    = Capacity

\* The source side of the ledger is conserved as well (moe-fifo-scheduler.h
\* 176-178 and 224): the
\* provisional table of an epoch never replaces srcFree.
SourceConserved ==
  \A l \in Leaves, s \in Slots :
    srcFree[l][s]
      + SumFunctionOnSet([e \in Events |-> SrcFoot[e]], {e \in Covering(s) : LeafOf[e] = l})
    = Capacity

\* No reservation is made for slots that have passed, also for an event that was
\* refused in earlier epochs and whose earliest slot is old, and no rank is
\* released before its window (moe-fifo-scheduler.h 162-163, 198-209 and 254).
CommitInFuture ==
  [][\A e \in committed' \ committed :
       /\ start'[e] >= now /\ start'[e] >= readySlot[e]
       /\ release'[e] >= start'[e] + LocalDelay /\ release'[e] >= TPred[e]]_vars

\* Every registered event is eventually committed and its rank admitted, although
\* the grants of one epoch may be at different slots, or used by another event of
\* the leaf, or expire (moe-fifo-scheduler.h 165-175, 215-336 and moe-jit.h 477).
EventuallyAdmitted == \A e \in Events : e \in registered ~> e \in admitted
=============================================================================
