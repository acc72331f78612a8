------------------------ MODULE DefaultSimulator_proofs ------------------------
(***************************************************************************)
(* Proofs about DefaultSimulator for every number of events that fits the  *)
(* 32 bits of an uid, and all delays.  The events in the queue have        *)
(* different uids and are later than the current event (QueueInv), the     *)
(* posted ones are still unknown to everybody (PostedInv), and m_uid does  *)
(* not wrap around (UidInv).  In the order of their uids they are the line *)
(* of the abstract EventQueue (LineInv).                                   *)
(***************************************************************************)
EXTENDS DefaultSimulator, FiniteSetTheorems, SequenceTheorems, SumTheorems, TLAPS

\* The key of e is greater than that of the current event.
Later(e) == key[e].ts > now \/ (key[e].ts = now /\ key[e].uid > currentUid)

\* m_uid counts the events created, without those posted and not yet inserted.
UidInv ==
  /\ VALID <= uid
  /\ uid + Len(taken) + Len(withContext) <= VALID + created
  /\ currentUid < uid

\* The events of one list are different, exist, and have no key, EventId or place yet.
Fresh(list) ==
  \A i \in 1 .. Len(list) :
    /\ list[i].event <= created
    /\ list[i].event \notin queue \cup ids
    /\ \A j \in 1 .. Len(list) : list[i].event = list[j].event => i = j

PostedInv ==
  /\ Fresh(taken) /\ Fresh(withContext)
  /\ \A i \in 1 .. Len(taken) : \A j \in 1 .. Len(withContext) : taken[i].event # withContext[j].event
  /\ pc # "insert" => taken = <<>>

\* What waits is later than the current event, what neither waits nor was cancelled
\* is not.
QueueInv ==
  /\ \A e \in queue \cup ids : e <= created
  /\ \A e \in queue : VALID <= key[e].uid /\ key[e].uid < uid /\ Later(e)
  /\ \A e, f \in queue : key[e].uid = key[f].uid => e = f
  /\ pc # "end" => \A e \in ids : key[e].uid # DESTROY /\ e \notin queue \cup cancelled => ~Later(e)
  /\ pc # "end" => unscheduled = Cardinality(queue)

\* Destroy events are known by their uid.
DestroyInv == \A i \in 1 .. Len(destroyEvents) : destroyEvents[i] \in ids /\ key[destroyEvents[i]].uid = DESTROY

IInv == TypeOK /\ UidInv /\ PostedInv /\ QueueInv /\ DestroyInv /\ FlagTruthful
-----------------------------------------------------------------------------
(* Sequences and numbers.                                                  *)

LEMMA ModSmall ==
  ASSUME NEW a \in Nat, NEW b \in Nat, a < b
  PROVE  a % b = a
  OBVIOUS

\* Removing the first of the elements equal to e leaves elements of the sequence.
LEMMA RemoveFirstElements ==
  ASSUME NEW S, NEW s \in Seq(S), NEW e
  PROVE  /\ RemoveFirst(s, e) \in Seq(S)
         /\ \A i \in 1 .. Len(RemoveFirst(s, e)) : \E j \in 1 .. Len(s) : RemoveFirst(s, e)[i] = s[j]
<1> DEFINE U == {s[j] : j \in 1 .. Len(s)}
<1>1. s \in Seq(U) /\ Len(s) \in Nat
  <2>1. Len(s) \in Nat /\ s \in [1 .. Len(s) -> S]
    BY LenProperties
  <2>2. s \in [1 .. Len(s) -> U]
    BY <2>1
  <2>3. Seq(U) = UNION {[1 .. n -> U] : n \in Nat}
    BY SeqDef
  <2> QED
    BY <2>1, <2>2, <2>3
<1>2. U \subseteq S
  BY ElementOfSeq
<1> HIDE DEF U
<1>3. RemoveFirst(s, e) \in Seq(U)
  <2>1. CASE ~\E i \in 1 .. Len(s) : s[i] = e
    BY <1>1, <2>1 DEF RemoveFirst
  <2>2. CASE \E i \in 1 .. Len(s) : s[i] = e
    <3> DEFINE I == {i \in 1 .. Len(s) : s[i] = e}
    <3>1. I \in SUBSET Nat /\ I # {}
      BY <2>2
    <3>2. Min(I) \in I
      BY <3>1, NatMin
    <3>3. RemoveFirst(s, e) = RemoveAt(s, Min(I))
      BY <2>2, <3>1 DEF RemoveFirst, SelectInSeq
    <3>4. PICK k \in Nat : k = Min(I)
      BY <3>1, <3>2
    <3>5. k \in 1 .. Len(s)
      BY <3>2, <3>4
    <3>6. SubSeq(s, 1, k - 1) \in Seq(U)
      BY <1>1, <3>5
    <3>7. SubSeq(s, k + 1, Len(s)) \in Seq(U)
      BY <1>1, <3>5
    <3> QED
      BY <3>3, <3>4, <3>6, <3>7, ConcatProperties DEF RemoveAt
  <2> QED
    BY <2>1, <2>2
<1>4. \A i \in 1 .. Len(RemoveFirst(s, e)) : RemoveFirst(s, e)[i] \in U
  BY <1>3, ElementOfSeq
<1>5. RemoveFirst(s, e) \in Seq(S)
  BY <1>2, <1>3, SeqMonotonic
<1> QED
  BY <1>4, <1>5 DEF U

\* The first element is the first of those equal to it.
LEMMA RemoveHead ==
  ASSUME NEW S, NEW s \in Seq(S), s # <<>>
  PROVE  RemoveFirst(s, Head(s)) = Tail(s)
<1> DEFINE I == {i \in 1 .. Len(s) : s[i] = Head(s)}
<1>1. Len(s) \in Nat \ {0} /\ 1 \in 1 .. Len(s) /\ s[1] = Head(s)
  BY EmptySeq
<1>2. I \in SUBSET Nat /\ 1 \in I /\ \A i \in I : 1 <= i
  BY <1>1
<1>3. Min(I) \in I /\ Min(I) <= 1
  BY <1>2, NatMin
<1>4. Min(I) = 1
  BY <1>2, <1>3
<1>5. RemoveFirst(s, Head(s)) = RemoveAt(s, 1)
  BY <1>1, <1>2, <1>4 DEF RemoveFirst, SelectInSeq
<1>6. RemoveAt(s, 1) = SubSeq(s, 1, 0) \o SubSeq(s, 2, Len(s))
  BY DEF RemoveAt
<1>7. SubSeq(s, 1, 0) = <<>>
  BY SubSeqEmpty
<1>8. SubSeq(s, 2, Len(s)) = Tail(s) /\ Tail(s) \in Seq(S)
  BY TailIsSubSeq, HeadTailProperties
<1>9. <<>> \o Tail(s) = Tail(s)
  BY <1>8, ConcatEmptySeq
<1> QED
  BY <1>5, <1>6, <1>7, <1>8, <1>9

\* The elements of a tail are those of the sequence, one place later.
LEMMA TailElements ==
  ASSUME NEW S, NEW s \in Seq(S), s # <<>>
  PROVE  /\ Len(s) \in Nat \ {0}
         /\ Tail(s) \in Seq(S) /\ Len(Tail(s)) = Len(s) - 1
         /\ \A i \in 1 .. Len(Tail(s)) : i + 1 \in 1 .. Len(s) /\ Tail(s)[i] = s[i + 1]
<1>1. Len(s) \in Nat \ {0}
  BY EmptySeq
<1>2. /\ Tail(s) \in Seq(S) /\ Len(Tail(s)) = Len(s) - 1
      /\ \A i \in 1 .. Len(Tail(s)) : Tail(s)[i] = s[i + 1]
  BY HeadTailProperties
<1> QED
  BY <1>1, <1>2
-----------------------------------------------------------------------------
(* The inductive invariant.                                                *)

Keys == [ts : Nat, uid : 0 .. UidLimit - 1]
Posts == [event : Events, delay : Delays]

\* The queue is finite.
LEMMA QueueFinite ==
  ASSUME TypeOK
  PROVE  IsFiniteSet(queue) /\ Cardinality(queue) \in Nat
<1>1. IsFiniteSet(Events) /\ queue \in SUBSET Events
  BY UidAssumption, FS_Interval DEF Events, TypeOK
<1> QED
  BY <1>1, FS_Subset, FS_CardinalityType

\* What Insert does, as long as m_uid does not wrap around.
LEMMA InsertFacts ==
  ASSUME TypeOK, NEW e \in Events, NEW d \in Delays, Insert(e, d), uid + 1 < UidLimit
  PROVE  /\ key' \in [Events -> Keys]
         /\ key'[e].ts = now + d /\ key'[e].uid = uid
         /\ \A f \in Events : f # e => key'[f] = key[f]
         /\ uid' = uid + 1 /\ uid' \in 0 .. UidLimit - 1
         /\ unscheduled' = unscheduled + 1
         /\ queue' = queue \cup {e}
<1>1. /\ uid \in 0 .. UidLimit - 1 /\ UidLimit \in Nat /\ now \in Nat /\ d \in Nat
      /\ key \in [Events -> Keys]
  BY UidAssumption, DelaysAssumption DEF TypeOK, Keys
<1>2. uid' = uid + 1
  BY <1>1, ModSmall DEF Insert
<1>3. [ts |-> now + d, uid |-> uid] \in Keys
  BY <1>1 DEF Keys
<1>4. key' = [key EXCEPT ![e] = [ts |-> now + d, uid |-> uid]]
  BY DEF Insert
<1>5. /\ key' \in [Events -> Keys]
      /\ key'[e] = [ts |-> now + d, uid |-> uid]
      /\ \A f \in Events : f # e => key'[f] = key[f]
  BY <1>1, <1>3, <1>4
<1> QED
  BY <1>1, <1>2, <1>5 DEF Insert

\* An event that nobody knew goes to the end of those of its time.
LEMMA InsertQueueInv ==
  ASSUME IInv, NEW e \in Events, e \notin queue, e \notin ids, e <= created',
         NEW d \in Delays, Insert(e, d), uid + 1 < UidLimit,
         created' \in {created, created + 1}, ids' \in {ids, ids \cup {e}},
         UNCHANGED <<now, currentUid, cancelled>>, pc # "end"
  PROVE  QueueInv'
<1>1. /\ TypeOK /\ queue \subseteq Events /\ ids \subseteq Events
      /\ uid \in Nat /\ now \in Nat /\ d \in Nat /\ currentUid < uid /\ VALID <= uid
      /\ created \in Nat /\ currentUid \in Nat /\ unscheduled \in Nat
  BY UidAssumption, DelaysAssumption DEF IInv, TypeOK, UidInv
<1>2. /\ key'[e].ts = now + d /\ key'[e].uid = uid
      /\ \A f \in Events : f # e => key'[f] = key[f]
      /\ uid' = uid + 1
      /\ unscheduled' = unscheduled + 1
      /\ queue' = queue \cup {e}
  BY <1>1, InsertFacts
<1>3. /\ \A f \in queue \cup ids : f <= created
      /\ \A f \in queue : VALID <= key[f].uid /\ key[f].uid < uid /\ Later(f)
      /\ \A f, g \in queue : key[f].uid = key[g].uid => f = g
      /\ \A f \in ids : key[f].uid # DESTROY /\ f \notin queue \cup cancelled => ~Later(f)
      /\ unscheduled = Cardinality(queue)
  BY DEF IInv, QueueInv
<1>4. \A f \in queue \cup ids : f \in Events /\ f # e /\ key'[f] = key[f]
  BY <1>1, <1>2
<1>5. \A f \in queue' \cup ids' : f <= created'
  BY <1>1, <1>2, <1>3 DEF Events
<1>6. ASSUME NEW f \in queue'
      PROVE  VALID <= key'[f].uid /\ key'[f].uid < uid' /\ Later(f)'
  <2>1. CASE f = e
    BY <1>1, <1>2, <2>1 DEF Later
  <2>2. CASE f \in queue
    <3>1. VALID <= key[f].uid /\ key[f].uid < uid /\ Later(f) /\ key'[f] = key[f]
      BY <1>3, <1>4, <2>2
    <3>2. key[f].uid \in Nat
      BY <1>1, <2>2, UidAssumption DEF TypeOK
    <3>3. Later(f)'
      BY <3>1 DEF Later
    <3> QED
      BY <1>1, <1>2, <3>1, <3>2, <3>3
  <2> QED
    BY <1>2, <2>1, <2>2
<1>7. ASSUME NEW f \in queue', NEW g \in queue', key'[f].uid = key'[g].uid
      PROVE  f = g
  <2>1. \A h \in queue : key'[h].uid # uid
    <3> TAKE h \in queue
    <3>1. key[h].uid < uid /\ key'[h] = key[h] /\ key[h].uid \in Nat
      BY <1>1, <1>3, <1>4, UidAssumption DEF TypeOK
    <3> QED
      BY <1>1, <3>1
  <2> QED
    BY <1>2, <1>3, <1>4, <1>7, <2>1
<1>8. ASSUME NEW f \in ids', key'[f].uid # DESTROY, f \notin queue' \cup cancelled'
      PROVE  ~Later(f)'
  <2>1. f \in ids /\ f # e /\ f \notin queue \cup cancelled
    BY <1>2, <1>8
  <2>2. key'[f] = key[f] /\ ~Later(f)
    BY <1>3, <1>4, <1>8, <2>1
  <2> QED
    BY <2>2 DEF Later
<1>9. unscheduled' = Cardinality(queue')
  <2>1. IsFiniteSet(queue)
    BY <1>1, QueueFinite
  <2>2. Cardinality(queue \cup {e}) = Cardinality(queue) + 1
    BY <2>1, FS_AddElement
  <2> QED
    BY <1>2, <1>3, <2>2
<1>10. /\ \A f \in queue' : VALID <= key'[f].uid /\ key'[f].uid < uid' /\ Later(f)'
       /\ \A f, g \in queue' : key'[f].uid = key'[g].uid => f = g
       /\ \A f \in ids' : key'[f].uid # DESTROY /\ f \notin queue' \cup cancelled' => ~Later(f)'
  BY <1>6, <1>7, <1>8
<1> QED
  BY <1>5, <1>9, <1>10 DEF QueueInv

LEMMA InitIInv == Init => IInv
<1> SUFFICES ASSUME Init PROVE IInv
  OBVIOUS
<1> USE UidAssumption DEF VALID, INVALID
<1>1. TypeOK
  <2>1. 0 \in 0 .. UidLimit - 1 /\ 4 \in 0 .. UidLimit - 1 /\ 0 \in 0 .. MaxEvents
    OBVIOUS
  <2>2. [e \in Events |-> [ts |-> 0, uid |-> 0]] \in [Events -> [ts : Nat, uid : 0 .. UidLimit - 1]]
    BY <2>1
  <2>3. /\ withContext \in Seq([event : Events, delay : Delays])
        /\ taken \in Seq([event : Events, delay : Delays])
        /\ destroyEvents \in Seq(Events)
    BY EmptySeq DEF Init
  <2>4. /\ pc \in {"outside", "check", "swap", "insert", "loop", "event", "destroy", "end"}
        /\ stop \in BOOLEAN /\ contextEmpty \in BOOLEAN
        /\ ids \subseteq Events /\ queue \subseteq Events /\ cancelled \subseteq Events /\ ran \subseteq Events
    BY DEF Init
  <2>5. /\ created \in 0 .. MaxEvents /\ now \in Nat /\ currentUid \in 0 .. UidLimit - 1
        /\ uid \in 0 .. UidLimit - 1 /\ unscheduled \in Nat
        /\ key \in [Events -> [ts : Nat, uid : 0 .. UidLimit - 1]]
    BY <2>1, <2>2 DEF Init
  <2> QED
    BY <2>3, <2>4, <2>5 DEF TypeOK
<1>2. UidInv /\ PostedInv /\ DestroyInv /\ FlagTruthful
  BY DEF Init, UidInv, PostedInv, Fresh, DestroyInv, FlagTruthful
<1>3. QueueInv
  BY FS_EmptySet DEF Init, QueueInv
<1> QED
  BY <1>1, <1>2, <1>3 DEF IInv

\* Steps that touch neither the keys, the queue, the posted events nor the calls.
LEMMA QuietIInv ==
  ASSUME IInv, pc # "end",
         pc' \in {"outside", "check", "swap", "loop", "event", "destroy"}, pc # "insert",
         stop' \in BOOLEAN,
         UNCHANGED <<created, key, ids, queue, loopVars, uid, unscheduled, cancelled,
                     contextVars, destroyEvents>>
  PROVE  IInv'
<1>1. UNCHANGED <<created, key, ids, queue, now, currentUid, ran, uid, unscheduled, cancelled,
                  withContext, contextEmpty, taken, destroyEvents>>
  BY DEF loopVars, contextVars
<1>2. TypeOK'
  BY <1>1 DEF IInv, TypeOK
<1>3. UidInv' /\ DestroyInv' /\ FlagTruthful'
  BY <1>1 DEF IInv, UidInv, DestroyInv, FlagTruthful
<1>4. PostedInv'
  BY <1>1 DEF IInv, PostedInv, Fresh
<1>5. QueueInv'
  BY <1>1 DEF IInv, QueueInv, Later
<1> QED
  BY <1>2, <1>3, <1>4, <1>5 DEF IInv

LEMMA CheckIInv ==
  ASSUME IInv, Check \/ EventReturns \/ RunReturns \/ Run \/ Stop
  PROVE  IInv'
<1>1. /\ pc \in {"outside", "check", "loop", "event", "destroy"}
      /\ pc' \in {"outside", "check", "swap", "loop", "event", "destroy"}
      /\ stop' \in BOOLEAN
      /\ UNCHANGED <<created, key, ids, queue, loopVars, uid, unscheduled, cancelled,
                     contextVars, destroyEvents>>
  <2>1. stop \in BOOLEAN
    BY DEF IInv, TypeOK
  <2>2. CASE Check
    BY <2>1, <2>2 DEF Check
  <2>3. CASE EventReturns
    BY <2>1, <2>3 DEF EventReturns
  <2>4. CASE RunReturns
    BY <2>1, <2>4 DEF RunReturns
  <2>5. CASE Run
    BY <2>5 DEF Run
  <2>6. CASE Stop
    BY <2>6 DEF Stop, UserCode
  <2> QED
    BY <2>2, <2>3, <2>4, <2>5, <2>6
<1>2. pc # "end" /\ pc # "insert"
  BY <1>1
<1> QED
  BY <1>1, <1>2, QuietIInv

LEMMA CancelIInv ==
  ASSUME IInv, NEW e \in Events, Cancel(e)
  PROVE  IInv'
<1>1. /\ pc \in {"outside", "event", "destroy"} /\ cancelled' = cancelled \cup {e}
      /\ UNCHANGED <<pc, created, key, ids, queue, now, currentUid, ran, uid, unscheduled, stop,
                     withContext, contextEmpty, taken, destroyEvents>>
  BY DEF Cancel, UserCode, loopVars, contextVars
<1>2. TypeOK'
  BY <1>1 DEF IInv, TypeOK
<1>3. UidInv' /\ DestroyInv' /\ FlagTruthful'
  BY <1>1 DEF IInv, UidInv, DestroyInv, FlagTruthful
<1>4. PostedInv'
  BY <1>1 DEF IInv, PostedInv, Fresh
<1>5. QueueInv'
  BY <1>1 DEF IInv, QueueInv, Later
<1> QED
  BY <1>2, <1>3, <1>4, <1>5 DEF IInv

\* The posted events are other events than a new one.
LEMMA FreshAfterNew ==
  ASSUME TypeOK, NEW list \in Seq(Posts), Fresh(list), created' = created + 1,
         queue' \cup ids' \subseteq queue \cup ids \cup {created + 1}
  PROVE  \A i \in 1 .. Len(list) :
           /\ list[i].event <= created' /\ list[i].event # created + 1
           /\ list[i].event \notin queue' \cup ids'
           /\ \A j \in 1 .. Len(list) : list[i].event = list[j].event => i = j
<1> TAKE i \in 1 .. Len(list)
<1>1. list[i] \in Posts
  BY ElementOfSeq
<1>2. /\ list[i].event <= created /\ list[i].event \notin queue \cup ids
      /\ list[i].event \in Nat
      /\ \A j \in 1 .. Len(list) : list[i].event = list[j].event => i = j
  BY <1>1 DEF Fresh, Posts, Events
<1>3. created \in Nat
  BY DEF TypeOK
<1>4. list[i].event # created + 1 /\ list[i].event <= created'
  BY <1>2, <1>3
<1> QED
  BY <1>2, <1>4

\* The calls of the program in which an event gets created.
LEMMA ScheduleIInv ==
  ASSUME IInv, NEW d \in Delays, Schedule(d)
  PROVE  IInv'
<1> DEFINE e == created + 1
<1>1. /\ TypeOK /\ pc \in {"outside", "event", "destroy"} /\ created < MaxEvents /\ created' = e
      /\ Insert(e, d) /\ ids' = ids \cup {e}
      /\ UNCHANGED <<pc, now, currentUid, ran, stop, cancelled, withContext, contextEmpty, taken,
                     destroyEvents>>
  BY DEF IInv, Schedule, UserCode, loopVars, contextVars
<1>2. /\ created \in Nat /\ MaxEvents \in Nat /\ e \in Events /\ uid \in Nat
      /\ taken \in Seq(Posts) /\ withContext \in Seq(Posts)
      /\ Len(taken) \in Nat /\ Len(withContext) \in Nat
  <2>1. created \in Nat /\ MaxEvents \in Nat /\ uid \in Nat
        /\ taken \in Seq(Posts) /\ withContext \in Seq(Posts)
    BY <1>1, UidAssumption DEF TypeOK, Posts
  <2> QED
    BY <1>1, <2>1, LenProperties DEF Events
<1>3. uid + 1 < UidLimit
  BY <1>1, <1>2, UidAssumption DEF IInv, UidInv, VALID
<1>4. e \notin queue /\ e \notin ids
  BY <1>2 DEF IInv, QueueInv
<1> HIDE DEF e
<1>5. /\ key' \in [Events -> Keys]
      /\ \A f \in Events : f # e => key'[f] = key[f]
      /\ uid' = uid + 1 /\ uid' \in 0 .. UidLimit - 1
      /\ unscheduled' = unscheduled + 1
      /\ queue' = queue \cup {e}
  BY <1>1, <1>2, <1>3, InsertFacts
<1>6. TypeOK'
  <2>1. created' \in 0 .. MaxEvents
    BY <1>1, <1>2 DEF e
  <2> QED
    BY <1>1, <1>2, <1>5, <2>1 DEF TypeOK, Keys
<1>7. UidInv'
  BY <1>1, <1>2, <1>5 DEF IInv, UidInv, e, VALID, TypeOK
<1>8. PostedInv'
  <2>1. queue' \cup ids' \subseteq queue \cup ids \cup {created + 1} /\ created' = created + 1
    BY <1>1, <1>5 DEF e
  <2>2. Fresh(taken)' /\ Fresh(withContext)'
    <3>1. Fresh(taken) /\ Fresh(withContext)
      BY DEF IInv, PostedInv
    <3>2. /\ \A i \in 1 .. Len(taken) :
               /\ taken[i].event <= created'
               /\ taken[i].event \notin queue' \cup ids'
               /\ \A j \in 1 .. Len(taken) : taken[i].event = taken[j].event => i = j
          /\ \A i \in 1 .. Len(withContext) :
               /\ withContext[i].event <= created'
               /\ withContext[i].event \notin queue' \cup ids'
               /\ \A j \in 1 .. Len(withContext) : withContext[i].event = withContext[j].event => i = j
      BY <1>1, <1>2, <2>1, <3>1, FreshAfterNew
    <3> QED
      BY <1>1, <3>2 DEF Fresh
  <2> QED
    BY <1>1, <2>2 DEF IInv, PostedInv
<1>9. QueueInv'
  <2>1. e <= created' /\ created' \in {created, created + 1}
    BY <1>1, <1>2 DEF e
  <2> QED
    BY <1>1, <1>2, <1>3, <1>4, <2>1, InsertQueueInv
<1>10. DestroyInv'
  BY <1>1, <1>4, <1>5 DEF IInv, DestroyInv, TypeOK
<1>11. FlagTruthful'
  BY <1>1 DEF IInv, FlagTruthful
<1> QED
  BY <1>6, <1>7, <1>8, <1>9, <1>10, <1>11 DEF IInv

LEMMA PostIInv ==
  ASSUME IInv, NEW d \in Delays, Post(d)
  PROVE  IInv'
<1> DEFINE e == created + 1
           p == [event |-> e, delay |-> d]
<1>1. /\ TypeOK /\ pc # "end" /\ created < MaxEvents /\ created' = e
      /\ withContext' = Append(withContext, p) /\ contextEmpty' = FALSE
      /\ UNCHANGED <<pc, key, ids, queue, now, currentUid, ran, uid, unscheduled, stop, cancelled,
                     taken, destroyEvents>>
  BY DEF IInv, Post, loopVars
<1>2. /\ created \in Nat /\ e \in Events /\ p \in Posts /\ uid \in Nat
      /\ taken \in Seq(Posts) /\ withContext \in Seq(Posts)
      /\ Len(taken) \in Nat /\ Len(withContext) \in Nat
  <2>1. created \in Nat /\ MaxEvents \in Nat /\ uid \in Nat
        /\ taken \in Seq(Posts) /\ withContext \in Seq(Posts)
    BY <1>1, UidAssumption DEF TypeOK, Posts
  <2> QED
    BY <1>1, <2>1, LenProperties DEF Events, Posts
<1>3. /\ withContext' \in Seq(Posts) /\ Len(withContext') = Len(withContext) + 1
      /\ \A i \in 1 .. Len(withContext) : withContext'[i] = withContext[i]
      /\ withContext'[Len(withContext) + 1].event = e
      /\ \A i \in 1 .. Len(withContext') : i \in 1 .. Len(withContext) \/ i = Len(withContext) + 1
  <2>1. /\ withContext' \in Seq(Posts) /\ Len(withContext') = Len(withContext) + 1
        /\ \A i \in 1 .. Len(withContext) : withContext'[i] = withContext[i]
        /\ withContext'[Len(withContext) + 1] = p
    BY <1>1, <1>2, AppendProperties
  <2> QED
    BY <1>2, <2>1
<1>4. created' \in 0 .. MaxEvents /\ e \notin queue \cup ids
  BY <1>1, <1>2, UidAssumption DEF IInv, QueueInv
<1>5. /\ \A i \in 1 .. Len(taken) :
           /\ taken[i].event <= created' /\ taken[i].event # e
           /\ taken[i].event \notin queue' \cup ids'
           /\ \A j \in 1 .. Len(taken) : taken[i].event = taken[j].event => i = j
      /\ \A i \in 1 .. Len(withContext) :
           /\ withContext[i].event <= created' /\ withContext[i].event # e
           /\ withContext[i].event \notin queue' \cup ids'
           /\ \A j \in 1 .. Len(withContext) : withContext[i].event = withContext[j].event => i = j
  BY <1>1, <1>2, FreshAfterNew DEF IInv, PostedInv
<1> HIDE DEF e, p
<1>6. TypeOK'
  BY <1>1, <1>3, <1>4 DEF TypeOK, Posts
<1>7. UidInv'
  <2>1. VALID <= uid /\ currentUid < uid /\ uid + Len(taken) + Len(withContext) <= VALID + created
    BY DEF IInv, UidInv
  <2>2. uid + Len(taken) + (Len(withContext) + 1) <= VALID + (created + 1)
    BY <1>2, <2>1 DEF VALID
  <2>3. created' = created + 1 /\ UNCHANGED <<uid, currentUid, taken>>
    BY <1>1 DEF e
  <2> QED
    BY <1>3, <2>1, <2>2, <2>3 DEF UidInv
<1>8. PostedInv'
  <2>1. e <= created'
    BY <1>1, <1>2 DEF e
  <2>2. Fresh(taken)'
    BY <1>1, <1>5 DEF Fresh
  <2>3. Fresh(withContext)'
    <3> SUFFICES ASSUME NEW i \in 1 .. Len(withContext')
                 PROVE  /\ withContext'[i].event <= created'
                        /\ withContext'[i].event \notin queue' \cup ids'
                        /\ \A j \in 1 .. Len(withContext') :
                             withContext'[i].event = withContext'[j].event => i = j
      BY DEF Fresh
    <3>1. CASE i \in 1 .. Len(withContext)
      BY <1>3, <1>5, <3>1
    <3>2. CASE i = Len(withContext) + 1
      BY <1>1, <1>3, <1>4, <1>5, <2>1, <3>2
    <3> QED
      BY <1>3, <3>1, <3>2
  <2>4. \A i \in 1 .. Len(taken) : \A j \in 1 .. Len(withContext') : taken[i].event # withContext'[j].event
    BY <1>3, <1>5 DEF IInv, PostedInv
  <2> QED
    BY <1>1, <2>2, <2>3, <2>4 DEF IInv, PostedInv
<1>9. QueueInv'
  <2>1. \A f \in queue \cup ids : f <= created'
    <3>1. \A f \in queue \cup ids : f <= created /\ f \in Nat
      BY <1>1 DEF IInv, QueueInv, TypeOK, Events
    <3> QED
      BY <1>1, <1>2, <3>1 DEF e
  <2> QED
    BY <1>1, <2>1 DEF IInv, QueueInv, Later
<1>10. DestroyInv' /\ FlagTruthful'
  BY <1>1 DEF IInv, DestroyInv, FlagTruthful
<1> QED
  BY <1>6, <1>7, <1>8, <1>9, <1>10 DEF IInv

LEMMA ScheduleDestroyIInv ==
  ASSUME IInv, ScheduleDestroy
  PROVE  IInv'
<1> DEFINE e == created + 1
<1>1. /\ TypeOK /\ pc \in {"outside", "event", "destroy"} /\ created < MaxEvents /\ created' = e
      /\ key' = [key EXCEPT ![e] = [ts |-> now, uid |-> DESTROY]]
      /\ uid' = (uid + 1) % UidLimit
      /\ ids' = ids \cup {e} /\ destroyEvents' = Append(destroyEvents, e)
      /\ UNCHANGED <<pc, queue, now, currentUid, ran, unscheduled, stop, cancelled, withContext,
                     contextEmpty, taken>>
  BY DEF IInv, ScheduleDestroy, UserCode, loopVars, contextVars
<1>2. /\ created \in Nat /\ e \in Events /\ uid \in Nat /\ key \in [Events -> Keys] /\ now \in Nat
      /\ taken \in Seq(Posts) /\ withContext \in Seq(Posts) /\ destroyEvents \in Seq(Events)
      /\ Len(taken) \in Nat /\ Len(withContext) \in Nat /\ Len(destroyEvents) \in Nat
  <2>1. created \in Nat /\ MaxEvents \in Nat /\ uid \in Nat /\ key \in [Events -> Keys] /\ now \in Nat
        /\ taken \in Seq(Posts) /\ withContext \in Seq(Posts) /\ destroyEvents \in Seq(Events)
    BY <1>1, UidAssumption DEF TypeOK, Posts, Keys
  <2> QED
    BY <1>1, <2>1, LenProperties DEF Events
<1>3. uid' = uid + 1 /\ uid' \in 0 .. UidLimit - 1 /\ created' \in 0 .. MaxEvents
  <2>1. uid + 1 < UidLimit
    BY <1>1, <1>2, UidAssumption DEF IInv, UidInv, VALID
  <2> QED
    BY <1>1, <1>2, <2>1, ModSmall, UidAssumption
<1>4. e \notin queue /\ e \notin ids
  BY <1>2 DEF IInv, QueueInv
<1>5. /\ \A i \in 1 .. Len(taken) :
           /\ taken[i].event <= created' /\ taken[i].event # e
           /\ taken[i].event \notin queue' \cup ids'
           /\ \A j \in 1 .. Len(taken) : taken[i].event = taken[j].event => i = j
      /\ \A i \in 1 .. Len(withContext) :
           /\ withContext[i].event <= created' /\ withContext[i].event # e
           /\ withContext[i].event \notin queue' \cup ids'
           /\ \A j \in 1 .. Len(withContext) : withContext[i].event = withContext[j].event => i = j
  BY <1>1, <1>2, FreshAfterNew DEF IInv, PostedInv
<1>6. /\ key' \in [Events -> Keys] /\ key'[e].uid = DESTROY
      /\ \A f \in Events : f # e => key'[f] = key[f]
  <2>1. [ts |-> now, uid |-> DESTROY] \in Keys
    BY <1>2, UidAssumption DEF Keys, DESTROY, VALID
  <2> QED
    BY <1>1, <1>2, <2>1
<1>7. /\ destroyEvents' \in Seq(Events) /\ Len(destroyEvents') = Len(destroyEvents) + 1
      /\ \A i \in 1 .. Len(destroyEvents) : destroyEvents'[i] = destroyEvents[i]
      /\ destroyEvents'[Len(destroyEvents) + 1] = e
  BY <1>1, <1>2, AppendProperties
<1> HIDE DEF e
<1>8. TypeOK'
  BY <1>1, <1>3, <1>2, <1>6, <1>7 DEF TypeOK, Keys
<1>9. UidInv'
  <2>1. /\ VALID <= uid /\ currentUid < uid
        /\ uid + Len(taken) + Len(withContext) <= VALID + created
    BY DEF IInv, UidInv
  <2>2. currentUid \in Nat
    BY <1>1, UidAssumption DEF TypeOK
  <2>3. created' = created + 1 /\ UNCHANGED <<currentUid, taken, withContext>>
    BY <1>1 DEF e
  <2>4. VALID <= uid + 1 /\ currentUid < uid + 1
    BY <1>2, <2>1, <2>2 DEF VALID
  <2>5. (uid + 1) + Len(taken) + Len(withContext) <= VALID + (created + 1)
    BY <1>2, <2>1 DEF VALID
  <2> QED
    BY <1>3, <2>3, <2>4, <2>5 DEF UidInv
<1>10. PostedInv'
  BY <1>1, <1>5 DEF IInv, PostedInv, Fresh
<1>11. QueueInv'
  <2>1. \A f \in queue' \cup ids' : f <= created'
    <3>1. \A f \in queue \cup ids : f <= created /\ f \in Nat
      BY <1>1 DEF IInv, QueueInv, TypeOK, Events
    <3> QED
      BY <1>1, <1>2, <3>1 DEF e
  <2>2. \A f \in queue \cup ids : key'[f] = key[f]
    BY <1>1, <1>4, <1>6 DEF TypeOK
  <2>3. ASSUME NEW f \in queue
        PROVE  VALID <= key'[f].uid /\ key'[f].uid < uid' /\ Later(f)'
    <3>1. VALID <= key[f].uid /\ key[f].uid < uid /\ Later(f) /\ key'[f] = key[f]
      BY <2>2 DEF IInv, QueueInv
    <3>2. key[f].uid \in Nat
      BY <1>1, UidAssumption DEF TypeOK
    <3>3. Later(f)'
      BY <1>1, <3>1 DEF Later
    <3> QED
      BY <1>2, <1>3, <3>1, <3>2, <3>3
  <2>4. ASSUME NEW f \in ids', key'[f].uid # DESTROY, f \notin queue' \cup cancelled' PROVE ~Later(f)'
    <3>1. f \in ids /\ key'[f] = key[f]
      BY <1>1, <1>6, <2>2, <2>4
    <3>2. ~Later(f)
      BY <1>1, <2>4, <3>1 DEF IInv, QueueInv
    <3> QED
      BY <1>1, <3>1, <3>2 DEF Later
  <2>5. \A f, g \in queue' : key'[f].uid = key'[g].uid => f = g
    BY <1>1, <2>2 DEF IInv, QueueInv
  <2>6. unscheduled' = Cardinality(queue')
    BY <1>1 DEF IInv, QueueInv
  <2> QED
    BY <1>1, <2>1, <2>3, <2>4, <2>5, <2>6 DEF QueueInv
<1>12. DestroyInv'
  <2> SUFFICES ASSUME NEW i \in 1 .. Len(destroyEvents')
               PROVE  destroyEvents'[i] \in ids' /\ key'[destroyEvents'[i]].uid = DESTROY
    BY DEF DestroyInv
  <2>1. CASE i \in 1 .. Len(destroyEvents)
    <3>1. destroyEvents[i] \in ids /\ key[destroyEvents[i]].uid = DESTROY /\ destroyEvents[i] \in Events
      BY <1>2, <2>1, ElementOfSeq DEF IInv, DestroyInv
    <3> QED
      BY <1>1, <1>4, <1>6, <1>7, <2>1, <3>1
  <2>2. CASE i = Len(destroyEvents) + 1
    BY <1>1, <1>6, <1>7, <2>2
  <2> QED
    BY <1>2, <1>7, <2>1, <2>2
<1>13. FlagTruthful'
  BY <1>1 DEF IInv, FlagTruthful
<1> QED
  BY <1>8, <1>9, <1>10, <1>11, <1>12, <1>13 DEF IInv

\* A destroy event is taken out, by Remove or by Destroy: the others stay what they are.
LEMMA FewerDestroyEvents ==
  ASSUME IInv, pc \in {"outside", "event", "destroy"}, pc' \in {"outside", "event", "destroy"},
         destroyEvents' \in Seq(Events),
         \A i \in 1 .. Len(destroyEvents') : \E j \in 1 .. Len(destroyEvents) : destroyEvents'[i] = destroyEvents[j],
         UNCHANGED <<created, key, ids, queue, loopVars, uid, unscheduled, stop, cancelled, contextVars>>
  PROVE  IInv'
<1>1. UNCHANGED <<created, key, ids, queue, now, currentUid, ran, uid, unscheduled, stop, cancelled,
                  withContext, contextEmpty, taken>>
  BY DEF loopVars, contextVars
<1>2. TypeOK'
  BY <1>1 DEF IInv, TypeOK
<1>3. UidInv' /\ FlagTruthful'
  BY <1>1 DEF IInv, UidInv, FlagTruthful
<1>4. PostedInv'
  BY <1>1 DEF IInv, PostedInv, Fresh
<1>5. QueueInv'
  BY <1>1 DEF IInv, QueueInv, Later
<1>6. DestroyInv'
  BY <1>1 DEF IInv, DestroyInv
<1> QED
  BY <1>2, <1>3, <1>4, <1>5, <1>6 DEF IInv

LEMMA RemoveDestroyEventIInv ==
  ASSUME IInv, NEW e \in Events, RemoveDestroyEvent(e)
  PROVE  IInv'
<1>1. /\ pc \in {"outside", "event", "destroy"} /\ pc' = pc
      /\ destroyEvents' = RemoveFirst(destroyEvents, e)
      /\ UNCHANGED <<created, key, ids, queue, loopVars, uid, unscheduled, stop, cancelled, contextVars>>
      /\ destroyEvents \in Seq(Events)
  BY DEF RemoveDestroyEvent, UserCode, IInv, TypeOK
<1>2. /\ destroyEvents' \in Seq(Events)
      /\ \A i \in 1 .. Len(destroyEvents') : \E j \in 1 .. Len(destroyEvents) : destroyEvents'[i] = destroyEvents[j]
  BY <1>1, RemoveFirstElements
<1> QED
  BY <1>1, <1>2, FewerDestroyEvents

LEMMA DestroyIInv ==
  ASSUME IInv, Destroy
  PROVE  IInv'
<1>1. /\ pc \in {"outside", "event", "destroy"} /\ pc' = "destroy"
      /\ destroyEvents' = IF destroyEvents = <<>> THEN <<>> ELSE Tail(destroyEvents)
      /\ UNCHANGED <<created, key, ids, queue, loopVars, uid, unscheduled, stop, cancelled, contextVars>>
      /\ destroyEvents \in Seq(Events)
  BY DEF Destroy, IInv, TypeOK
<1>2. /\ destroyEvents' \in Seq(Events)
      /\ \A i \in 1 .. Len(destroyEvents') : \E j \in 1 .. Len(destroyEvents) : destroyEvents'[i] = destroyEvents[j]
  <2>1. CASE destroyEvents = <<>>
    BY <1>1, <2>1
  <2>2. CASE destroyEvents # <<>>
    BY <1>1, <2>2, TailElements
  <2> QED
    BY <2>1, <2>2
<1> QED
  BY <1>1, <1>2, FewerDestroyEvents

\* IsExpired is exact before the end.
LEMMA ExpiredIffNotWaiting ==
  ASSUME IInv, pc # "end", NEW e \in ids
  PROVE  IsExpired(e) <=> ~Waits(e)
<1>1. /\ e \in Events /\ key[e].ts \in Nat /\ key[e].uid \in Nat /\ now \in Nat /\ currentUid \in Nat
      /\ Range(destroyEvents) = {destroyEvents[i] : i \in 1 .. Len(destroyEvents)}
  <2>1. /\ e \in Events /\ key[e] \in [ts : Nat, uid : 0 .. UidLimit - 1] /\ now \in Nat
        /\ currentUid \in 0 .. UidLimit - 1 /\ destroyEvents \in Seq(Events)
    BY DEF IInv, TypeOK
  <2> QED
    BY <2>1, RangeEquality, UidAssumption
<1>2. CASE key[e].uid = DESTROY
  <2>1. e \notin queue
    BY <1>1, <1>2 DEF IInv, QueueInv, DESTROY, VALID
  <2> QED
    BY <1>2, <2>1 DEF IsExpired, Waits
<1>3. CASE key[e].uid # DESTROY
  <2>1. e \notin Range(destroyEvents)
    BY <1>1, <1>3 DEF IInv, DestroyInv
  <2>2. IsExpired(e) <=> ~Later(e) \/ e \in cancelled
    BY <1>1, <1>3 DEF IsExpired, Later
  <2>3. /\ e \in queue => Later(e)
        /\ e \notin queue \cup cancelled => ~Later(e)
    BY <1>3 DEF IInv, QueueInv
  <2> QED
    BY <2>1, <2>2, <2>3 DEF Waits
<1> QED
  BY <1>2, <1>3

\* An event leaves the queue: the others keep their keys.
LEMMA LeaveCount ==
  ASSUME IInv, NEW e \in queue, queue' = queue \ {e}, unscheduled' = unscheduled - 1, pc # "end"
  PROVE  unscheduled' = Cardinality(queue') /\ unscheduled' \in Nat
<1>1. IsFiniteSet(queue) /\ unscheduled = Cardinality(queue)
  BY QueueFinite DEF IInv, QueueInv
<1>2. IsFiniteSet(queue \ {e}) /\ Cardinality(queue \ {e}) = Cardinality(queue) - 1
  BY <1>1, FS_RemoveElement
<1>3. Cardinality(queue \ {e}) \in Nat
  BY <1>2, FS_CardinalityType
<1> QED
  BY <1>1, <1>2, <1>3

LEMMA RemoveEventIInv ==
  ASSUME IInv, NEW e \in Events, RemoveEvent(e)
  PROVE  IInv'
<1>1. /\ TypeOK /\ pc \in {"outside", "event", "destroy"} /\ e \in ids /\ key[e].uid # DESTROY
      /\ ~IsExpired(e)
      /\ queue' = queue \ {e} /\ cancelled' = cancelled \cup {e} /\ unscheduled' = unscheduled - 1
      /\ UNCHANGED <<pc, created, key, ids, now, currentUid, ran, uid, stop, withContext,
                     contextEmpty, taken, destroyEvents>>
  BY DEF IInv, RemoveEvent, UserCode, loopVars, contextVars
<1>2. e \in queue
  <2>1. Waits(e)
    BY <1>1, ExpiredIffNotWaiting
  <2>2. e \notin Range(destroyEvents)
    <3>1. Range(destroyEvents) = {destroyEvents[i] : i \in 1 .. Len(destroyEvents)}
      BY <1>1, RangeEquality DEF TypeOK
    <3> QED
      BY <1>1, <3>1 DEF IInv, DestroyInv
  <2> QED
    BY <2>1, <2>2 DEF Waits
<1>3. unscheduled' = Cardinality(queue') /\ unscheduled' \in Nat
  BY <1>1, <1>2, LeaveCount
<1>4. TypeOK'
  BY <1>1, <1>3 DEF TypeOK
<1>5. UidInv' /\ DestroyInv' /\ FlagTruthful'
  BY <1>1 DEF IInv, UidInv, DestroyInv, FlagTruthful
<1>6. PostedInv'
  BY <1>1 DEF IInv, PostedInv, Fresh
<1>7. QueueInv'
  BY <1>1, <1>3 DEF IInv, QueueInv, Later
<1> QED
  BY <1>4, <1>5, <1>6, <1>7 DEF IInv

LEMMA SwapIInv ==
  ASSUME IInv, Swap
  PROVE  IInv'
<1>1. /\ TypeOK /\ pc = "swap" /\ pc' = "insert" /\ taken = <<>>
      /\ taken' = withContext /\ withContext' = <<>> /\ contextEmpty' = TRUE
      /\ UNCHANGED <<created, key, ids, queue, now, currentUid, ran, uid, unscheduled, stop,
                     cancelled, destroyEvents>>
  BY DEF IInv, PostedInv, Swap, loopVars
<1>2. TypeOK'
  BY <1>1, EmptySeq DEF TypeOK
<1>3. UidInv'
  <2>1. Len(taken) = 0 /\ Len(withContext') = 0 /\ Len(withContext) \in Nat
    BY <1>1, LenProperties DEF TypeOK
  <2>2. uid \in Nat
    BY <1>1, UidAssumption DEF TypeOK
  <2> QED
    BY <1>1, <2>1, <2>2 DEF IInv, UidInv
<1>4. PostedInv'
  BY <1>1 DEF IInv, PostedInv, Fresh
<1>5. QueueInv'
  BY <1>1 DEF IInv, QueueInv, Later
<1>6. DestroyInv' /\ FlagTruthful'
  BY <1>1 DEF IInv, DestroyInv, FlagTruthful
<1> QED
  BY <1>2, <1>3, <1>4, <1>5, <1>6 DEF IInv

LEMMA InsertTakenIInv ==
  ASSUME IInv, InsertTaken
  PROVE  IInv'
<1>1. /\ TypeOK /\ pc = "insert"
      /\ UNCHANGED <<created, ids, now, currentUid, ran, stop, cancelled, withContext, contextEmpty,
                     destroyEvents>>
      /\ taken \in Seq(Posts) /\ withContext \in Seq(Posts)
  BY DEF IInv, TypeOK, InsertTaken, loopVars, Posts
<1>2. CASE /\ taken = <<>> /\ pc' = "loop"
           /\ UNCHANGED <<key, queue, uid, unscheduled, taken>>
  <2>1. TypeOK'
    BY <1>1, <1>2 DEF TypeOK
  <2>2. UidInv' /\ DestroyInv' /\ FlagTruthful'
    BY <1>1, <1>2 DEF IInv, UidInv, DestroyInv, FlagTruthful
  <2>3. PostedInv'
    BY <1>1, <1>2 DEF IInv, PostedInv, Fresh
  <2>4. QueueInv'
    BY <1>1, <1>2 DEF IInv, QueueInv, Later
  <2> QED
    BY <2>1, <2>2, <2>3, <2>4 DEF IInv
<1>3. CASE /\ taken # <<>> /\ pc' = pc
           /\ Insert(Head(taken).event, Head(taken).delay)
           /\ taken' = RemoveFirst(taken, Head(taken))
  <2> DEFINE e == Head(taken).event
             d == Head(taken).delay
  <2>1. /\ Len(taken) \in Nat \ {0} /\ taken' \in Seq(Posts) /\ Len(taken') = Len(taken) - 1
        /\ \A i \in 1 .. Len(taken') : i + 1 \in 1 .. Len(taken) /\ taken'[i] = taken[i + 1]
        /\ Head(taken) = taken[1] /\ 1 \in 1 .. Len(taken) /\ taken[1] \in Posts
    <3>1. taken' = Tail(taken)
      BY <1>1, <1>3, RemoveHead
    <3>2. /\ Len(taken) \in Nat \ {0} /\ taken' \in Seq(Posts) /\ Len(taken') = Len(taken) - 1
          /\ \A i \in 1 .. Len(taken') : i + 1 \in 1 .. Len(taken) /\ taken'[i] = taken[i + 1]
      BY <1>1, <1>3, <3>1, TailElements
    <3>3. 1 \in 1 .. Len(taken) /\ Head(taken) = taken[1]
      BY <1>1, <3>2
    <3> QED
      BY <1>1, <3>2, <3>3, ElementOfSeq
  <2>2. e \in Events /\ d \in Delays /\ e = taken[1].event /\ Insert(e, d)
    BY <1>3, <2>1 DEF Posts
  <2>3. /\ e <= created /\ e \notin queue /\ e \notin ids
        /\ \A j \in 1 .. Len(taken) : e = taken[j].event => 1 = j
        /\ \A j \in 1 .. Len(withContext) : e # withContext[j].event
    BY <2>1, <2>2 DEF IInv, PostedInv, Fresh
  <2> HIDE DEF e, d
  <2>4. uid \in Nat /\ created \in Nat /\ Len(withContext) \in Nat /\ created <= MaxEvents
    BY <1>1, UidAssumption, LenProperties DEF TypeOK
  <2>5. uid + 1 < UidLimit
    BY <2>1, <2>4, UidAssumption DEF IInv, UidInv, VALID
  <2>6. /\ key' \in [Events -> Keys]
        /\ \A f \in Events : f # e => key'[f] = key[f]
        /\ uid' = uid + 1 /\ uid' \in 0 .. UidLimit - 1
        /\ unscheduled' = unscheduled + 1
        /\ queue' = queue \cup {e}
    BY <1>1, <2>2, <2>5, InsertFacts
  <2>7. TypeOK'
    <3>1. unscheduled' \in Nat /\ queue' \subseteq Events
      BY <1>1, <2>2, <2>6 DEF TypeOK
    <3>2. /\ key' \in [Events -> [ts : Nat, uid : 0 .. UidLimit - 1]]
          /\ taken' \in Seq([event : Events, delay : Delays])
      BY <2>1, <2>6 DEF Keys, Posts
    <3>3. uid' \in 0 .. UidLimit - 1 /\ pc' = "insert"
      BY <1>1, <1>3, <2>6
    <3> QED
      BY <1>1, <3>1, <3>2, <3>3 DEF TypeOK
  <2>8. UidInv'
    BY <1>1, <2>1, <2>4, <2>6 DEF IInv, UidInv, VALID, TypeOK
  <2>9. PostedInv'
    <3>1. \A i \in 1 .. Len(taken') : taken'[i].event = taken[i + 1].event /\ taken[i + 1].event # e
      <4> TAKE i \in 1 .. Len(taken')
      <4>1. i + 1 \in 1 .. Len(taken) /\ i + 1 # 1 /\ taken'[i] = taken[i + 1]
        BY <2>1
      <4> QED
        BY <2>3, <4>1
    <3>2. Fresh(taken)'
      <4> SUFFICES ASSUME NEW i \in 1 .. Len(taken')
                   PROVE  /\ taken'[i].event <= created'
                          /\ taken'[i].event \notin queue' \cup ids'
                          /\ \A j \in 1 .. Len(taken') : taken'[i].event = taken'[j].event => i = j
        BY DEF Fresh
      <4>1. /\ taken[i + 1].event <= created /\ taken[i + 1].event \notin queue \cup ids
            /\ \A j \in 1 .. Len(taken) : taken[i + 1].event = taken[j].event => i + 1 = j
        BY <2>1 DEF IInv, PostedInv, Fresh
      <4>2. \A j \in 1 .. Len(taken') : taken'[i].event = taken'[j].event => i = j
        <5> SUFFICES ASSUME NEW j \in 1 .. Len(taken'), taken'[i].event = taken'[j].event PROVE i = j
          OBVIOUS
        <5>1. j + 1 \in 1 .. Len(taken) /\ taken[i + 1].event = taken[j + 1].event
          BY <2>1, <3>1
        <5>2. i + 1 = j + 1
          BY <4>1, <5>1
        <5> QED
          BY <5>2
      <4> QED
        BY <1>1, <2>6, <3>1, <4>1, <4>2
    <3>3. Fresh(withContext)'
      BY <1>1, <2>3, <2>6 DEF IInv, PostedInv, Fresh
    <3>4. \A i \in 1 .. Len(taken') : \A j \in 1 .. Len(withContext') : taken'[i].event # withContext'[j].event
      BY <1>1, <2>1, <3>1 DEF IInv, PostedInv
    <3> QED
      BY <1>1, <1>3, <3>2, <3>3, <3>4 DEF PostedInv
  <2>10. QueueInv'
    <3>1. e <= created' /\ created' \in {created, created + 1} /\ ids' \in {ids, ids \cup {e}} /\ pc # "end"
      BY <1>1, <2>3
    <3> QED
      BY <1>1, <2>2, <2>3, <2>5, <3>1, InsertQueueInv
  <2>11. DestroyInv'
    BY <1>1, <2>3, <2>6 DEF IInv, DestroyInv, TypeOK
  <2>12. FlagTruthful'
    BY <1>1 DEF IInv, FlagTruthful
  <2> QED
    BY <2>7, <2>8, <2>9, <2>10, <2>11, <2>12 DEF IInv
<1> QED
  BY <1>2, <1>3 DEF InsertTaken, FirstTaken

\* The first event becomes the current one: those that wait are later than it, since
\* uids are different, and what is past stays past.
LEMMA ProcessOneEventIInv ==
  ASSUME IInv, NEW e \in Events, ProcessOneEvent(e)
  PROVE  IInv'
<1>1. /\ TypeOK /\ pc = "loop" /\ pc' \in {"check", "event"} /\ e \in queue
      /\ \A f \in queue : Precedes(e, f)
      /\ queue' = queue \ {e} /\ unscheduled' = unscheduled - 1
      /\ now' = key[e].ts /\ currentUid' = key[e].uid
      /\ ran' = ran \cup ({e} \ cancelled)
      /\ UNCHANGED <<created, key, ids, uid, stop, cancelled, withContext, contextEmpty, taken,
                     destroyEvents>>
  BY DEF IInv, ProcessOneEvent, contextVars
<1>2. \A f \in Events : key[f].ts \in Nat /\ key[f].uid \in 0 .. UidLimit - 1 /\ key[f].uid \in Nat
  BY <1>1, UidAssumption DEF TypeOK
<1>3. unscheduled' = Cardinality(queue') /\ unscheduled' \in Nat
  BY <1>1, LeaveCount
<1>4. TypeOK'
  BY <1>1, <1>2, <1>3 DEF TypeOK
<1>5. UidInv'
  BY <1>1 DEF IInv, UidInv, QueueInv
<1>6. PostedInv'
  BY <1>1 DEF IInv, PostedInv, Fresh
<1>7. QueueInv'
  <2>1. now \in Nat /\ currentUid \in Nat /\ Later(e) /\ queue \subseteq Events /\ ids \subseteq Events
    BY <1>1, UidAssumption DEF IInv, QueueInv, TypeOK
  <2>2. ASSUME NEW f \in queue' PROVE Later(f)'
    <3>1. f \in queue /\ f # e /\ f \in Events /\ Precedes(e, f)
      BY <1>1, <2>1
    <3>2. key[f].uid # key[e].uid
      BY <1>1, <3>1 DEF IInv, QueueInv
    <3> QED
      BY <1>1, <1>2, <3>1, <3>2 DEF Later, Precedes
  <2>3. ASSUME NEW f \in ids', key'[f].uid # DESTROY, f \notin queue' \cup cancelled' PROVE ~Later(f)'
    <3>1. f \in Events
      BY <1>1, <2>1
    <3>2. CASE f = e
      BY <1>1, <1>2, <3>1, <3>2 DEF Later
    <3>3. CASE f # e
      <4>1. ~Later(f)
        BY <1>1, <2>3, <3>3 DEF IInv, QueueInv
      <4> QED
        BY <1>1, <1>2, <2>1, <3>1, <4>1 DEF Later
    <3> QED
      BY <3>2, <3>3
  <2>4. /\ \A f \in queue' \cup ids' : f <= created'
        /\ \A f \in queue' : VALID <= key'[f].uid /\ key'[f].uid < uid'
        /\ \A f, g \in queue' : key'[f].uid = key'[g].uid => f = g
    BY <1>1 DEF IInv, QueueInv
  <2> QED
    BY <1>3, <2>2, <2>3, <2>4 DEF QueueInv
<1>8. DestroyInv' /\ FlagTruthful'
  BY <1>1 DEF IInv, DestroyInv, FlagTruthful
<1> QED
  BY <1>4, <1>5, <1>6, <1>7, <1>8 DEF IInv

LEMMA DisposeIInv ==
  ASSUME IInv, Dispose
  PROVE  IInv'
<1>1. /\ TypeOK /\ pc = "destroy" /\ pc' = "end" /\ queue' = {} /\ withContext' = <<>> /\ contextEmpty' = TRUE
      /\ UNCHANGED <<created, key, ids, now, currentUid, ran, uid, unscheduled, stop, cancelled, taken,
                     destroyEvents>>
  BY DEF IInv, Dispose, loopVars
<1>2. TypeOK'
  BY <1>1, EmptySeq DEF TypeOK
<1>3. UidInv'
  <2>1. Len(withContext') = 0 /\ Len(withContext) \in Nat /\ Len(taken) \in Nat
    BY <1>1, LenProperties DEF TypeOK
  <2>2. uid \in Nat /\ created \in Nat
    BY <1>1, UidAssumption DEF TypeOK
  <2> QED
    BY <1>1, <2>1, <2>2 DEF IInv, UidInv, VALID
<1>4. PostedInv'
  BY <1>1 DEF IInv, PostedInv, Fresh
<1>5. QueueInv'
  BY <1>1 DEF IInv, QueueInv
<1>6. DestroyInv' /\ FlagTruthful'
  BY <1>1 DEF IInv, DestroyInv, FlagTruthful
<1> QED
  BY <1>2, <1>3, <1>4, <1>5, <1>6 DEF IInv

LEMMA StutterIInv ==
  ASSUME IInv, UNCHANGED vars
  PROVE  IInv'
<1>1. UNCHANGED <<pc, created, key, ids, queue, now, currentUid, ran, uid, unscheduled, stop, cancelled,
                  withContext, contextEmpty, taken, destroyEvents>>
  BY DEF vars, loopVars, contextVars
<1>2. TypeOK' /\ UidInv' /\ DestroyInv' /\ FlagTruthful'
  BY <1>1 DEF IInv, TypeOK, UidInv, DestroyInv, FlagTruthful
<1>3. PostedInv' /\ QueueInv'
  BY <1>1 DEF IInv, PostedInv, Fresh, QueueInv, Later
<1> QED
  BY <1>2, <1>3 DEF IInv

LEMMA NextIInv == IInv /\ [Next]_vars => IInv'
<1> SUFFICES ASSUME IInv, [Next]_vars PROVE IInv'
  OBVIOUS
<1>1. CASE Check \/ EventReturns \/ RunReturns \/ Run \/ Stop
  BY <1>1, CheckIInv
<1>2. CASE Swap \/ InsertTaken
  BY <1>2, SwapIInv, InsertTakenIInv
<1>3. CASE ScheduleDestroy \/ Destroy \/ Dispose
  BY <1>3, ScheduleDestroyIInv, DestroyIInv, DisposeIInv
<1>4. ASSUME NEW e \in Events, ProcessOneEvent(e) PROVE IInv'
  BY <1>4, ProcessOneEventIInv
<1>5. ASSUME NEW d \in Delays, Schedule(d) \/ Post(d) PROVE IInv'
  BY <1>5, ScheduleIInv, PostIInv
<1>6. ASSUME NEW e \in Events, Cancel(e) \/ RemoveEvent(e) \/ RemoveDestroyEvent(e) PROVE IInv'
  BY <1>6, CancelIInv, RemoveEventIInv, RemoveDestroyEventIInv
<1>7. CASE UNCHANGED vars
  BY <1>7, StutterIInv
<1> QED
  BY <1>1, <1>2, <1>3, <1>4, <1>5, <1>6, <1>7 DEF Next

LEMMA Invariance == Spec => []IInv
  BY InitIInv, NextIInv, PTL DEF Spec
-----------------------------------------------------------------------------
(* Results.                                                                *)

\* The variables of the event loop keep their types; m_uid stays in 32 bits.
THEOREM TypeCorrect == Spec => []TypeOK
  BY Invariance, PTL DEF IInv

\* IsExpired (default-simulator-impl.cc 359-380) tells exactly whether an event still
\* waits, and m_unscheduledEvents is the length of the queue.
THEOREM ExpiryIsExact == Spec => []ExpiryExact
<1>1. IInv => ExpiryExact
  <2> SUFFICES ASSUME IInv, pc # "end"
               PROVE  (\A e \in ids : IsExpired(e) <=> ~Waits(e)) /\ unscheduled = Cardinality(queue)
    BY DEF ExpiryExact
  <2>1. \A e \in ids : IsExpired(e) <=> ~Waits(e)
    BY ExpiredIffNotWaiting
  <2>2. unscheduled = Cardinality(queue)
    BY DEF IInv, QueueInv
  <2> QED
    BY <2>1, <2>2
<1> QED
  BY <1>1, Invariance, PTL

\* While the flag read without the mutex (default-simulator-impl.cc 159) says that
\* nothing was posted, nothing was.
THEOREM FlagIsTruthful == Spec => []FlagTruthful
  BY Invariance, PTL DEF IInv

\* The key of e is less than that of f.
Before(e, f) == key[e].ts < key[f].ts \/ (key[e].ts = key[f].ts /\ key[e].uid < key[f].uid)

\* Time does not go back; an event that is notified was before all others in the queue;
\* an event that enters the queue is behind all others of its time, and they keep their
\* keys.
FifoStep ==
  /\ now <= now'
  /\ \A e \in ran' \ ran : e \in queue /\ \A f \in queue \ {e} : Before(e, f)
  /\ \A e \in queue' \ queue, f \in queue : key[f].uid < key'[e].uid
  /\ \A f \in queue \cap queue' : key'[f] = key[f]

\* A step that leaves time and the notified events, and the keys of what waits, alone.
LEMMA QuietFifo ==
  ASSUME IInv, now' = now, ran' = ran, queue' \subseteq queue, \A f \in queue : key'[f] = key[f]
  PROVE  FifoStep
<1>1. now \in Nat
  BY DEF IInv, TypeOK
<1> QED
  BY <1>1 DEF FifoStep

\* The uid of the event inserted is greater than all uids in the queue.
LEMMA InsertFifo ==
  ASSUME IInv, NEW e \in Events, e \notin queue, NEW d, Insert(e, d), now' = now, ran' = ran
  PROVE  FifoStep
<1>1. now \in Nat /\ key \in [Events -> [ts : Nat, uid : 0 .. UidLimit - 1]] /\ queue \subseteq Events
  BY DEF IInv, TypeOK
<1>2. key' = [key EXCEPT ![e] = [ts |-> now + d, uid |-> uid]] /\ queue' = queue \cup {e}
  BY DEF Insert
<1>3. key'[e].uid = uid /\ \A f \in queue : key'[f] = key[f]
  BY <1>1, <1>2
<1>4. \A f \in queue : key[f].uid < uid
  BY DEF IInv, QueueInv
<1> QED
  BY <1>1, <1>2, <1>3, <1>4 DEF FifoStep

LEMMA ProcessOneEventFifo ==
  ASSUME IInv, NEW e \in Events, ProcessOneEvent(e)
  PROVE  FifoStep
<1>1. /\ e \in queue /\ \A f \in queue : Precedes(e, f)
      /\ queue' = queue \ {e} /\ now' = key[e].ts /\ key' = key /\ ran' = ran \cup ({e} \ cancelled)
  BY DEF ProcessOneEvent
<1>2. now \in Nat /\ queue \subseteq Events /\ \A f \in queue : key[f].ts \in Nat /\ key[f].uid \in Nat
  <2>1. /\ now \in Nat /\ queue \subseteq Events
        /\ key \in [Events -> [ts : Nat, uid : 0 .. UidLimit - 1]]
    BY DEF IInv, TypeOK
  <2> QED
    BY <2>1, UidAssumption
<1>3. now <= now'
  BY <1>1, <1>2 DEF IInv, QueueInv, Later
<1>4. ASSUME NEW f \in queue \ {e} PROVE Before(e, f)
  <2>1. key[e].uid # key[f].uid
    BY <1>1 DEF IInv, QueueInv
  <2> QED
    BY <1>1, <1>2, <2>1 DEF Precedes, Before
<1> QED
  BY <1>1, <1>3, <1>4 DEF FifoStep

LEMMA NextFifo == IInv /\ [Next]_vars => [FifoStep]_vars
<1> SUFFICES ASSUME IInv, Next PROVE FifoStep
  OBVIOUS
<1>1. /\ created \in Nat /\ queue \subseteq Events /\ \A f \in queue : f <= created /\ f \in Nat
      /\ key \in [Events -> [ts : Nat, uid : 0 .. UidLimit - 1]]
  BY DEF IInv, TypeOK, QueueInv, Events
<1>2. CASE Check \/ EventReturns \/ RunReturns \/ Run \/ Stop
  BY <1>2, QuietFifo DEF Check, EventReturns, RunReturns, Run, Stop, loopVars
<1>3. CASE Swap \/ Destroy \/ Dispose
  BY <1>3, QuietFifo DEF Swap, Destroy, Dispose, loopVars
<1>4. CASE InsertTaken
  <2>1. now' = now /\ ran' = ran
    BY <1>4 DEF InsertTaken, loopVars
  <2>2. CASE UNCHANGED <<key, queue>>
    BY <2>1, <2>2, QuietFifo
  <2>3. CASE taken # <<>> /\ Insert(Head(taken).event, Head(taken).delay)
    <3>1. taken \in Seq([event : Events, delay : Delays]) /\ 1 \in 1 .. Len(taken) /\ Head(taken) = taken[1]
      <4>1. taken \in Seq([event : Events, delay : Delays])
        BY DEF IInv, TypeOK
      <4>2. Len(taken) \in Nat /\ Len(taken) # 0
        BY <2>3, <4>1, EmptySeq, LenProperties
      <4> QED
        BY <4>1, <4>2
    <3>2. Head(taken).event \in Events
      <4>1. taken[1] \in [event : Events, delay : Delays]
        BY <3>1, ElementOfSeq
      <4> QED
        BY <3>1, <4>1
    <3>3. Head(taken).event \notin queue
      BY <3>1 DEF IInv, PostedInv, Fresh
    <3> QED
      BY <2>1, <2>3, <3>2, <3>3, InsertFifo
  <2> QED
    BY <1>4, <2>2, <2>3 DEF InsertTaken, FirstTaken
<1>5. ASSUME NEW e \in Events, ProcessOneEvent(e) PROVE FifoStep
  BY <1>5, ProcessOneEventFifo
<1>6. ASSUME NEW d \in Delays, Schedule(d) PROVE FifoStep
  <2>1. created + 1 \in Events /\ created + 1 \notin queue
    BY <1>1, <1>6, UidAssumption DEF Schedule, Events
  <2>2. Insert(created + 1, d) /\ now' = now /\ ran' = ran
    BY <1>6 DEF Schedule, loopVars
  <2> QED
    BY <2>1, <2>2, InsertFifo
<1>7. ASSUME NEW d \in Delays, Post(d) PROVE FifoStep
  BY <1>7, QuietFifo DEF Post, loopVars
<1>8. ASSUME NEW e \in Events, Cancel(e) \/ RemoveEvent(e) \/ RemoveDestroyEvent(e) PROVE FifoStep
  BY <1>8, QuietFifo DEF Cancel, RemoveEvent, RemoveDestroyEvent, loopVars
<1>9. CASE ScheduleDestroy
  <2>1. /\ key' = [key EXCEPT ![created + 1] = [ts |-> now, uid |-> DESTROY]]
        /\ queue' = queue /\ now' = now /\ ran' = ran
    BY <1>9 DEF ScheduleDestroy, loopVars
  <2>2. created + 1 \notin queue
    BY <1>1
  <2>3. \A f \in queue : key'[f] = key[f]
    BY <1>1, <2>1, <2>2
  <2> QED
    BY <2>1, <2>3, QuietFifo
<1> QED
  BY <1>2, <1>3, <1>4, <1>5, <1>6, <1>7, <1>8, <1>9 DEF Next

\* "Events whose expiration time is the same modulo this accuracy are scheduled in FIFO
\* order" (simulator.h 58-61), for every number of events: every step of the event loop
\* keeps the order (FifoStep).
THEOREM FifoSteps == Spec => [][FifoStep]_vars
  BY Invariance, NextFifo, PTL DEF Spec
-----------------------------------------------------------------------------
(* The refinement of EventQueue.  The events in the queue, in the order of *)
(* their uids, are a sequence that every step extends at its end, shortens *)
(* by one element or leaves alone.  Line is the only such sequence, so it  *)
(* suffices to name the sequence after a step and to show that it has the  *)
(* properties (IsLine).                                                    *)

\* Line, for any queue and keys.
LineOf(Q, k) ==
  [i \in 1 .. Cardinality(Q) |->
     LET e == CHOOSE e \in Q : Cardinality({f \in Q : k[f].uid <= k[e].uid}) = i
     IN  [event |-> e, ts |-> k[e].ts]]

\* L lists the events of Q with their times, in the order of their uids.
IsLine(L, Q, k) ==
  /\ L \in Seq([event : Q, ts : Nat])
  /\ \A e \in Q : k[e].uid \in Nat
  /\ \A i \in 1 .. Len(L) : L[i].ts = k[L[i].event].ts
  /\ \A i, j \in 1 .. Len(L) : i < j => k[L[i].event].uid < k[L[j].event].uid
  /\ \A e \in Q : \E i \in 1 .. Len(L) : L[i].event = e

\* The first m events of such a list are m events.
LEMMA PrefixCount ==
  ASSUME NEW L, NEW Q, NEW k, IsLine(L, Q, k), NEW m \in 0 .. Len(L)
  PROVE  Cardinality({L[j].event : j \in 1 .. m}) = m
<1> DEFINE S == {L[j].event : j \in 1 .. m}
           F == [j \in 1 .. m |-> L[j].event]
<1>1. /\ Len(L) \in Nat /\ m \in Nat
      /\ \A i \in 1 .. Len(L) : L[i] \in [event : Q, ts : Nat]
  <2>1. L \in Seq([event : Q, ts : Nat])
    BY DEF IsLine
  <2>2. Len(L) \in Nat
    BY <2>1, LenProperties
  <2>3. \A i \in 1 .. Len(L) : L[i] \in [event : Q, ts : Nat]
    BY <2>1, ElementOfSeq
  <2> QED
    BY <2>2, <2>3
<1>2. \A i, j \in 1 .. m : L[i].event = L[j].event => i = j
  <2> SUFFICES ASSUME NEW i \in 1 .. m, NEW j \in 1 .. m, L[i].event = L[j].event, i < j \/ j < i
               PROVE  FALSE
    BY <1>1
  <2>1. i \in 1 .. Len(L) /\ j \in 1 .. Len(L)
    BY <1>1
  <2>2. k[L[i].event].uid \in Nat /\ k[L[j].event].uid \in Nat
    BY <1>1, <2>1 DEF IsLine
  <2>3. k[L[i].event].uid < k[L[j].event].uid \/ k[L[j].event].uid < k[L[i].event].uid
    BY <2>1 DEF IsLine
  <2> QED
    BY <2>2, <2>3
<1>3. F \in [1 .. m -> S] /\ \A j \in 1 .. m : F[j] = L[j].event
  OBVIOUS
<1>4. \A t \in S : \E j \in 1 .. m : F[j] = t
  BY <1>3
<1>5. \A i, j \in 1 .. m : F[i] = F[j] => i = j
  BY <1>2, <1>3
<1> HIDE DEF S, F
<1>6. F \in Bijection(1 .. m, S)
  BY <1>3, <1>4, <1>5 DEF Bijection, Injection, Surjection, IsInjective
<1>7. ExistsBijection(1 .. m, S)
  BY <1>6 DEF ExistsBijection
<1> QED
  BY <1>1, <1>7, FS_CountingElements DEF S

\* There is one such list.
LEMMA LineUnique ==
  ASSUME NEW L, NEW Q, NEW k, IsLine(L, Q, k)
  PROVE  LineOf(Q, k) = L
<1> DEFINE n == Len(L)
           Rank(e) == Cardinality({f \in Q : k[f].uid <= k[e].uid})
<1>1. /\ n \in Nat
      /\ L \in [1 .. n -> [event : Q, ts : Nat]]
  <2>1. L \in Seq([event : Q, ts : Nat])
    BY DEF IsLine
  <2> QED
    BY <2>1, LenProperties
<1> HIDE DEF n
<1>2. \A i \in 1 .. n : /\ L[i].event \in Q /\ k[L[i].event].uid \in Nat
                        /\ L[i] = [event |-> L[i].event, ts |-> k[L[i].event].ts]
  BY <1>1 DEF IsLine, n
<1>3. \A i, j \in 1 .. n : k[L[j].event].uid <= k[L[i].event].uid <=> j <= i
  <2> TAKE i, j \in 1 .. n
  <2>1. /\ i < j => k[L[i].event].uid < k[L[j].event].uid
        /\ j < i => k[L[j].event].uid < k[L[i].event].uid
    BY DEF IsLine, n
  <2>2. i \in Nat /\ j \in Nat /\ k[L[i].event].uid \in Nat /\ k[L[j].event].uid \in Nat
    BY <1>1, <1>2
  <2>3. CASE i < j
    BY <2>1, <2>2, <2>3
  <2>4. CASE j < i
    BY <2>1, <2>2, <2>4
  <2>5. CASE i = j
    BY <2>2, <2>5
  <2> QED
    BY <2>2, <2>3, <2>4, <2>5
<1>4. \A e \in Q : \E i \in 1 .. n : L[i].event = e
  BY DEF IsLine, n
<1>5. Cardinality(Q) = n
  <2>1. Q = {L[j].event : j \in 1 .. n}
    BY <1>2, <1>4
  <2> QED
    BY <1>1, <2>1, PrefixCount DEF n
<1>6. ASSUME NEW i \in 1 .. n PROVE Rank(L[i].event) = i
  <2>1. {f \in Q : k[f].uid <= k[L[i].event].uid} = {L[j].event : j \in 1 .. i}
    <3>1. ASSUME NEW f \in Q, k[f].uid <= k[L[i].event].uid
          PROVE  \E j \in 1 .. i : f = L[j].event
      <4>1. PICK j \in 1 .. n : L[j].event = f
        BY <1>4
      <4>2. j <= i
        BY <1>3, <3>1, <4>1
      <4> QED
        BY <1>1, <4>1, <4>2
    <3>2. ASSUME NEW j \in 1 .. i
          PROVE  L[j].event \in Q /\ k[L[j].event].uid <= k[L[i].event].uid
      <4>1. j \in 1 .. n /\ j <= i
        BY <1>1
      <4> QED
        BY <1>2, <1>3, <4>1
    <3> QED
      BY <3>1, <3>2
  <2>2. i \in 0 .. Len(L)
    BY <1>1 DEF n
  <2> QED
    BY <2>1, <2>2, PrefixCount
<1>7. ASSUME NEW i \in 1 .. n
      PROVE  (CHOOSE e \in Q : Rank(e) = i) = L[i].event
  <2>1. L[i].event \in Q /\ Rank(L[i].event) = i
    BY <1>2, <1>6
  <2>2. ASSUME NEW e \in Q, Rank(e) = i PROVE e = L[i].event
    <3>1. PICK j \in 1 .. n : L[j].event = e
      BY <1>4
    <3>2. j = i
      BY <1>6, <2>2, <3>1
    <3> QED
      BY <3>1, <3>2
  <2> HIDE DEF Rank
  <2> QED
    BY <2>1, <2>2
<1> DEFINE Element(i) == LET e == CHOOSE e \in Q : Rank(e) = i IN [event |-> e, ts |-> k[e].ts]
<1>8. ASSUME NEW i \in 1 .. n PROVE Element(i) = L[i]
  <2> HIDE DEF Rank
  <2> QED
    BY <1>2, <1>7
<1>9. LineOf(Q, k) = [i \in 1 .. n |-> Element(i)]
  BY <1>5, Zenon DEF LineOf
<1> HIDE DEF Rank, Element
<1>10. L = [i \in 1 .. n |-> L[i]]
  BY <1>1
<1> QED
  BY <1>8, <1>9, <1>10

\* Nothing waits.
LEMMA EmptyLine ==
  ASSUME NEW k
  PROVE  IsLine(<<>>, {}, k)
<1>1. <<>> \in Seq([event : {}, ts : Nat]) /\ Len(<<>>) = 0
  BY EmptySeq
<1> QED
  BY <1>1 DEF IsLine

\* An event with a greater uid comes to the end of the list.
LEMMA AppendLine ==
  ASSUME NEW L, NEW Q, NEW k, NEW k2, NEW e, IsLine(L, Q, k), e \notin Q,
         \A f \in Q : k2[f] = k[f] /\ k[f].uid < k2[e].uid,
         k2[e].ts \in Nat, k2[e].uid \in Nat
  PROVE  IsLine(Append(L, [event |-> e, ts |-> k2[e].ts]), Q \cup {e}, k2)
<1> DEFINE x == [event |-> e, ts |-> k2[e].ts]
           M == Append(L, x)
           n == Len(L)
           R == [event : Q, ts : Nat]
           R2 == [event : Q \cup {e}, ts : Nat]
<1>1. L \in Seq(R) /\ n \in Nat /\ L \in [1 .. n -> R]
  <2>1. L \in Seq(R)
    BY DEF IsLine
  <2> QED
    BY <2>1, LenProperties
<1>2. L \in Seq(R2) /\ x \in R2 /\ x.event = e /\ x.ts = k2[e].ts
  <2>1. R \subseteq R2
    OBVIOUS
  <2>2. L \in Seq(R2)
    BY <1>1, <2>1, SeqMonotonic
  <2> QED
    BY <2>2
<1>3. \A i \in 1 .. n : L[i].event \in Q /\ L[i].ts = k[L[i].event].ts
  BY <1>1 DEF IsLine
<1> HIDE DEF x, R, R2
<1>4. /\ M \in Seq(R2) /\ Len(M) = n + 1
      /\ \A i \in 1 .. n : M[i] = L[i]
      /\ M[n + 1] = x
  BY <1>2, AppendProperties
<1> HIDE DEF M
<1>5. \A i \in 1 .. Len(M) : i \in 1 .. n \/ i = n + 1
  BY <1>1, <1>4 DEF n
<1>6. \A f \in Q \cup {e} : k2[f].uid \in Nat
  BY DEF IsLine
<1>7. \A i \in 1 .. Len(M) : M[i].ts = k2[M[i].event].ts
  BY <1>2, <1>3, <1>4, <1>5
<1>8. ASSUME NEW i \in 1 .. Len(M), NEW j \in 1 .. Len(M), i < j
      PROVE  k2[M[i].event].uid < k2[M[j].event].uid
  <2>1. i \in 1 .. n
    BY <1>1, <1>4, <1>8
  <2>2. CASE j \in 1 .. n
    <3>1. k[L[i].event].uid < k[L[j].event].uid
      BY <1>8, <2>1, <2>2 DEF IsLine, n
    <3> QED
      BY <1>3, <1>4, <2>1, <2>2, <3>1
  <2>3. CASE j = n + 1
    BY <1>2, <1>3, <1>4, <2>1, <2>3
  <2> QED
    BY <1>5, <2>2, <2>3
<1>9. ASSUME NEW f \in Q \cup {e}
      PROVE  \E i \in 1 .. Len(M) : M[i].event = f
  <2>1. CASE f = e
    <3>1. n + 1 \in 1 .. Len(M)
      BY <1>1, <1>4
    <3> QED
      BY <1>2, <1>4, <2>1, <3>1
  <2>2. CASE f \in Q
    <3>1. PICK i \in 1 .. n : L[i].event = f
      BY <2>2 DEF IsLine, n
    <3>2. i \in 1 .. Len(M)
      BY <1>1, <1>4
    <3> QED
      BY <1>4, <3>1, <3>2
  <2> QED
    BY <2>1, <2>2
<1>10. IsLine(M, Q \cup {e}, k2)
  BY <1>4, <1>6, <1>7, <1>8, <1>9 DEF IsLine, R2
<1> QED
  BY <1>10 DEF M, x

\* What is left when the i-th element is taken out.
LEMMA RemoveAtElements ==
  ASSUME NEW S, NEW s \in Seq(S), NEW i \in 1 .. Len(s)
  PROVE  /\ RemoveAt(s, i) \in Seq(S)
         /\ Len(RemoveAt(s, i)) = Len(s) - 1
         /\ \A j \in 1 .. Len(s) - 1 :
              RemoveAt(s, i)[j] = IF j < i THEN s[j] ELSE s[j + 1]
<1> DEFINE a == SubSeq(s, 1, i - 1)
           b == SubSeq(s, i + 1, Len(s))
<1>1. Len(s) \in Nat /\ i \in Nat /\ 1 <= i /\ i <= Len(s)
  BY LenProperties
<1>2. a \in Seq(S) /\ Len(a) = i - 1 /\ \A j \in 1 .. i - 1 : a[j] = s[j]
  BY <1>1
<1>3. b \in Seq(S) /\ Len(b) = Len(s) - i /\ \A j \in 1 .. Len(s) - i : b[j] = s[i + j]
  BY <1>1
<1>4. RemoveAt(s, i) = a \o b
  BY DEF RemoveAt
<1> HIDE DEF a, b
<1>5. /\ a \o b \in Seq(S) /\ Len(a \o b) = Len(a) + Len(b)
      /\ \A j \in 1 .. Len(a) + Len(b) : (a \o b)[j] = IF j <= Len(a) THEN a[j] ELSE b[j - Len(a)]
  BY <1>2, <1>3, ConcatProperties
<1>6. ASSUME NEW j \in 1 .. Len(s) - 1
      PROVE  (a \o b)[j] = IF j < i THEN s[j] ELSE s[j + 1]
  <2>1. CASE j < i
    BY <1>1, <1>2, <1>3, <1>5, <2>1
  <2>2. CASE ~(j < i)
    <3>1. j \in 1 .. Len(a) + Len(b) /\ ~(j <= Len(a)) /\ j - Len(a) \in 1 .. Len(s) - i
      BY <1>1, <1>2, <1>3, <2>2
    <3>2. i + (j - Len(a)) = j + 1
      BY <1>1, <1>2
    <3>3. (a \o b)[j] = s[i + (j - Len(a))]
      BY <1>3, <1>5, <3>1
    <3> QED
      BY <2>2, <3>2, <3>3
  <2> QED
    BY <2>1, <2>2
<1> QED
  BY <1>1, <1>2, <1>3, <1>4, <1>5, <1>6

\* An event leaves the list, and the others keep their order.
LEMMA RemoveLine ==
  ASSUME NEW L, NEW Q, NEW k, IsLine(L, Q, k), NEW i \in 1 .. Len(L)
  PROVE  IsLine(RemoveAt(L, i), Q \ {L[i].event}, k)
<1> DEFINE M == RemoveAt(L, i)
           n == Len(L)
           R == [event : Q, ts : Nat]
           old(j) == IF j < i THEN j ELSE j + 1
<1>1. L \in Seq(R) /\ n \in Nat /\ L \in [1 .. n -> R] /\ i \in 1 .. n
  <2>1. L \in Seq(R)
    BY DEF IsLine
  <2> QED
    BY <2>1, LenProperties
<1>2. M \in Seq(R) /\ Len(M) = n - 1 /\ \A j \in 1 .. n - 1 : M[j] = L[old(j)]
  <2>1. /\ M \in Seq(R) /\ Len(M) = n - 1
        /\ \A j \in 1 .. n - 1 : M[j] = IF j < i THEN L[j] ELSE L[j + 1]
    <3> HIDE DEF R
    <3> QED
      BY <1>1, RemoveAtElements, Zenon
  <2>2. ASSUME NEW j \in 1 .. n - 1 PROVE M[j] = L[old(j)]
    <3> HIDE DEF M, n, R
    <3>1. M[j] = IF j < i THEN L[j] ELSE L[j + 1]
      BY <2>1
    <3> QED
      BY <3>1
  <2> QED
    BY <2>1, <2>2, Zenon
<1>3. \A j \in 1 .. n : L[j].event \in Q /\ k[L[j].event].uid \in Nat /\ L[j].ts = k[L[j].event].ts
  BY <1>1 DEF IsLine
<1>4. \A h, j \in 1 .. n : h < j => k[L[h].event].uid < k[L[j].event].uid
  BY DEF IsLine
<1> HIDE DEF M, n, R
<1>5. /\ \A j \in 1 .. n - 1 : old(j) \in 1 .. n /\ old(j) # i
      /\ \A h, j \in 1 .. n - 1 : h < j => old(h) < old(j)
      /\ \A j \in 1 .. n : j # i => \E h \in 1 .. n - 1 : old(h) = j
  <2>1. /\ \A j \in 1 .. n - 1 : old(j) \in 1 .. n /\ old(j) # i
        /\ \A h, j \in 1 .. n - 1 : h < j => old(h) < old(j)
    BY <1>1
  <2>2. ASSUME NEW j \in 1 .. n, j # i PROVE \E h \in 1 .. n - 1 : old(h) = j
    <3>1. CASE j < i
      <4>1. j \in 1 .. n - 1 /\ old(j) = j
        BY <1>1, <3>1
      <4> QED
        BY <4>1
    <3>2. CASE i < j
      <4>1. j - 1 \in 1 .. n - 1 /\ old(j - 1) = j
        BY <1>1, <3>2
      <4> QED
        BY <4>1
    <3> QED
      BY <1>1, <2>2, <3>1, <3>2
  <2> QED
    BY <2>1, <2>2
<1> HIDE DEF old
<1>6. \A j \in 1 .. n : j # i => L[j].event # L[i].event
  <2> TAKE j \in 1 .. n
  <2>1. j < i => k[L[j].event].uid < k[L[i].event].uid
    BY <1>1, <1>4
  <2>2. i < j => k[L[i].event].uid < k[L[j].event].uid
    BY <1>1, <1>4
  <2>3. k[L[i].event].uid \in Nat /\ k[L[j].event].uid \in Nat
    BY <1>1, <1>3
  <2> QED
    BY <1>1, <2>1, <2>2, <2>3
<1>7. \A j \in 1 .. n - 1 : /\ M[j].event \in Q \ {L[i].event} /\ M[j].ts \in Nat
                            /\ M[j] = [event |-> M[j].event, ts |-> M[j].ts]
                            /\ M[j].ts = k[M[j].event].ts
  <2>1. \A j \in 1 .. n - 1 : M[j] \in R
    BY <1>2, ElementOfSeq
  <2> TAKE j \in 1 .. n - 1
  <2>2. M[j] = L[old(j)] /\ old(j) \in 1 .. n /\ old(j) # i
    BY <1>2, <1>5
  <2>3. M[j].event \in Q \ {L[i].event} /\ M[j].ts = k[M[j].event].ts
    BY <1>3, <1>6, <2>2
  <2>4. M[j].ts \in Nat /\ M[j] = [event |-> M[j].event, ts |-> M[j].ts]
    BY <2>1 DEF R
  <2> QED
    BY <2>3, <2>4
<1>8. M \in Seq([event : Q \ {L[i].event}, ts : Nat])
  <2> DEFINE R2 == [event : Q \ {L[i].event}, ts : Nat]
  <2>1. M \in [1 .. Len(M) -> R2]
    <3>1. M \in [1 .. Len(M) -> R]
      BY <1>2, LenProperties
    <3> QED
      BY <1>2, <1>7, <3>1
  <2>2. Len(M) \in Nat
    BY <1>2, LenProperties
  <2> HIDE DEF R2
  <2>3. Seq(R2) = UNION {[1 .. m -> R2] : m \in Nat}
    BY SeqDef
  <2>4. M \in Seq(R2)
    BY <2>1, <2>2, <2>3
  <2> QED
    BY <2>4 DEF R2
<1>9. \A h, j \in 1 .. n - 1 : h < j => k[M[h].event].uid < k[M[j].event].uid
  BY <1>2, <1>4, <1>5
<1>10. ASSUME NEW f \in Q \ {L[i].event} PROVE \E j \in 1 .. n - 1 : M[j].event = f
  <2>1. PICK j \in 1 .. n : L[j].event = f
    BY DEF IsLine, n
  <2>2. PICK h \in 1 .. n - 1 : old(h) = j
    BY <1>5, <2>1
  <2> QED
    BY <1>2, <2>1, <2>2
<1>11. \A f \in Q \ {L[i].event} : k[f].uid \in Nat
  BY DEF IsLine
<1>12. IsLine(M, Q \ {L[i].event}, k)
  BY <1>2, <1>7, <1>8, <1>9, <1>10, <1>11 DEF IsLine
<1> QED
  BY <1>12 DEF M

\* The queue in the order of its uids, and only events with an EventId are cancelled.
LineInv == IsLine(Line, queue, key)
CancelInv == cancelled \subseteq ids

\* Every list of the next queue is its line.
LEMMA NextLine ==
  ASSUME NEW L, IsLine(L, queue', key')
  PROVE  Line' = L /\ LineInv'
<1>1. Line' = LineOf(queue', key')
  BY DEF Line, LineOf, Place
<1>2. Line' = L
  BY <1>1, LineUnique
<1> QED
  BY <1>2 DEF LineInv

\* The line is a sequence of events with their times.
LEMMA LineType ==
  ASSUME IInv, LineInv
  PROVE  /\ Line \in Seq([event : queue, ts : Nat]) /\ DOMAIN Line = 1 .. Len(Line) /\ Len(Line) \in Nat
         /\ \A i \in 1 .. Len(Line) : /\ Line[i].event \in queue
                                      /\ Line[i].ts = key[Line[i].event].ts
<1>1. Line \in Seq([event : queue, ts : Nat])
  BY DEF LineInv, IsLine
<1>2. DOMAIN Line = 1 .. Len(Line) /\ Len(Line) \in Nat
  BY <1>1, LenProperties
<1>3. \A i \in 1 .. Len(Line) : Line[i] \in [event : queue, ts : Nat]
  BY <1>1, ElementOfSeq
<1> QED
  BY <1>1, <1>2, <1>3 DEF LineInv, IsLine

\* A step that leaves the queue and its keys alone.
LEMMA SameLine ==
  ASSUME LineInv, queue' = queue, \A f \in queue : key'[f] = key[f]
  PROVE  Line' = Line /\ LineInv'
<1>1. IsLine(Line, queue, key')
  <2>1. Line \in Seq([event : queue, ts : Nat])
    BY DEF LineInv, IsLine
  <2>2. \A i \in 1 .. Len(Line) : Line[i] \in [event : queue, ts : Nat]
    BY <2>1, ElementOfSeq
  <2>3. \A i \in 1 .. Len(Line) : Line[i].event \in queue
    BY <2>2
  <2> QED
    BY <2>1, <2>3 DEF LineInv, IsLine
<1>2. IsLine(Line, queue', key')
  BY <1>1
<1> QED
  BY <1>2, NextLine

\* The event inserted comes to the end of the line.
LEMMA InsertLine ==
  ASSUME IInv, LineInv, NEW e \in Events, e \notin queue, NEW d \in Delays, Insert(e, d)
  PROVE  Line' = Append(Line, [event |-> e, ts |-> now + d]) /\ LineInv'
<1>1. /\ now \in Nat /\ d \in Nat /\ uid \in Nat /\ queue \subseteq Events
      /\ key \in [Events -> Keys]
  BY UidAssumption, DelaysAssumption DEF IInv, TypeOK, Keys
<1>2. key' = [key EXCEPT ![e] = [ts |-> now + d, uid |-> uid]] /\ queue' = queue \cup {e}
  BY DEF Insert
<1>3. /\ key'[e].uid = uid /\ key'[e].ts = now + d
      /\ \A f \in queue : key'[f] = key[f]
  BY <1>1, <1>2
<1>4. \A f \in queue : key[f].uid < uid
  BY DEF IInv, QueueInv
<1>5. now + d \in Nat
  BY <1>1
<1>6. IsLine(Append(Line, [event |-> e, ts |-> key'[e].ts]), queue \cup {e}, key')
  BY <1>1, <1>3, <1>4, <1>5, AppendLine DEF LineInv
<1>7. IsLine(Append(Line, [event |-> e, ts |-> now + d]), queue', key')
  BY <1>2, <1>3, <1>6
<1> QED
  BY <1>7, NextLine

\* An event that leaves the queue leaves the line.
LEMMA LeaveLine ==
  ASSUME IInv, LineInv, NEW e \in queue, queue' = queue \ {e}, key' = key
  PROVE  \E i \in 1 .. Len(Line) : Line[i].event = e /\ Line' = RemoveAt(Line, i) /\ LineInv'
<1>1. PICK i \in 1 .. Len(Line) : Line[i].event = e
  BY DEF LineInv, IsLine
<1>2. IsLine(RemoveAt(Line, i), queue \ {Line[i].event}, key)
  BY RemoveLine DEF LineInv
<1>3. IsLine(RemoveAt(Line, i), queue', key')
  BY <1>1, <1>2
<1>4. Line' = RemoveAt(Line, i) /\ LineInv'
  BY <1>3, NextLine
<1> QED
  BY <1>1, <1>4

\* A step that cancels nothing, and changes no key of what is cancelled.
LEMMA SameCancelled ==
  ASSUME CancelInv, cancelled' = cancelled, ids \subseteq ids', \A f \in ids : key'[f] = key[f]
  PROVE  (cancelled \ DestroyIds)' = cancelled \ DestroyIds /\ CancelInv'
<1>1. \A f \in cancelled : f \in DestroyIds' <=> f \in DestroyIds
  BY DEF CancelInv, DestroyIds
<1>2. cancelled' \ DestroyIds' = cancelled \ DestroyIds
  BY <1>1
<1>3. CancelInv'
  BY DEF CancelInv
<1> QED
  BY <1>2, <1>3

\* The invariant of the refinement, and what a step means for the abstract queue.
Refined ==
  /\ LineInv' /\ CancelInv'
  /\ [EQ!Next]_<<now, Line, taken \o withContext, cancelled \ DestroyIds, ran>>

\* Steps that the abstract queue does not see.
LEMMA QuietRefined ==
  ASSUME IInv, LineInv, CancelInv, now' = now, ran' = ran, queue' = queue, cancelled' = cancelled,
         ids \subseteq ids', \A f \in queue \cup ids : key'[f] = key[f],
         taken' \o withContext' = taken \o withContext
  PROVE  Refined
<1>1. Line' = Line /\ LineInv'
  BY SameLine
<1>2. (cancelled \ DestroyIds)' = cancelled \ DestroyIds /\ CancelInv'
  BY SameCancelled
<1> QED
  BY <1>1, <1>2 DEF Refined

\* The head and the tail of a concatenation.
LEMMA HeadTailConcat ==
  ASSUME NEW S, NEW s \in Seq(S), NEW t \in Seq(S), s # <<>>
  PROVE  s \o t # <<>> /\ Head(s \o t) = Head(s) /\ Tail(s \o t) = Tail(s) \o t
<1>1. /\ Len(s) \in Nat \ {0} /\ Len(t) \in Nat /\ Head(s) = s[1]
      /\ Tail(s) \in Seq(S) /\ Len(Tail(s)) = Len(s) - 1
      /\ \A i \in 1 .. Len(s) - 1 : Tail(s)[i] = s[i + 1]
  <2>1. Len(s) \in Nat \ {0} /\ Len(t) \in Nat
    BY TailElements, LenProperties
  <2> QED
    BY <2>1, TailElements
<1>2. /\ s \o t \in Seq(S) /\ Len(s \o t) = Len(s) + Len(t)
      /\ \A i \in 1 .. Len(s) + Len(t) : (s \o t)[i] = IF i <= Len(s) THEN s[i] ELSE t[i - Len(s)]
  BY ConcatProperties
<1>3. s \o t # <<>>
  BY <1>1, <1>2, EmptySeq
<1>4. Head(s \o t) = Head(s)
  <2>1. (s \o t)[1] = s[1]
    BY <1>1, <1>2
  <2> QED
    BY <1>1, <1>2, <1>3, <2>1
<1> DEFINE a == Tail(s \o t)
           b == Tail(s) \o t
<1>5. /\ a \in Seq(S) /\ Len(a) = Len(s) + Len(t) - 1
      /\ \A i \in 1 .. Len(a) : a[i] = (s \o t)[i + 1]
  BY <1>2, <1>3, TailElements
<1>6. /\ b \in Seq(S) /\ Len(b) = Len(s) - 1 + Len(t)
      /\ \A i \in 1 .. Len(b) : b[i] = IF i <= Len(s) - 1 THEN Tail(s)[i] ELSE t[i - (Len(s) - 1)]
  BY <1>1, ConcatProperties
<1> HIDE DEF a, b
<1>7. Len(a) = Len(b) /\ Len(a) \in Nat
  BY <1>1, <1>5, <1>6
<1>8. ASSUME NEW i \in 1 .. Len(a) PROVE a[i] = b[i]
  <2>1. i + 1 \in 1 .. Len(s) + Len(t) /\ a[i] = (s \o t)[i + 1] /\ i \in Nat /\ i >= 1
    BY <1>1, <1>5
  <2>2. CASE i <= Len(s) - 1
    <3>1. a[i] = s[i + 1]
      BY <1>1, <1>2, <2>1, <2>2
    <3>2. b[i] = Tail(s)[i] /\ i \in 1 .. Len(s) - 1
      BY <1>1, <1>6, <1>7, <2>1, <2>2
    <3> QED
      BY <1>1, <3>1, <3>2
  <2>3. CASE ~(i <= Len(s) - 1)
    <3>1. a[i] = t[(i + 1) - Len(s)]
      BY <1>1, <1>2, <2>1, <2>3
    <3>2. b[i] = t[i - (Len(s) - 1)]
      BY <1>6, <1>7, <2>3
    <3>3. (i + 1) - Len(s) = i - (Len(s) - 1)
      BY <1>1, <2>1
    <3> QED
      BY <3>1, <3>2, <3>3
  <2> QED
    BY <2>2, <2>3
<1>9. a = b
  BY <1>5, <1>6, <1>7, <1>8, SeqEqual
<1> QED
  BY <1>3, <1>4, <1>9 DEF a, b

\* The next event to be created is not known yet.
LEMMA NextEventUnknown ==
  ASSUME IInv, created < MaxEvents
  PROVE  created + 1 \in Events /\ created + 1 \notin queue \cup ids
<1>1. created \in Nat /\ MaxEvents \in Nat /\ \A f \in queue \cup ids : f <= created /\ f \in Nat
  BY UidAssumption DEF IInv, TypeOK, QueueInv, Events
<1> QED
  BY <1>1 DEF Events

LEMMA ScheduleRefined ==
  ASSUME IInv, LineInv, CancelInv, NEW d \in Delays, Schedule(d)
  PROVE  Refined
<1> DEFINE e == created + 1
<1>1. /\ created < MaxEvents /\ Insert(e, d) /\ ids' = ids \cup {e}
      /\ UNCHANGED <<now, ran, cancelled, taken, withContext>>
  BY DEF Schedule, loopVars, contextVars
<1>2. e \in Events /\ e \notin queue \cup ids
  BY <1>1, NextEventUnknown
<1>3. \A f \in ids : key'[f] = key[f]
  BY <1>1, <1>2 DEF Insert, IInv, TypeOK
<1> HIDE DEF e
<1>4. Line' = Append(Line, [event |-> e, ts |-> now + d]) /\ LineInv'
  BY <1>1, <1>2, InsertLine
<1>5. (cancelled \ DestroyIds)' = cancelled \ DestroyIds /\ CancelInv'
  BY <1>1, <1>3, SameCancelled
<1>6. EQ!Schedule(e, d)
  BY <1>1, <1>4, <1>5 DEF EQ!Schedule
<1>7. EQ!Next
  BY <1>2, <1>6 DEF EQ!Next
<1> QED
  BY <1>4, <1>5, <1>7 DEF Refined

LEMMA PostRefined ==
  ASSUME IInv, LineInv, CancelInv, NEW d \in Delays, Post(d)
  PROVE  Refined
<1> DEFINE r == [event |-> created + 1, delay |-> d]
<1>1. /\ created < MaxEvents /\ withContext' = Append(withContext, r)
      /\ UNCHANGED <<now, ran, cancelled, taken, queue, ids, key>>
  BY DEF Post, loopVars
<1>2. created + 1 \in Events
  BY <1>1, NextEventUnknown
<1>3. taken \in Seq(Posts) /\ withContext \in Seq(Posts) /\ r \in Posts
  BY <1>2 DEF IInv, TypeOK, Posts
<1> HIDE DEF r
<1>4. taken \o Append(withContext, r) = Append(taken \o withContext, r)
  BY <1>3
<1>5. Line' = Line /\ LineInv'
  BY <1>1, SameLine
<1>6. (cancelled \ DestroyIds)' = cancelled \ DestroyIds /\ CancelInv'
  BY <1>1, SameCancelled
<1>7. EQ!Post(created + 1, d)
  BY <1>1, <1>4, <1>5, <1>6 DEF EQ!Post, r
<1>8. EQ!Next
  BY <1>2, <1>7 DEF EQ!Next
<1> QED
  BY <1>5, <1>6, <1>8 DEF Refined

LEMMA ScheduleDestroyRefined ==
  ASSUME IInv, LineInv, CancelInv, ScheduleDestroy
  PROVE  Refined
<1>1. /\ created < MaxEvents /\ ids' = ids \cup {created + 1}
      /\ key' = [key EXCEPT ![created + 1] = [ts |-> now, uid |-> DESTROY]]
      /\ UNCHANGED <<now, ran, cancelled, taken, withContext, queue>>
  BY DEF ScheduleDestroy, loopVars, contextVars
<1>2. created + 1 \notin queue \cup ids
  BY <1>1, NextEventUnknown
<1>3. \A f \in queue \cup ids : key'[f] = key[f]
  BY <1>1, <1>2 DEF IInv, TypeOK
<1> QED
  BY <1>1, <1>3, QuietRefined

\* The posts in taken are before those in withContext.
LEMMA SwapRefined ==
  ASSUME IInv, LineInv, CancelInv, Swap
  PROVE  Refined
<1>1. /\ taken' = withContext /\ withContext' = <<>>
      /\ UNCHANGED <<now, ran, cancelled, queue, ids, key>>
  BY DEF Swap, loopVars
<1>2. taken = <<>> /\ withContext \in Seq(Posts)
  BY DEF IInv, PostedInv, TypeOK, Posts, Swap
<1>3. withContext \o <<>> = withContext /\ <<>> \o withContext = withContext
  BY <1>2, ConcatEmptySeq
<1>4. taken' \o withContext' = taken \o withContext
  BY <1>1, <1>2, <1>3
<1> QED
  BY <1>1, <1>4, QuietRefined

LEMMA InsertTakenRefined ==
  ASSUME IInv, LineInv, CancelInv, InsertTaken
  PROVE  Refined
<1>1. UNCHANGED <<now, ran, cancelled, ids, withContext>>
  BY DEF InsertTaken, loopVars
<1>2. CASE UNCHANGED <<key, queue, taken>>
  BY <1>1, <1>2, QuietRefined
<1>3. CASE /\ taken # <<>> /\ Insert(FirstTaken.event, FirstTaken.delay)
           /\ taken' = RemoveFirst(taken, FirstTaken)
  <2> DEFINE e == Head(taken).event
             d == Head(taken).delay
  <2>1. /\ taken \in Seq(Posts) /\ withContext \in Seq(Posts)
        /\ Len(taken) \in Nat \ {0} /\ Head(taken) = taken[1] /\ Head(taken) \in Posts
    <3>1. taken \in Seq(Posts) /\ withContext \in Seq(Posts)
      BY DEF IInv, TypeOK, Posts
    <3>2. Len(taken) \in Nat \ {0}
      BY <1>3, <3>1, TailElements
    <3>3. Head(taken) = taken[1] /\ taken[1] \in Posts
      BY <3>1, <3>2, ElementOfSeq
    <3> QED
      BY <3>1, <3>2, <3>3
  <2>2. e \in Events /\ d \in Delays /\ e \notin queue \cup ids
    <3>1. e \in Events /\ d \in Delays
      BY <2>1 DEF Posts
    <3>2. 1 \in 1 .. Len(taken)
      BY <2>1
    <3> QED
      BY <2>1, <3>1, <3>2 DEF IInv, PostedInv, Fresh
  <2>3. Insert(e, d) /\ taken' = Tail(taken)
    BY <1>3, <2>1, RemoveHead DEF FirstTaken
  <2>4. \A f \in ids : key'[f] = key[f]
    BY <2>2, <2>3 DEF Insert, IInv, TypeOK
  <2>5. Line' = Append(Line, [event |-> e, ts |-> now + d]) /\ LineInv'
    <3> HIDE DEF e, d
    <3> QED
      BY <2>2, <2>3, InsertLine
  <2>6. (cancelled \ DestroyIds)' = cancelled \ DestroyIds /\ CancelInv'
    BY <1>1, <2>4, SameCancelled
  <2> DEFINE p == taken \o withContext
  <2>7. p # <<>> /\ Head(p) = Head(taken) /\ Tail(p) = Tail(taken) \o withContext
    <3> HIDE DEF e, d
    <3> QED
      BY <1>3, <2>1, HeadTailConcat
  <2>8. EQ!Admit
    BY <1>1, <2>3, <2>5, <2>6, <2>7 DEF EQ!Admit
  <2>9. EQ!Next
    BY <2>8 DEF EQ!Next
  <2> QED
    BY <2>5, <2>6, <2>9 DEF Refined
<1> QED
  BY <1>2, <1>3 DEF InsertTaken

\* No event in the queue is a destroy event.
LEMMA QueueNotDestroy ==
  ASSUME IInv, NEW e \in queue
  PROVE  e \notin DestroyIds
<1>1. VALID <= key[e].uid
  BY DEF IInv, QueueInv
<1> QED
  BY <1>1 DEF DestroyIds, VALID, DESTROY

\* The event with the least key is the first of the earliest events in the line.
LEMMA ProcessOneEventRefined ==
  ASSUME IInv, LineInv, CancelInv, NEW e \in Events, ProcessOneEvent(e)
  PROVE  Refined
<1>1. /\ e \in queue /\ \A f \in queue : Precedes(e, f)
      /\ queue' = queue \ {e} /\ now' = key[e].ts /\ ran' = ran \cup ({e} \ cancelled)
      /\ UNCHANGED <<key, ids, cancelled, taken, withContext>>
  BY DEF ProcessOneEvent, contextVars
<1>2. PICK i \in 1 .. Len(Line) : Line[i].event = e /\ Line' = RemoveAt(Line, i) /\ LineInv'
  BY <1>1, LeaveLine
<1>3. /\ DOMAIN Line = 1 .. Len(Line) /\ Len(Line) \in Nat
      /\ \A j \in 1 .. Len(Line) : Line[j].event \in queue /\ Line[j].ts = key[Line[j].event].ts
  BY LineType
<1>4. \A f \in queue : key[f].uid \in Nat
  BY DEF LineInv, IsLine
<1>5. ASSUME NEW j \in 1 .. Len(Line)
      PROVE  Line[i].ts < Line[j].ts \/ (Line[i].ts = Line[j].ts /\ i <= j)
  <2>1. Precedes(e, Line[j].event) /\ Line[i].ts = key[e].ts /\ Line[j].ts = key[Line[j].event].ts
    BY <1>1, <1>2, <1>3
  <2>2. j < i => key[Line[j].event].uid < key[e].uid
    BY <1>2 DEF LineInv, IsLine
  <2>3. key[Line[j].event].uid \in Nat /\ key[e].uid \in Nat
    BY <1>1, <1>3, <1>4
  <2>4. i \in Nat /\ j \in Nat
    BY <1>3
  <2>5. key[e].uid <= key[Line[j].event].uid => i <= j
    BY <2>2, <2>3, <2>4
  <2> QED
    BY <2>1, <2>5 DEF Precedes
<1>6. EQ!IsNext(i)
  BY <1>3, <1>5 DEF EQ!IsNext
<1>7. (cancelled \ DestroyIds)' = cancelled \ DestroyIds /\ CancelInv'
  BY <1>1, SameCancelled
<1>8. ran' = ran \cup ({Line[i].event} \ (cancelled \ DestroyIds))
  BY <1>1, <1>2, QueueNotDestroy
<1>9. now' = Line[i].ts
  BY <1>1, <1>2, <1>3
<1>10. Line' = EQ!RemoveAt(Line, i)
  BY <1>2, Zenon DEF EQ!RemoveAt, RemoveAt
<1>11. (taken \o withContext)' = taken \o withContext
  BY <1>1
<1>12. EQ!RunNext(i)
  BY <1>6, <1>7, <1>8, <1>9, <1>10, <1>11 DEF EQ!RunNext
<1>13. EQ!Next
  BY <1>3, <1>12 DEF EQ!Next
<1> QED
  BY <1>2, <1>7, <1>13 DEF Refined

\* What Cancel and Remove find not expired, and no destroy event, is in the line.
LEMMA CancelRefined ==
  ASSUME IInv, LineInv, CancelInv, NEW e \in Events, Cancel(e)
  PROVE  Refined
<1>1. /\ e \in ids /\ ~IsExpired(e) /\ pc # "end" /\ cancelled' = cancelled \cup {e}
      /\ UNCHANGED <<now, ran, key, ids, queue, taken, withContext>>
  BY DEF Cancel, UserCode, loopVars, contextVars
<1>2. Line' = Line /\ LineInv'
  BY <1>1, SameLine
<1>3. CancelInv' /\ DestroyIds' = DestroyIds
  BY <1>1 DEF CancelInv, DestroyIds
<1>4. CASE key[e].uid = DESTROY
  <2>1. e \in DestroyIds
    BY <1>1, <1>4 DEF DestroyIds
  <2>2. (cancelled \ DestroyIds)' = cancelled \ DestroyIds
    BY <1>1, <1>3, <2>1
  <2> QED
    BY <1>1, <1>2, <1>3, <2>2 DEF Refined
<1>5. CASE key[e].uid # DESTROY
  <2>1. e \in queue
    <3>1. Waits(e)
      BY <1>1, ExpiredIffNotWaiting
    <3>2. e \notin Range(destroyEvents)
      <4>1. Range(destroyEvents) = {destroyEvents[i] : i \in 1 .. Len(destroyEvents)}
        BY RangeEquality DEF IInv, TypeOK
      <4> QED
        BY <1>5, <4>1 DEF IInv, DestroyInv
    <3> QED
      BY <3>1, <3>2 DEF Waits
  <2>2. PICK i \in 1 .. Len(Line) : Line[i].event = e
    BY <2>1 DEF LineInv, IsLine
  <2>3. e \notin DestroyIds
    BY <1>5 DEF DestroyIds
  <2>4. (cancelled \ DestroyIds)' = (cancelled \ DestroyIds) \cup {Line[i].event}
    BY <1>1, <1>3, <2>2, <2>3
  <2>5. EQ!Cancel(i)
    BY <1>1, <1>2, <2>4 DEF EQ!Cancel
  <2>6. EQ!Next
    BY <2>5, LineType DEF EQ!Next
  <2> QED
    BY <1>2, <1>3, <2>6 DEF Refined
<1> QED
  BY <1>4, <1>5

LEMMA RemoveEventRefined ==
  ASSUME IInv, LineInv, CancelInv, NEW e \in Events, RemoveEvent(e)
  PROVE  Refined
<1>1. /\ e \in ids /\ key[e].uid # DESTROY /\ ~IsExpired(e) /\ pc # "end"
      /\ queue' = queue \ {e} /\ cancelled' = cancelled \cup {e}
      /\ UNCHANGED <<now, ran, key, ids, taken, withContext>>
  BY DEF RemoveEvent, UserCode, loopVars, contextVars
<1>2. e \in queue /\ e \notin cancelled
  <2>1. Waits(e)
    BY <1>1, ExpiredIffNotWaiting
  <2>2. e \notin Range(destroyEvents)
    <3>1. Range(destroyEvents) = {destroyEvents[i] : i \in 1 .. Len(destroyEvents)}
      BY RangeEquality DEF IInv, TypeOK
    <3> QED
      BY <1>1, <3>1 DEF IInv, DestroyInv
  <2> QED
    BY <2>1, <2>2 DEF Waits
<1>3. PICK i \in 1 .. Len(Line) : Line[i].event = e /\ Line' = RemoveAt(Line, i) /\ LineInv'
  BY <1>1, <1>2, LeaveLine
<1>4. CancelInv' /\ DestroyIds' = DestroyIds /\ e \notin DestroyIds
  BY <1>1 DEF CancelInv, DestroyIds
<1>5. (cancelled \ DestroyIds)' = (cancelled \ DestroyIds) \cup {Line[i].event}
  BY <1>1, <1>3, <1>4
<1>6. Line[i].event \notin cancelled \ DestroyIds
  BY <1>2, <1>3
<1>7. Line' = EQ!RemoveAt(Line, i)
  BY <1>3, Zenon DEF EQ!RemoveAt, RemoveAt
<1>8. EQ!Withdraw(i)
  BY <1>1, <1>5, <1>6, <1>7 DEF EQ!Withdraw
<1>9. EQ!Next
  BY <1>8, LineType DEF EQ!Next
<1> QED
  BY <1>3, <1>4, <1>9 DEF Refined

LEMMA DisposeRefined ==
  ASSUME IInv, LineInv, CancelInv, Dispose
  PROVE  Refined
<1>1. /\ pc = "destroy" /\ queue' = {} /\ withContext' = <<>>
      /\ UNCHANGED <<now, ran, key, ids, cancelled, taken>>
  BY DEF Dispose, loopVars
<1>2. taken = <<>>
  BY <1>1 DEF IInv, PostedInv
<1>3. (taken \o withContext)' = <<>>
  <2>1. <<>> \in Seq(Posts)
    BY EmptySeq
  <2>2. <<>> \o <<>> = <<>>
    BY <2>1, ConcatEmptySeq
  <2> QED
    BY <1>1, <1>2, <2>2
<1>4. Line' = <<>> /\ LineInv'
  <2>1. IsLine(<<>>, queue', key')
    BY <1>1, EmptyLine
  <2> QED
    BY <2>1, NextLine
<1>5. (cancelled \ DestroyIds)' = cancelled \ DestroyIds /\ CancelInv'
  BY <1>1, SameCancelled
<1>6. EQ!Dispose
  BY <1>1, <1>3, <1>4, <1>5 DEF EQ!Dispose
<1>7. EQ!Next
  BY <1>6 DEF EQ!Next
<1> QED
  BY <1>4, <1>5, <1>7 DEF Refined

LEMMA NextRefined == IInv /\ LineInv /\ CancelInv /\ [Next]_vars => Refined
<1> SUFFICES ASSUME IInv, LineInv, CancelInv, [Next]_vars PROVE Refined
  OBVIOUS
<1>1. CASE Check \/ EventReturns \/ RunReturns \/ Run \/ Stop
  <2>1. UNCHANGED <<now, ran, queue, cancelled, ids, key, taken, withContext>>
    BY <1>1 DEF Check, EventReturns, RunReturns, Run, Stop, loopVars, contextVars
  <2> QED
    BY <2>1, QuietRefined
<1>2. CASE Swap \/ InsertTaken
  BY <1>2, SwapRefined, InsertTakenRefined
<1>3. CASE ScheduleDestroy \/ Dispose
  BY <1>3, ScheduleDestroyRefined, DisposeRefined
<1>4. ASSUME NEW e \in Events, ProcessOneEvent(e) PROVE Refined
  BY <1>4, ProcessOneEventRefined
<1>5. ASSUME NEW d \in Delays, Schedule(d) \/ Post(d) PROVE Refined
  BY <1>5, ScheduleRefined, PostRefined
<1>6. ASSUME NEW e \in Events, Cancel(e) \/ RemoveEvent(e) PROVE Refined
  BY <1>6, CancelRefined, RemoveEventRefined
<1>7. ASSUME Destroy \/ \E e \in Events : RemoveDestroyEvent(e) PROVE Refined
  <2>1. UNCHANGED <<now, ran, queue, cancelled, ids, key, taken, withContext>>
    BY <1>7 DEF Destroy, RemoveDestroyEvent, loopVars, contextVars
  <2> QED
    BY <2>1, QuietRefined
<1>8. CASE UNCHANGED vars
  <2>1. UNCHANGED <<now, ran, queue, cancelled, ids, key, taken, withContext>>
    BY <1>8 DEF vars, loopVars, contextVars
  <2> QED
    BY <2>1, QuietRefined
<1> QED
  BY <1>1, <1>2, <1>3, <1>4, <1>5, <1>6, <1>7, <1>8 DEF Next

LEMMA InitRefined == Init => LineInv /\ CancelInv /\ EQ!Init
<1> SUFFICES ASSUME Init PROVE LineInv /\ CancelInv /\ EQ!Init
  OBVIOUS
<1>1. queue = {} /\ taken = <<>> /\ withContext = <<>> /\ now = 0 /\ cancelled = {} /\ ran = {}
  BY DEF Init
<1>2. Line = <<>> /\ LineInv
  <2>1. IsLine(<<>>, queue, key)
    BY <1>1, EmptyLine
  <2>2. Line = LineOf(queue, key)
    BY DEF Line, LineOf, Place
  <2>3. Line = <<>>
    BY <2>1, <2>2, LineUnique
  <2> QED
    BY <2>1, <2>3 DEF LineInv
<1>3. taken \o withContext = <<>>
  <2>1. <<>> \in Seq(Posts)
    BY EmptySeq
  <2>2. <<>> \o <<>> = <<>>
    BY <2>1, ConcatEmptySeq
  <2> QED
    BY <1>1, <2>2
<1> QED
  BY <1>1, <1>2, <1>3 DEF CancelInv, EQ!Init

\* The event loop implements the abstract queue: "Events whose expiration time is the
\* same modulo this accuracy are scheduled in FIFO order" (simulator.h 58-61), for
\* every number of events, whatever they cancel, remove and schedule and whatever
\* other threads post.
THEOREM FifoImplemented == Spec => FifoOrder
<1>1. Init => LineInv /\ CancelInv /\ EQ!Init
  BY InitRefined
<1>2. IInv /\ LineInv /\ CancelInv /\ [Next]_vars =>
        /\ LineInv' /\ CancelInv'
        /\ [EQ!Next]_<<now, Line, taken \o withContext, cancelled \ DestroyIds, ran>>
  BY NextRefined DEF Refined
<1> QED
  BY <1>1, <1>2, Invariance, PTL DEF Spec, FifoOrder, EQ!Spec
=============================================================================
