--------------------------- MODULE DefaultSimulator ---------------------------
(***************************************************************************)
(* DefaultSimulatorImpl, the event loop under all coroutines: events with  *)
(* keys (time, uid) in the ordered map of MapScheduler, their cancelling   *)
(* and removal by EventId, Run, Stop, Destroy, and ScheduleWithContext     *)
(* from another thread, which leaves events in m_eventsWithContext behind  *)
(* a mutex and a flag that the loop reads without it.                      *)
(*                                                                         *)
(* The bodies of the events, and the program outside of Run, are arbitrary *)
(* sequences of calls.  An uid is 32 bits wide; the model is about the     *)
(* programs that create fewer events (UidAssumption).                      *)
(***************************************************************************)
EXTENDS Naturals, Integers, SequencesExt

CONSTANTS
  MaxEvents,  \* the number of events a program creates
  Delays,     \* the delays it schedules them with
  UidLimit    \* 2^32

\* EventId::UID: the first values are reserved.
INVALID == 0
DESTROY == 2
VALID == 4

ASSUME DelaysAssumption == Delays \subseteq Nat
ASSUME UidAssumption == MaxEvents \in Nat /\ UidLimit \in Nat /\ VALID + MaxEvents < UidLimit

Events == 1 .. MaxEvents

VARIABLES
  pc,             \* the main thread is "outside" of Run, in an "event", in "destroy" or at
                  \* the "end"; or at the "loop" of Run, or in ProcessEventsWithContext at
                  \* the "check" of the flag, at the "swap", at the "insert"
  created,        \* the number of events created so far
  key,            \* key[e]: the time and uid of event e
  ids,            \* the events whose EventId the program holds
  queue,          \* m_events
  now,            \* m_currentTs
  currentUid,     \* m_currentUid
  uid,            \* m_uid
  unscheduled,    \* m_unscheduledEvents
  stop,           \* m_stop
  cancelled,      \* the events with m_cancel
  ran,            \* the events that have been notified
  withContext,    \* m_eventsWithContext
  contextEmpty,   \* m_eventsWithContextEmpty
  taken,          \* the list ProcessEventsWithContext has swapped out
  destroyEvents   \* m_destroyEvents

loopVars == <<now, currentUid, ran>>
contextVars == <<withContext, contextEmpty, taken>>
vars == <<pc, created, key, ids, queue, loopVars, uid, unscheduled, stop, cancelled,
          contextVars, destroyEvents>>

Init ==
  /\ pc = "outside"
  /\ created = 0
  /\ key = [e \in Events |-> [ts |-> 0, uid |-> INVALID]]
  /\ ids = {}
  /\ queue = {}
  /\ now = 0
  /\ currentUid = INVALID
  /\ uid = VALID
  /\ unscheduled = 0
  /\ stop = FALSE
  /\ cancelled = {}
  /\ ran = {}
  /\ withContext = <<>>
  /\ contextEmpty = TRUE
  /\ taken = <<>>
  /\ destroyEvents = <<>>

\* The program runs: before, between and after runs, in an event, in a destroy event.
UserCode == pc \in {"outside", "event", "destroy"}
-----------------------------------------------------------------------------
(* Calls of the program.                                                   *)

\* Event e is inserted to run after a delay.
Insert(e, d) ==
  /\ key' = [key EXCEPT ![e] = [ts |-> now + d, uid |-> uid]]
  /\ uid' = (uid + 1) % UidLimit
  /\ unscheduled' = unscheduled + 1
  /\ queue' = queue \cup {e}

\* Schedule, ScheduleNow and Stop(delay), and ScheduleWithContext in the main thread.
Schedule(d) ==
  /\ UserCode
  /\ created < MaxEvents
  /\ created' = created + 1
  /\ Insert(created', d)
  /\ ids' = ids \cup {created'}
  /\ UNCHANGED <<pc, loopVars, stop, cancelled, contextVars, destroyEvents>>

\* ScheduleWithContext in another thread, at any time.
Post(d) ==
  /\ pc # "end"
  /\ created < MaxEvents
  /\ created' = created + 1
  /\ withContext' = Append(withContext, [event |-> created', delay |-> d])
  /\ contextEmpty' = FALSE
  /\ UNCHANGED <<pc, key, ids, queue, loopVars, uid, unscheduled, stop, cancelled, taken,
                 destroyEvents>>

\* The time of a destroy event is the current one, its uid is DESTROY.
ScheduleDestroy ==
  /\ UserCode
  /\ created < MaxEvents
  /\ created' = created + 1
  /\ key' = [key EXCEPT ![created'] = [ts |-> now, uid |-> DESTROY]]
  /\ uid' = (uid + 1) % UidLimit
  /\ ids' = ids \cup {created'}
  /\ destroyEvents' = Append(destroyEvents, created')
  /\ UNCHANGED <<pc, queue, loopVars, unscheduled, stop, cancelled, contextVars>>

\* Faulty variant: the running event is not expired.
IsExpiredStrict(e) ==
  IF key[e].uid = DESTROY THEN e \in cancelled \/ e \notin Range(destroyEvents)
  ELSE \/ key[e].ts < now
       \/ key[e].ts = now /\ key[e].uid < currentUid
       \/ e \in cancelled

IsExpired(e) ==
  IF key[e].uid = DESTROY THEN e \in cancelled \/ e \notin Range(destroyEvents)
  ELSE \/ key[e].ts < now
       \/ key[e].ts = now /\ key[e].uid <= currentUid
       \/ e \in cancelled

Cancel(e) ==
  /\ UserCode
  /\ e \in ids
  /\ ~IsExpired(e)
  /\ cancelled' = cancelled \cup {e}
  /\ UNCHANGED <<pc, created, key, ids, queue, loopVars, uid, unscheduled, stop, contextVars,
                 destroyEvents>>

RemoveDestroyEvent(e) ==
  /\ UserCode
  /\ e \in ids
  /\ key[e].uid = DESTROY
  /\ e \in Range(destroyEvents)
  /\ destroyEvents' = RemoveFirst(destroyEvents, e)
  /\ UNCHANGED <<pc, created, key, ids, queue, loopVars, uid, unscheduled, stop, cancelled,
                 contextVars>>

RemoveEvent(e) ==
  /\ UserCode
  /\ e \in ids
  /\ key[e].uid # DESTROY
  /\ ~IsExpired(e)
  /\ queue' = queue \ {e}
  /\ cancelled' = cancelled \cup {e}
  /\ unscheduled' = unscheduled - 1
  /\ UNCHANGED <<pc, created, key, ids, loopVars, uid, stop, contextVars, destroyEvents>>

Stop ==
  /\ UserCode
  /\ ~stop
  /\ stop' = TRUE
  /\ UNCHANGED <<pc, created, key, ids, queue, loopVars, uid, unscheduled, cancelled,
                 contextVars, destroyEvents>>
-----------------------------------------------------------------------------
(* The main thread.                                                        *)

\* Run, which looks at the events of other threads first.  m_stop is reset after that,
\* but nobody reads or sets it in between: other threads only post.
Run ==
  /\ pc = "outside"
  /\ pc' = "check"
  /\ stop' = FALSE
  /\ UNCHANGED <<created, key, ids, queue, loopVars, uid, unscheduled, cancelled, contextVars,
                 destroyEvents>>

\* The flag is read without the mutex.
Check ==
  /\ pc = "check"
  /\ pc' = IF contextEmpty THEN "loop" ELSE "swap"
  /\ UNCHANGED <<created, key, ids, queue, loopVars, uid, unscheduled, stop, cancelled,
                 contextVars, destroyEvents>>

\* Faulty variant: the flag is set again when the mutex has been released.
SwapUnlocked ==
  \/ /\ pc = "swap"
     /\ pc' = "insert"
     /\ taken' = withContext
     /\ withContext' = <<>>
     /\ UNCHANGED <<created, key, ids, queue, loopVars, uid, unscheduled, stop, cancelled,
                    contextEmpty, destroyEvents>>
  \/ /\ pc = "insert"
     /\ contextEmpty' = TRUE
     /\ UNCHANGED <<pc, created, key, ids, queue, loopVars, uid, unscheduled, stop, cancelled,
                    withContext, taken, destroyEvents>>

Swap ==
  /\ pc = "swap"
  /\ pc' = "insert"
  /\ taken' = withContext
  /\ withContext' = <<>>
  /\ contextEmpty' = TRUE
  /\ UNCHANGED <<created, key, ids, queue, loopVars, uid, unscheduled, stop, cancelled,
                 destroyEvents>>

\* Faulty variant: the list is emptied from its end.
FirstTakenLast == Last(taken)

FirstTaken == Head(taken)

\* The events taken from other threads are inserted, each relative to the current time.
InsertTaken ==
  /\ pc = "insert"
  /\ \/ /\ taken = <<>>
        /\ pc' = "loop"
        /\ UNCHANGED <<key, queue, uid, unscheduled, taken>>
     \/ /\ taken # <<>>
        /\ Insert(FirstTaken.event, FirstTaken.delay)
        /\ taken' = RemoveFirst(taken, FirstTaken)
        /\ UNCHANGED pc
  /\ UNCHANGED <<created, ids, loopVars, stop, cancelled, withContext, contextEmpty,
                 destroyEvents>>

\* Faulty variant: of the events of one time the last runs first.
PrecedesLifo(e, f) == key[e].ts < key[f].ts \/ (key[e].ts = key[f].ts /\ key[e].uid >= key[f].uid)

\* The order of the scheduler's map.
Precedes(e, f) == key[e].ts < key[f].ts \/ (key[e].ts = key[f].ts /\ key[e].uid <= key[f].uid)

\* ProcessOneEvent takes the first event; EventImpl::Invoke runs it unless it is cancelled.
ProcessOneEvent(e) ==
  /\ pc = "loop"
  /\ ~stop
  /\ e \in queue
  /\ \A f \in queue : Precedes(e, f)
  /\ queue' = queue \ {e}
  /\ unscheduled' = unscheduled - 1
  /\ now' = key[e].ts
  /\ currentUid' = key[e].uid
  /\ pc' = IF e \in cancelled THEN "check" ELSE "event"
  /\ ran' = ran \cup ({e} \ cancelled)
  /\ UNCHANGED <<created, key, ids, uid, stop, cancelled, contextVars, destroyEvents>>

\* The body of the event returns.
EventReturns ==
  /\ pc = "event"
  /\ pc' = "check"
  /\ UNCHANGED <<created, key, ids, queue, loopVars, uid, unscheduled, stop, cancelled,
                 contextVars, destroyEvents>>

RunReturns ==
  /\ pc = "loop"
  /\ queue = {} \/ stop
  /\ pc' = "outside"
  /\ UNCHANGED <<created, key, ids, queue, loopVars, uid, unscheduled, stop, cancelled,
                 contextVars, destroyEvents>>

\* Destroy takes the destroy events one by one; their bodies are the program at "destroy".
Destroy ==
  /\ \/ pc = "outside"
     \/ pc = "destroy" /\ destroyEvents # <<>>
  /\ pc' = "destroy"
  /\ destroyEvents' = IF destroyEvents = <<>> THEN <<>> ELSE Tail(destroyEvents)
  /\ UNCHANGED <<created, key, ids, queue, loopVars, uid, unscheduled, stop, cancelled,
                 contextVars>>

\* DoDispose, after the last destroy event: what is left in the queues is dropped.
Dispose ==
  /\ pc = "destroy"
  /\ destroyEvents = <<>>
  /\ pc' = "end"
  /\ queue' = {}
  /\ withContext' = <<>>
  /\ contextEmpty' = TRUE
  /\ UNCHANGED <<created, key, ids, loopVars, uid, unscheduled, stop, cancelled, taken,
                 destroyEvents>>

Next ==
  \/ Check \/ Swap \/ InsertTaken \/ EventReturns \/ RunReturns
  \/ \E e \in Events : ProcessOneEvent(e)
  \/ \E d \in Delays : Schedule(d) \/ Post(d)
  \/ \E e \in Events : Cancel(e) \/ RemoveEvent(e) \/ RemoveDestroyEvent(e)
  \/ ScheduleDestroy \/ Stop \/ Run \/ Destroy \/ Dispose

Spec == Init /\ [][Next]_vars
-----------------------------------------------------------------------------
(* Properties.                                                             *)

\* Type invariant.
TypeOK ==
  /\ pc \in {"outside", "check", "swap", "insert", "loop", "event", "destroy", "end"}
  /\ created \in 0 .. MaxEvents
  /\ key \in [Events -> [ts : Nat, uid : 0 .. UidLimit - 1]]
  /\ ids \subseteq Events
  /\ queue \subseteq Events
  /\ now \in Nat
  /\ currentUid \in 0 .. UidLimit - 1
  /\ uid \in 0 .. UidLimit - 1
  /\ unscheduled \in Nat
  /\ stop \in BOOLEAN
  /\ cancelled \subseteq Events
  /\ ran \subseteq Events
  /\ withContext \in Seq([event : Events, delay : Delays])
  /\ contextEmpty \in BOOLEAN
  /\ taken \in Seq([event : Events, delay : Delays])
  /\ destroyEvents \in Seq(Events)

\* Event e waits and is to be run.
Waits(e) == (e \in queue \/ e \in Range(destroyEvents)) /\ e \notin cancelled

\* IsExpired, which compares the key of an event with that of the running one
\* (default-simulator-impl.cc 359-380), is exact: it never lets Remove erase an event
\* that is not in the map, nor Cancel ignore one that will run.  The count that Run
\* asserts to be 0 when the queue is empty (line 202) is the length of the queue.
ExpiryExact ==
  pc # "end" =>
    /\ \A e \in ids : IsExpired(e) <=> ~Waits(e)
    /\ unscheduled = Cardinality(queue)

DestroyIds == {e \in ids : key[e].uid = DESTROY}

\* The place of event e in the queue by uid, and the queue in this order.
Place(e) == Cardinality({f \in queue : key[f].uid <= key[e].uid})
Line ==
  [i \in 1 .. Cardinality(queue) |->
     LET e == CHOOSE e \in queue : Place(e) = i IN [event |-> e, ts |-> key[e].ts]]

EQ == INSTANCE EventQueue WITH
  line <- Line,
  posted <- taken \o withContext,
  cancelled <- cancelled \ DestroyIds

\* "Events whose expiration time is the same modulo this accuracy are scheduled in FIFO
\* order" (simulator.h 58-61), however events cancel, remove and schedule each other and
\* other threads post theirs: the loop implements the abstract queue.
FifoOrder == EQ!Spec

\* Other threads post behind a mutex, but the loop decides by a flag that it reads
\* without it (default-simulator-impl.cc 159): whenever the flag says that there is
\* nothing, nothing has been posted since the last swap, so that no event is passed over.
FlagTruthful == contextEmpty => withContext = <<>>
=============================================================================
