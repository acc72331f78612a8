------------------------------ MODULE EventQueue ------------------------------
(***************************************************************************)
(* What the documentation of Simulator promises of its events: they run in *)
(* the order of their time, those of one time in the order in which they   *)
(* were scheduled, and time never goes back.  Only an event that still     *)
(* waits can be cancelled, and a cancelled event is not run.  Events that  *)
(* another thread posts are scheduled later, in the order of the posts.    *)
(***************************************************************************)
EXTENDS Naturals, SequencesExt

CONSTANTS Events, Delays

VARIABLES
  now,        \* the current time
  line,       \* the events that wait, [event, ts], in the order they were scheduled
  posted,     \* the events other threads have posted, [event, delay]
  cancelled,  \* the events that have been cancelled
  ran         \* the events that have been run

Init ==
  /\ now = 0
  /\ line = <<>>
  /\ posted = <<>>
  /\ cancelled = {}
  /\ ran = {}

Schedule(e, d) ==
  /\ line' = Append(line, [event |-> e, ts |-> now + d])
  /\ UNCHANGED <<now, posted, cancelled, ran>>

Post(e, d) ==
  /\ posted' = Append(posted, [event |-> e, delay |-> d])
  /\ UNCHANGED <<now, line, cancelled, ran>>

Admit ==
  /\ posted # <<>>
  /\ line' = Append(line, [event |-> Head(posted).event, ts |-> now + Head(posted).delay])
  /\ posted' = Tail(posted)
  /\ UNCHANGED <<now, cancelled, ran>>

\* The i-th waiting event is the next to run.
IsNext(i) ==
  \A j \in DOMAIN line : line[i].ts < line[j].ts \/ (line[i].ts = line[j].ts /\ i <= j)

RunNext(i) ==
  /\ IsNext(i)
  /\ now' = line[i].ts
  /\ line' = RemoveAt(line, i)
  /\ ran' = ran \cup ({line[i].event} \ cancelled)
  /\ UNCHANGED <<posted, cancelled>>

Cancel(i) ==
  /\ cancelled' = cancelled \cup {line[i].event}
  /\ UNCHANGED <<now, line, posted, ran>>

\* To remove an event also cancels it.
Withdraw(i) ==
  /\ line[i].event \notin cancelled
  /\ line' = RemoveAt(line, i)
  /\ cancelled' = cancelled \cup {line[i].event}
  /\ UNCHANGED <<now, posted, ran>>

Dispose ==
  /\ line' = <<>>
  /\ posted' = <<>>
  /\ UNCHANGED <<now, cancelled, ran>>

Next ==
  \/ \E e \in Events, d \in Delays : Schedule(e, d) \/ Post(e, d)
  \/ Admit
  \/ \E i \in DOMAIN line : RunNext(i) \/ Cancel(i) \/ Withdraw(i)
  \/ Dispose

Spec == Init /\ [][Next]_<<now, line, posted, cancelled, ran>>
=============================================================================
