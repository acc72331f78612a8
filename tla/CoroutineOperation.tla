-------------------------- MODULE CoroutineOperation --------------------------
(***************************************************************************)
(* The life of coroutine frames (operation.h, awaitable.h).                *)
(*                                                                         *)
(* Leaf is an operation of makeCoroutineOperation, suspended until somebody *)
(* resumes or terminates it.  Awaiters are coroutines that await it or one *)
(* another.  A CoroutineOperation object is a counted handle to a frame.   *)
(* When a frame ends, return_value runs its continuations, each of which   *)
(* resumes an awaiter on top of the stack; then the frame stays suspended  *)
(* for its handles, or is destroyed if there are none.  All of this is     *)
(* one call of resume() or terminate(), whose caller looks at the frame    *)
(* again when it returns.                                                  *)
(***************************************************************************)
EXTENDS Naturals, SequencesExt

CONSTANTS
  Leaf,      \* the operation that is resumed or terminated from outside
  Awaiters,  \* coroutines that await an operation
  Child,     \* Child[a]: the operation that a awaits
  Values,    \* results with which terminate() is called
  Own,       \* the result that the leaf returns by itself
  None

Frames == {Leaf} \cup Awaiters

\* Who may have a handle to a frame, besides the frames that await it: the program
\* (a variable, a queue), the loop that resumes pending operations, an event that
\* Simulator::Schedule will execute.
Program == "program"
Driver == "driver"
Timer == "timer"

ASSUME ChildAssumption == Leaf \notin Awaiters /\ Child \in [Awaiters -> Frames]
ASSUME HolderAssumption == {Program, Driver, Timer} \cap Awaiters = {} /\ None \notin {Driver, Timer}
ASSUME ValuesAssumption == Own \notin Values /\ None \notin Values \cup {Own}

VARIABLES
  state,          \* "none", "suspended", "running", "final", "destroyed"
  reference,      \* reference[f]: Promise::reference
  holders,        \* holders[f]: who has a handle to f
  result,         \* result[f]: None as long as f is not terminated
  continuations,  \* continuations[f]: the awaiters to be resumed by f
  stack,          \* running frames, with the number of continuations to run
  calling,        \* whose call of resume() or terminate() is running
  cause,          \* the result that ended the leaf first
  seen            \* seen[a]: the result that a has got from its child

vars == <<state, reference, holders, result, continuations, stack, calling, cause, seen>>
-----------------------------------------------------------------------------
\* Faulty variant: done() looks at the handle only.
IsDoneFinal(f) == state[f] = "final"

\* done(): at its final suspension, or terminated.
IsDone(f) == state[f] = "final" \/ result[f] # None

\* Faulty variant: a copy of a handle is not counted.
CopiedUncounted(n) == n

\* A copy of a handle.
Copied(n) == n + 1

\* Faulty variant: the frame stays for handles that may not exist.
FinalStateKept(n) == "final"

\* final_suspend: with n handles left.
FinalState(n) == IF n = 0 THEN "destroyed" ELSE "final"

\* releaseHandle: a frame in state s of which n handles are left.
AfterRelease(s, n) == IF n = 0 /\ s = "final" THEN "destroyed" ELSE s

\* Faulty variant: the coroutine overwrites the result of terminate().
ReturnValueAlways(r) == Own

\* return_value: what the leaf returns after terminate(r), or after resume().
ReturnValue(r) == IF r = None THEN Own ELSE r

\* h gives up its handle to f.
Unref(f, h) ==
  /\ reference' = [reference EXCEPT ![f] = @ - 1]
  /\ holders' = [holders EXCEPT ![f] = @ \ {h}]

Release(f, h) ==
  /\ Unref(f, h)
  /\ state' = [state EXCEPT ![f] = AfterRelease(@, reference[f] - 1)]
-----------------------------------------------------------------------------
Init ==
  /\ state = [f \in Frames |-> IF f = Leaf THEN "suspended" ELSE "none"]
  /\ reference = [f \in Frames |-> IF f = Leaf THEN 2 ELSE 0]
  /\ holders = [f \in Frames |-> IF f = Leaf THEN {Program, Timer} ELSE {}]
  /\ result = [f \in Frames |-> None]
  /\ continuations = [f \in Frames |-> <<>>]
  /\ stack = <<>>
  /\ calling = None
  /\ cause = None
  /\ seen = [a \in Awaiters |-> None]

\* f has its result and runs its continuations.
Push(f, n) == stack' = Append(stack, [frame |-> f, left |-> n])

\* The program calls a, at any time.  a awaits its child: it goes on at once if the
\* child is done, else it is added to the continuations.
Begin(a) ==
  /\ state[a] = "none"
  /\ Program \in holders[Child[a]]
  /\ reference' = [reference EXCEPT ![a] = 1, ![Child[a]] = Copied(@)]
  /\ holders' = [holders EXCEPT ![a] = {Program}, ![Child[a]] = @ \cup {a}]
  /\ IF IsDone(Child[a])
     THEN /\ state' = [state EXCEPT ![a] = "running"]
          /\ seen' = [seen EXCEPT ![a] = result[Child[a]]]
          /\ result' = [result EXCEPT ![a] = result[Child[a]]]
          /\ Push(a, 0)
          /\ UNCHANGED continuations
     ELSE /\ state' = [state EXCEPT ![a] = "suspended"]
          /\ continuations' = [continuations EXCEPT ![Child[a]] = Append(@, a)]
          /\ UNCHANGED <<stack, result, seen>>
  /\ UNCHANGED <<calling, cause>>

\* The program drops its handle to f, at any time.
Drop(f) ==
  /\ Program \in holders[f]
  /\ Release(f, Program)
  /\ UNCHANGED <<result, continuations, stack, calling, cause, seen>>

\* terminate(v), or resume() with the condition true when v is None: the leaf runs
\* to its end.
RunLeaf(v) ==
  /\ result' = [result EXCEPT ![Leaf] = ReturnValue(v)]
  /\ cause' = IF v = None THEN Own ELSE v
  /\ Push(Leaf, Len(continuations[Leaf]))

\* onSend, onReceive, onClose and the like take a copy of a handle of the program
\* and call resume() or terminate().
Drive(v) ==
  /\ stack = <<>>
  /\ calling = None
  /\ Program \in holders[Leaf]
  /\ ~IsDone(Leaf)
  /\ calling' = Driver
  /\ reference' = [reference EXCEPT ![Leaf] = Copied(@)]
  /\ holders' = [holders EXCEPT ![Leaf] = @ \cup {Driver}]
  /\ state' = [state EXCEPT ![Leaf] = "running"]
  /\ RunLeaf(v)
  /\ UNCHANGED <<continuations, seen>>

\* A scheduled event terminates the leaf, unless it is done.
TimerFires(v) ==
  /\ stack = <<>>
  /\ calling = None
  /\ Timer \in holders[Leaf]
  /\ calling' = Timer
  /\ \/ /\ IsDone(Leaf)
        /\ UNCHANGED <<state, result, stack, cause>>
     \/ /\ ~IsDone(Leaf)
        /\ state' = [state EXCEPT ![Leaf] = "running"]
        /\ RunLeaf(v)
  /\ UNCHANGED <<reference, holders, continuations, seen>>

\* complete: the innermost frame resumes its next awaiter, which reads the result,
\* may give up its handle before it returns, and returns.
Continue ==
  /\ stack # <<>>
  /\ Last(stack).left > 0
  /\ LET f == Last(stack).frame
         a == Head(continuations[f])
     IN /\ continuations' = [continuations EXCEPT ![f] = Tail(@)]
        /\ seen' = [seen EXCEPT ![a] = result[f]]
        /\ result' = [result EXCEPT ![a] = result[f]]
        /\ stack' = Append(Front(stack) \o <<[frame |-> f, left |-> Last(stack).left - 1]>>,
                           [frame |-> a, left |-> Len(continuations[a])])
        /\ \/ /\ Unref(f, a)
              /\ state' = [state EXCEPT ![a] = "running", ![f] = AfterRelease(@, reference[f] - 1)]
           \/ /\ state' = [state EXCEPT ![a] = "running"]
              /\ UNCHANGED <<reference, holders>>
  /\ UNCHANGED <<calling, cause>>

\* The innermost frame has run its continuations.  Its variables go, and with them
\* its handle to the child; then it stays suspended or is destroyed.
FinalSuspend ==
  /\ stack # <<>>
  /\ Last(stack).left = 0
  /\ LET f == Last(stack).frame
         end == [state EXCEPT ![f] = FinalState(reference[f])]
     IN /\ continuations' = [continuations EXCEPT ![f] = <<>>]
        /\ stack' = Front(stack)
        /\ IF f \in Awaiters /\ f \in holders[Child[f]]
           THEN /\ Unref(Child[f], f)
                /\ state' = [end EXCEPT ![Child[f]] = AfterRelease(@, reference[Child[f]] - 1)]
           ELSE /\ state' = end
                /\ UNCHANGED <<reference, holders>>
  /\ UNCHANGED <<result, calling, cause, seen>>

\* resume() or terminate() returns, and its caller gives up its handle.
Return ==
  /\ stack = <<>>
  /\ calling # None
  /\ Release(Leaf, calling)
  /\ calling' = None
  /\ UNCHANGED <<result, continuations, stack, cause, seen>>

\* What happens once it can: running code goes on, scheduled events are executed.
Progress ==
  \/ Continue \/ FinalSuspend \/ Return
  \/ \E v \in Values : TimerFires(v)

Next ==
  \/ Progress
  \/ \E a \in Awaiters : Begin(a)
  \/ \E f \in Frames : Drop(f)
  \/ \E v \in Values \cup {None} : Drive(v)

Spec == Init /\ [][Next]_vars
FairSpec == Spec /\ WF_vars(Progress)
-----------------------------------------------------------------------------
(* Properties.                                                             *)

Results == Values \cup {Own, None}

\* Type invariant.
TypeOK ==
  /\ state \in [Frames -> {"none", "suspended", "running", "final", "destroyed"}]
  /\ reference \in [Frames -> Nat]
  /\ holders \in [Frames -> SUBSET ({Program, Driver, Timer} \cup Awaiters)]
  /\ result \in [Frames -> Results]
  /\ continuations \in [Frames -> Seq(Awaiters)]
  /\ stack \in Seq([frame : Frames, left : Nat])
  /\ calling \in {Driver, Timer, None}
  /\ cause \in Results
  /\ seen \in [Awaiters -> Results]

OnStack(f) == \E i \in DOMAIN stack : stack[i].frame = f

\* Nobody uses a frame that has been destroyed (operation.h 102-110, 35-37): no handle
\* refers to it, the stack does not return to it, no frame will resume it, and the
\* loop that resumed it may still ask whether it is done (208-215), although the
\* continuations drop handles and frames while it runs.
NoDangling ==
  \A f \in Frames : state[f] = "destroyed" =>
    /\ holders[f] = {}
    /\ ~OnStack(f)
    /\ \A g \in Frames : state[g] # "destroyed" => ~Contains(continuations[g], f)

\* A frame that has ended is kept only for handles that exist: whether the last
\* handle goes before, while or after the frame ends, it is destroyed.
NoLeak == \A f \in Frames : state[f] = "final" => holders[f] # {}

\* Whoever ends an operation first decides its result: every coroutine that awaits
\* it, directly or not, before or after its end, gets the value given to the first
\* terminate(), also when a timeout and a completion race (52-83, 504-511).
FirstEndWins ==
  \A a \in Awaiters : seen[a] # None => seen[a] = cause

\* Every coroutine that awaits an operation is resumed and ends, also one that
\* begins to await it while its continuations run (184-203, awaitable.h 46-57).
AwaitersEnd ==
  \A a \in Awaiters : state[a] = "suspended" ~> state[a] \in {"final", "destroyed"}
=============================================================================
