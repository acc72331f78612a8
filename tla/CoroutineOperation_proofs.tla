----------------------- MODULE CoroutineOperation_proofs -----------------------
(***************************************************************************)
(* Proofs about CoroutineOperation for every set of coroutines, finite or  *)
(* not, and whatever they await.  The reference count of a frame is the    *)
(* number of its holders (CountInv); who may hold a frame, wait in its     *)
(* continuations or be on the stack is decided by the states of the frames *)
(* (HolderInv, ContinuationInv, StackInv, StateInv).                       *)
(***************************************************************************)
EXTENDS CoroutineOperation, FiniteSetTheorems, SequenceTheorems, TLAPS

\* A reference count counts the handles that exist.
CountInv ==
  \A f \in Frames : IsFiniteSet(holders[f]) /\ reference[f] = Cardinality(holders[f])

\* A coroutine holds its child only, and only while it lives; the driver holds the
\* leaf during its call, and whoever calls holds it.
HolderInv ==
  /\ \A f \in Frames :
       /\ Driver \in holders[f] => f = Leaf /\ calling = Driver
       /\ \A h \in Awaiters : h \in holders[f] =>
            Child[h] = f /\ h # f /\ state[h] \in {"suspended", "running"}
  /\ calling # None => calling \in holders[Leaf]

\* What the state of a frame says of its handles, its result and its continuations.
StateInv ==
  /\ state[Leaf] # "none"
  /\ \A f \in Frames :
       /\ state[f] \in {"none", "destroyed"} => holders[f] = {}
       /\ state[f] = "final" => holders[f] # {}
       /\ state[f] \in {"running", "final"} => result[f] # None
       /\ state[f] \in {"none", "final", "destroyed"} => continuations[f] = <<>>

\* The awaiters in the continuations of a frame are suspended, hold the frame, and
\* are there once.
ContinuationInv ==
  \A f \in Frames : \A i \in 1 .. Len(continuations[f]) :
    /\ state[continuations[f][i]] = "suspended"
    /\ continuations[f][i] \in holders[f]
    /\ \A j \in 1 .. Len(continuations[f]) :
         continuations[f][i] = continuations[f][j] => i = j

\* The frames on the stack are running, and are there once; each has as many
\* continuations to run as it has left.
StackInv ==
  \A i \in 1 .. Len(stack) :
    /\ state[stack[i].frame] = "running"
    /\ stack[i].left = Len(continuations[stack[i].frame])
    /\ \A j \in 1 .. Len(stack) : stack[i].frame = stack[j].frame => i = j

\* There is one result, that of the leaf.
ResultInv ==
  /\ cause = result[Leaf]
  /\ \A f \in Frames : result[f] \in {None, cause}
  /\ \A a \in Awaiters : seen[a] \in {None, cause}

IInv ==
  TypeOK /\ CountInv /\ HolderInv /\ StateInv /\ ContinuationInv /\ StackInv /\ ResultInv
-----------------------------------------------------------------------------
(* Sequences and counts.                                                   *)

Entries == [frame : Frames, left : Nat]

\* The stack without its top.
LEMMA FrontFacts ==
  ASSUME NEW s \in Seq(Entries), s # <<>>
  PROVE  /\ Len(s) \in Nat \ {0}
         /\ Front(s) \in Seq(Entries)
         /\ Len(Front(s)) = Len(s) - 1
         /\ \A i \in 1 .. Len(s) - 1 : Front(s)[i] = s[i]
         /\ Last(s) = s[Len(s)] /\ s[Len(s)] \in Entries
<1>1. Len(s) \in Nat \ {0}
  BY EmptySeq
<1>2. Front(s) \in Seq(Entries)
  BY DEF Front
<1>3. DOMAIN Front(s) = 1 .. Len(s) - 1
  BY DEF Front
<1>4. DOMAIN Front(s) = 1 .. Len(Front(s)) /\ Len(Front(s)) \in Nat
  BY <1>2, LenProperties
<1>5. Len(Front(s)) = Len(s) - 1
  BY <1>1, <1>3, <1>4
<1>6. \A i \in 1 .. Len(s) - 1 : Front(s)[i] = s[i]
  BY DEF Front
<1>7. Last(s) = s[Len(s)] /\ s[Len(s)] \in Entries
  BY <1>1, ElementOfSeq DEF Last
<1> QED
  BY <1>1, <1>2, <1>5, <1>6, <1>7

\* The stack with its top replaced by e, and x on top of it.
LEMMA ReplaceTopAndPush ==
  ASSUME NEW s \in Seq(Entries), s # <<>>, NEW e \in Entries, NEW x \in Entries
  PROVE  /\ Append(Front(s) \o <<e>>, x) \in Seq(Entries)
         /\ Len(Append(Front(s) \o <<e>>, x)) = Len(s) + 1
         /\ \A i \in 1 .. Len(s) - 1 : Append(Front(s) \o <<e>>, x)[i] = s[i]
         /\ Append(Front(s) \o <<e>>, x)[Len(s)] = e
         /\ Append(Front(s) \o <<e>>, x)[Len(s) + 1] = x
<1> DEFINE u == Front(s) \o <<e>>
<1>1. /\ Len(s) \in Nat \ {0} /\ Front(s) \in Seq(Entries) /\ Len(Front(s)) = Len(s) - 1
      /\ \A i \in 1 .. Len(s) - 1 : Front(s)[i] = s[i]
  BY FrontFacts
<1>2. <<e>> \in Seq(Entries) /\ Len(<<e>>) = 1 /\ <<e>>[1] = e
  OBVIOUS
<1>3. /\ u \in Seq(Entries)
      /\ Len(u) = Len(Front(s)) + Len(<<e>>)
      /\ \A i \in 1 .. Len(Front(s)) + Len(<<e>>) :
           u[i] = IF i <= Len(Front(s)) THEN Front(s)[i] ELSE <<e>>[i - Len(Front(s))]
  BY <1>1, <1>2, ConcatProperties
<1>4. Len(u) = Len(s) /\ u[Len(s)] = e /\ \A i \in 1 .. Len(s) - 1 : u[i] = s[i]
  BY <1>1, <1>2, <1>3
<1> HIDE DEF u
<1>5. /\ Append(u, x) \in Seq(Entries)
      /\ Len(Append(u, x)) = Len(u) + 1
      /\ \A i \in 1 .. Len(u) : Append(u, x)[i] = u[i]
      /\ Append(u, x)[Len(u) + 1] = x
  BY <1>3, AppendProperties
<1>6. /\ Append(u, x) \in Seq(Entries) /\ Len(Append(u, x)) = Len(s) + 1
      /\ \A i \in 1 .. Len(s) - 1 : Append(u, x)[i] = s[i]
      /\ Append(u, x)[Len(s)] = e /\ Append(u, x)[Len(s) + 1] = x
  BY <1>1, <1>4, <1>5
<1> QED
  BY <1>6 DEF u

\* The continuations are coroutines.
LEMMA ContinuationTypes ==
  ASSUME TypeOK
  PROVE  \A f \in Frames : /\ Len(continuations[f]) \in Nat
                            /\ \A i \in 1 .. Len(continuations[f]) : continuations[f][i] \in Awaiters
<1> TAKE f \in Frames
<1>1. continuations[f] \in Seq(Awaiters)
  BY DEF TypeOK
<1> QED
  BY <1>1, LenProperties, ElementOfSeq

\* A handle given up is one holder less: the count is zero when nobody is left.
LEMMA UnrefCount ==
  ASSUME TypeOK, CountInv, NEW f \in Frames, NEW h \in holders[f], Unref(f, h)
  PROVE  /\ CountInv'
         /\ reference' \in [Frames -> Nat]
         /\ holders' \in [Frames -> SUBSET ({Program, Driver, Timer} \cup Awaiters)]
         /\ holders'[f] = holders[f] \ {h}
         /\ \A g \in Frames \ {f} : holders'[g] = holders[g] /\ reference'[g] = reference[g]
         /\ reference[f] - 1 = 0 <=> holders'[f] = {}
<1>1. /\ holders' \in [Frames -> SUBSET ({Program, Driver, Timer} \cup Awaiters)]
      /\ holders'[f] = holders[f] \ {h}
      /\ \A g \in Frames \ {f} : holders'[g] = holders[g]
  BY DEF TypeOK, Unref
<1>2. IsFiniteSet(holders[f]) /\ reference[f] = Cardinality(holders[f]) /\ reference[f] \in Nat
  BY DEF CountInv, TypeOK
<1>3. IsFiniteSet(holders'[f]) /\ reference[f] - 1 = Cardinality(holders'[f])
  BY <1>1, <1>2, FS_RemoveElement
<1>4. Cardinality(holders'[f]) \in Nat /\ (Cardinality(holders'[f]) = 0 <=> holders'[f] = {})
  BY <1>3, FS_CardinalityType, FS_EmptySet
<1>5. /\ reference' \in [Frames -> Nat]
      /\ reference'[f] = reference[f] - 1
      /\ \A g \in Frames \ {f} : reference'[g] = reference[g]
  BY <1>3, <1>4 DEF TypeOK, Unref
<1>6. CountInv'
  <2> SUFFICES ASSUME NEW g \in Frames
               PROVE  IsFiniteSet(holders'[g]) /\ reference'[g] = Cardinality(holders'[g])
    BY DEF CountInv
  <2>1. CASE g = f
    BY <1>3, <1>5, <2>1
  <2>2. CASE g # f
    BY <1>1, <1>5, <2>2 DEF CountInv
  <2> QED
    BY <2>1, <2>2
<1> QED
  BY <1>1, <1>3, <1>4, <1>5, <1>6
-----------------------------------------------------------------------------
(* The inductive invariant: one lemma per action.                          *)

LEMMA InitIInv == Init => IInv
<1> SUFFICES ASSUME Init PROVE IInv
  OBVIOUS
<1>1. TypeOK
  BY DEF Init, TypeOK, Results, Frames
<1>2. CountInv
  <2>1. /\ IsFiniteSet({Program, Timer}) /\ Cardinality({Program, Timer}) = 2
        /\ IsFiniteSet({}) /\ Cardinality({}) = 0
    <3>1. IsFiniteSet({Program}) /\ Cardinality({Program}) = 1
      BY FS_Singleton
    <3>2. Timer \notin {Program} /\ {Program, Timer} = {Program} \cup {Timer}
      BY DEF Program, Timer
    <3>3. /\ IsFiniteSet({Program} \cup {Timer})
          /\ Cardinality({Program} \cup {Timer}) =
               IF Timer \in {Program} THEN Cardinality({Program}) ELSE Cardinality({Program}) + 1
      BY <3>1, FS_AddElement
    <3> QED
      BY <3>1, <3>2, <3>3, FS_EmptySet
  <2> QED
    BY <2>1 DEF Init, CountInv
<1>3. HolderInv /\ StateInv
  BY HolderAssumption, ChildAssumption DEF Init, HolderInv, StateInv, Frames, Program, Timer, Driver
<1>4. ContinuationInv /\ StackInv
  BY DEF Init, ContinuationInv, StackInv
<1>5. ResultInv
  BY DEF Init, ResultInv, Frames
<1> QED
  BY <1>1, <1>2, <1>3, <1>4, <1>5 DEF IInv

\* Somebody other than a coroutine gives up a handle.
LEMMA ReleaseFacts ==
  ASSUME IInv, NEW f \in Frames, NEW h \in holders[f], h \notin Awaiters, Release(f, h),
         UNCHANGED <<result, continuations, stack, cause, seen>>, calling' \in {calling, None}
  PROVE  /\ TypeOK' /\ CountInv' /\ StateInv' /\ ContinuationInv' /\ StackInv' /\ ResultInv'
         /\ holders'[f] = holders[f] \ {h}
         /\ \A g \in Frames \ {f} : holders'[g] = holders[g]
         /\ \A a \in Awaiters : state[a] \in {"suspended", "running"} => state'[a] = state[a]
<1>1. /\ TypeOK /\ CountInv /\ Unref(f, h)
      /\ state' = [state EXCEPT ![f] = AfterRelease(@, reference[f] - 1)]
  BY DEF IInv, Release
<1>2. /\ CountInv'
      /\ reference' \in [Frames -> Nat]
      /\ holders' \in [Frames -> SUBSET ({Program, Driver, Timer} \cup Awaiters)]
      /\ holders'[f] = holders[f] \ {h}
      /\ \A g \in Frames \ {f} : holders'[g] = holders[g]
      /\ reference[f] - 1 = 0 <=> holders'[f] = {}
  BY <1>1, UnrefCount
<1>3. /\ state' \in [Frames -> {"none", "suspended", "running", "final", "destroyed"}]
      /\ \A g \in Frames \ {f} : state'[g] = state[g]
      /\ state'[f] = IF holders'[f] = {} /\ state[f] = "final" THEN "destroyed" ELSE state[f]
  BY <1>1, <1>2 DEF TypeOK, AfterRelease
<1>4. \A g \in Frames : state[g] \in {"suspended", "running"} => state'[g] = state[g]
  BY <1>3
<1>5. TypeOK'
  BY <1>1, <1>2, <1>3 DEF TypeOK
<1>6. StateInv'
  BY <1>2, <1>3 DEF IInv, StateInv, Frames
<1>7. ContinuationInv'
  <2>1. \A g \in Frames : \A a \in Awaiters : a \in holders[g] => a \in holders'[g]
    BY <1>2
  <2> QED
    BY <1>1, <1>4, <2>1, ContinuationTypes DEF IInv, ContinuationInv, Frames
<1>8. StackInv'
  BY <1>1, <1>4 DEF IInv, StackInv, TypeOK
<1>9. ResultInv'
  BY DEF IInv, ResultInv
<1> QED
  BY <1>2, <1>4, <1>5, <1>6, <1>7, <1>8, <1>9 DEF Frames

LEMMA DropIInv ==
  ASSUME IInv, NEW f \in Frames, Drop(f)
  PROVE  IInv'
<1>1. /\ Program \in holders[f] /\ Program \notin Awaiters /\ Release(f, Program)
      /\ UNCHANGED <<result, continuations, stack, cause, seen>> /\ calling' = calling
  BY HolderAssumption DEF Drop
<1>2. /\ TypeOK' /\ CountInv' /\ StateInv' /\ ContinuationInv' /\ StackInv' /\ ResultInv'
      /\ holders'[f] = holders[f] \ {Program}
      /\ \A g \in Frames \ {f} : holders'[g] = holders[g]
      /\ \A a \in Awaiters : state[a] \in {"suspended", "running"} => state'[a] = state[a]
  BY <1>1, ReleaseFacts
<1>3. HolderInv'
  <2>1. calling # None => calling # Program
    BY DEF IInv, TypeOK, Program, Driver, Timer
  <2> QED
    BY <1>1, <1>2, <2>1 DEF IInv, HolderInv, Frames
<1> QED
  BY <1>2, <1>3 DEF IInv

LEMMA ReturnIInv ==
  ASSUME IInv, Return
  PROVE  IInv'
<1>1. /\ calling \in {Driver, Timer} /\ calling \notin Awaiters /\ calling \in holders[Leaf]
      /\ Leaf \in Frames /\ Release(Leaf, calling)
      /\ UNCHANGED <<result, continuations, stack, cause, seen>> /\ calling' = None
  BY HolderAssumption DEF Return, IInv, TypeOK, HolderInv, Frames
<1>2. /\ TypeOK' /\ CountInv' /\ StateInv' /\ ContinuationInv' /\ StackInv' /\ ResultInv'
      /\ holders'[Leaf] = holders[Leaf] \ {calling}
      /\ \A g \in Frames \ {Leaf} : holders'[g] = holders[g]
      /\ \A a \in Awaiters : state[a] \in {"suspended", "running"} => state'[a] = state[a]
  BY <1>1, ReleaseFacts
<1>3. HolderInv'
  <2>1. \A f \in Frames : Driver \notin holders'[f]
    BY <1>1, <1>2 DEF IInv, HolderInv
  <2> QED
    BY <1>1, <1>2, <2>1 DEF IInv, HolderInv, Frames
<1> QED
  BY <1>2, <1>3 DEF IInv

\* The leaf runs to its end: from an empty stack, and with no result so far.
LEMMA RunLeafFacts ==
  ASSUME IInv, stack = <<>>, ~IsDone(Leaf), holders[Leaf] # {}, NEW v \in Values \cup {None},
         RunLeaf(v), state' = [state EXCEPT ![Leaf] = "running"],
         UNCHANGED <<continuations, seen>>
  PROVE  /\ state[Leaf] = "suspended"
         /\ state' \in [Frames -> {"none", "suspended", "running", "final", "destroyed"}]
         /\ state'[Leaf] = "running" /\ \A a \in Awaiters : state'[a] = state[a]
         /\ result' \in [Frames -> Results] /\ result'[Leaf] # None
         /\ \A a \in Awaiters : result'[a] = result[a]
         /\ stack' \in Seq(Entries) /\ cause' \in Results
         /\ StackInv' /\ ResultInv'
<1> USE DEF Frames
<1>1. TypeOK /\ Leaf \notin Awaiters
  BY ChildAssumption DEF IInv
<1>2. result[Leaf] = None /\ state[Leaf] = "suspended"
  BY <1>1 DEF IInv, IsDone, StateInv, TypeOK
<1>3. /\ state' \in [Frames -> {"none", "suspended", "running", "final", "destroyed"}]
      /\ state'[Leaf] = "running" /\ \A a \in Awaiters : state'[a] = state[a]
  BY <1>1 DEF TypeOK
<1>4. cause' \in Results /\ cause' # None /\ cause' = ReturnValue(v)
  BY ValuesAssumption DEF RunLeaf, ReturnValue, Results
<1>5. /\ result' \in [Frames -> Results] /\ result'[Leaf] = cause'
      /\ \A a \in Awaiters : result'[a] = result[a]
  BY <1>1, <1>4 DEF RunLeaf, TypeOK
<1>6. ResultInv'
  BY <1>2, <1>5 DEF IInv, ResultInv
<1>7. /\ [frame |-> Leaf, left |-> Len(continuations[Leaf])] \in Entries
      /\ stack' = <<[frame |-> Leaf, left |-> Len(continuations[Leaf])]>>
  BY <1>1, ContinuationTypes DEF RunLeaf, Push, Entries
<1>8. stack' \in Seq(Entries) /\ Len(stack') = 1 /\ stack'[1] = [frame |-> Leaf, left |-> Len(continuations[Leaf])]
  BY <1>7
<1>9. StackInv'
  BY <1>3, <1>8 DEF StackInv
<1> QED
  BY <1>2, <1>3, <1>4, <1>5, <1>6, <1>8, <1>9

\* The caller's copy of the handle is a new holder of the leaf.
LEMMA DriveIInv ==
  ASSUME IInv, NEW v \in Values \cup {None}, Drive(v)
  PROVE  IInv'
<1> USE DEF Frames
<1>1. /\ TypeOK /\ Leaf \notin Awaiters /\ Driver \notin Awaiters /\ Driver # None
      /\ calling = None /\ calling' = Driver
      /\ UNCHANGED <<continuations, seen>>
  BY ChildAssumption, HolderAssumption DEF IInv, Drive
<1>2. /\ state[Leaf] = "suspended"
      /\ state' \in [Frames -> {"none", "suspended", "running", "final", "destroyed"}]
      /\ state'[Leaf] = "running" /\ \A a \in Awaiters : state'[a] = state[a]
      /\ result' \in [Frames -> Results] /\ result'[Leaf] # None
      /\ \A a \in Awaiters : result'[a] = result[a]
      /\ stack' \in Seq(Entries) /\ cause' \in Results
      /\ StackInv' /\ ResultInv'
  <2>1. /\ stack = <<>> /\ ~IsDone(Leaf) /\ holders[Leaf] # {} /\ RunLeaf(v)
        /\ state' = [state EXCEPT ![Leaf] = "running"] /\ UNCHANGED <<continuations, seen>>
    BY DEF Drive
  <2> QED
    BY <2>1, RunLeafFacts
<1>3. /\ holders' \in [Frames -> SUBSET ({Program, Driver, Timer} \cup Awaiters)]
      /\ holders'[Leaf] = holders[Leaf] \cup {Driver}
      /\ \A a \in Awaiters : holders'[a] = holders[a]
  BY <1>1 DEF Drive, TypeOK
<1>4. /\ reference' \in [Frames -> Nat]
      /\ reference'[Leaf] = reference[Leaf] + 1
      /\ \A a \in Awaiters : reference'[a] = reference[a]
  BY <1>1 DEF Drive, TypeOK, Copied
<1>5. CountInv'
  <2>1. Driver \notin holders[Leaf]
    BY <1>1 DEF IInv, HolderInv
  <2>2. IsFiniteSet(holders[Leaf]) /\ reference[Leaf] = Cardinality(holders[Leaf])
    BY DEF IInv, CountInv
  <2>3. /\ IsFiniteSet(holders[Leaf] \cup {Driver})
        /\ Cardinality(holders[Leaf] \cup {Driver}) = Cardinality(holders[Leaf]) + 1
    BY <2>1, <2>2, FS_AddElement
  <2> QED
    BY <1>3, <1>4, <2>2, <2>3 DEF IInv, CountInv
<1>6. TypeOK'
  BY <1>1, <1>2, <1>3, <1>4 DEF TypeOK, Entries
<1>7. HolderInv'
  BY <1>1, <1>2, <1>3 DEF IInv, HolderInv
<1>8. StateInv'
  BY <1>1, <1>2, <1>3 DEF IInv, StateInv
<1>9. ContinuationInv'
  BY <1>1, <1>2, <1>3, ContinuationTypes DEF IInv, ContinuationInv
<1> QED
  BY <1>2, <1>5, <1>6, <1>7, <1>8, <1>9 DEF IInv

LEMMA TimerFiresIInv ==
  ASSUME IInv, NEW v \in Values, TimerFires(v)
  PROVE  IInv'
<1> USE DEF Frames
<1>1. /\ TypeOK /\ Leaf \notin Awaiters /\ Timer \notin Awaiters /\ None \notin {Driver, Timer}
      /\ calling = None /\ calling' = Timer /\ Timer \in holders[Leaf]
      /\ UNCHANGED <<reference, holders, continuations, seen>>
  BY ChildAssumption, HolderAssumption DEF IInv, TimerFires
<1>2. CountInv'
  BY <1>1 DEF IInv, CountInv
<1>3. CASE UNCHANGED <<state, result, stack, cause>>
  <2>1. TypeOK' /\ StateInv' /\ ContinuationInv' /\ StackInv' /\ ResultInv'
    BY <1>1, <1>3 DEF IInv, TypeOK, StateInv, ContinuationInv, StackInv, ResultInv
  <2>2. HolderInv'
    BY <1>1, <1>3 DEF IInv, HolderInv
  <2> QED
    BY <1>2, <2>1, <2>2 DEF IInv
<1>4. CASE ~IsDone(Leaf) /\ state' = [state EXCEPT ![Leaf] = "running"] /\ RunLeaf(v)
  <2>1. /\ state[Leaf] = "suspended"
        /\ state' \in [Frames -> {"none", "suspended", "running", "final", "destroyed"}]
        /\ state'[Leaf] = "running" /\ \A a \in Awaiters : state'[a] = state[a]
        /\ result' \in [Frames -> Results] /\ result'[Leaf] # None
        /\ \A a \in Awaiters : result'[a] = result[a]
        /\ stack' \in Seq(Entries) /\ cause' \in Results
        /\ StackInv' /\ ResultInv'
    <3>1. stack = <<>> /\ holders[Leaf] # {} /\ UNCHANGED <<continuations, seen>>
      BY <1>1 DEF TimerFires
    <3> QED
      BY <1>4, <3>1, RunLeafFacts
  <2>2. TypeOK'
    BY <1>1, <2>1 DEF TypeOK, Entries
  <2>3. HolderInv'
    BY <1>1, <2>1 DEF IInv, HolderInv
  <2>4. StateInv'
    BY <1>1, <2>1 DEF IInv, StateInv
  <2>5. ContinuationInv'
    BY <1>1, <2>1, ContinuationTypes DEF IInv, ContinuationInv
  <2> QED
    BY <1>2, <2>1, <2>2, <2>3, <2>4, <2>5 DEF IInv
<1> QED
  BY <1>3, <1>4 DEF TimerFires

\* A coroutine begins and becomes a holder of its child.  Its child is another frame,
\* which it did not hold before.
LEMMA BeginFacts ==
  ASSUME IInv, NEW a \in Awaiters, Begin(a)
  PROVE  /\ Child[a] \in Frames /\ Child[a] # a /\ holders[a] = {} /\ continuations[a] = <<>>
         /\ state[Child[a]] \in {"suspended", "running", "final"}
         /\ CountInv'
         /\ reference' \in [Frames -> Nat]
         /\ holders' \in [Frames -> SUBSET ({Program, Driver, Timer} \cup Awaiters)]
         /\ holders'[a] = {Program}
         /\ holders'[Child[a]] = holders[Child[a]] \cup {a}
         /\ \A f \in Frames \ {a, Child[a]} : holders'[f] = holders[f]
<1> DEFINE c == Child[a]
<1>1. /\ TypeOK /\ a \in Frames /\ c \in Frames /\ state[a] = "none" /\ Program \in holders[c]
  BY ChildAssumption DEF IInv, Begin, Frames
<1>2. holders[a] = {} /\ continuations[a] = <<>> /\ c # a
  BY <1>1 DEF IInv, StateInv
<1>3. state[c] \in {"suspended", "running", "final"} /\ a \notin holders[c]
  <2>1. state[c] \in {"none", "suspended", "running", "final", "destroyed"}
    BY <1>1 DEF TypeOK
  <2>2. state[c] \notin {"none", "destroyed"}
    BY <1>1 DEF IInv, StateInv
  <2>3. a \in holders[c] => state[a] \in {"suspended", "running"}
    BY <1>1 DEF IInv, HolderInv
  <2> QED
    BY <1>1, <2>1, <2>2, <2>3
<1>4. /\ reference' = [reference EXCEPT ![a] = 1, ![c] = Copied(@)]
      /\ holders' = [holders EXCEPT ![a] = {Program}, ![c] = @ \cup {a}]
  BY DEF Begin
<1> HIDE DEF c
<1>5. /\ holders' \in [Frames -> SUBSET ({Program, Driver, Timer} \cup Awaiters)]
      /\ holders'[a] = {Program} /\ holders'[c] = holders[c] \cup {a}
      /\ \A f \in Frames \ {a, c} : holders'[f] = holders[f]
  BY <1>1, <1>2, <1>4 DEF TypeOK
<1>6. /\ reference' \in [Frames -> Nat]
      /\ reference'[a] = 1 /\ reference'[c] = reference[c] + 1
      /\ \A f \in Frames \ {a, c} : reference'[f] = reference[f]
  <2>1. reference \in [Frames -> Nat]
    BY <1>1 DEF TypeOK
  <2> QED
    BY <1>1, <1>2, <1>4, <2>1 DEF Copied
<1>7. CountInv'
  <2> SUFFICES ASSUME NEW f \in Frames
               PROVE  IsFiniteSet(holders'[f]) /\ reference'[f] = Cardinality(holders'[f])
    BY DEF CountInv
  <2>1. IsFiniteSet(holders[f]) /\ reference[f] = Cardinality(holders[f])
    BY DEF IInv, CountInv
  <2>2. CASE f = a
    BY <1>5, <1>6, <2>2, FS_Singleton
  <2>3. CASE f = c
    <3>1. /\ IsFiniteSet(holders[f] \cup {a})
          /\ Cardinality(holders[f] \cup {a}) = Cardinality(holders[f]) + 1
      BY <1>3, <2>1, <2>3, FS_AddElement
    <3> QED
      BY <1>5, <1>6, <2>1, <2>3, <3>1
  <2>4. CASE f \notin {a, c}
    BY <1>5, <1>6, <2>1, <2>4
  <2> QED
    BY <2>2, <2>3, <2>4
<1> QED
  BY <1>1, <1>2, <1>3, <1>5, <1>6, <1>7 DEF c

LEMMA BeginIInv ==
  ASSUME IInv, NEW a \in Awaiters, Begin(a)
  PROVE  IInv'
<1> DEFINE c == Child[a]
<1>1. /\ TypeOK /\ a \in Frames /\ Leaf \in Frames /\ Awaiters \subseteq Frames /\ a # Leaf
      /\ state[a] = "none" /\ calling' = calling /\ cause' = cause
  BY ChildAssumption DEF IInv, Begin, Frames
<1>2. /\ c \in Frames /\ c # a /\ holders[a] = {} /\ continuations[a] = <<>>
      /\ state[c] \in {"suspended", "running", "final"}
      /\ CountInv'
      /\ reference' \in [Frames -> Nat]
      /\ holders' \in [Frames -> SUBSET ({Program, Driver, Timer} \cup Awaiters)]
      /\ holders'[a] = {Program}
      /\ holders'[c] = holders[c] \cup {a}
      /\ \A f \in Frames \ {a, c} : holders'[f] = holders[f]
  BY BeginFacts
<1>3. \A f \in Frames : f # a => holders[f] \subseteq holders'[f]
  BY <1>2
<1>4. {Program, Driver, Timer} \cap Awaiters = {} /\ Program # Driver
  BY HolderAssumption DEF Program, Driver
<1> HIDE DEF c
<1>5. ASSUME /\ \A f \in Frames \ {a} : state'[f] = state[f]
             /\ state'[a] \in {"suspended", "running"}
      PROVE  HolderInv'
  <2>1. c = Child[a]
    BY DEF c
  <2>2. ASSUME NEW f \in Frames, Driver \in holders'[f] PROVE f = Leaf /\ calling' = Driver
    BY <1>1, <1>2, <1>4, <2>2 DEF IInv, HolderInv
  <2>3. ASSUME NEW f \in Frames, NEW h \in Awaiters, h \in holders'[f]
        PROVE  Child[h] = f /\ h # f /\ state'[h] \in {"suspended", "running"}
    <3>1. CASE h = a /\ f = c
      BY <1>2, <1>5, <2>1, <3>1
    <3>2. CASE h \in holders[f]
      BY <1>1, <1>5, <2>3, <3>2 DEF IInv, HolderInv, Frames
    <3> QED
      BY <1>2, <1>4, <2>3, <3>1, <3>2
  <2>4. calling' # None => calling' \in holders'[Leaf]
    BY <1>1, <1>3 DEF IInv, HolderInv, Frames
  <2> QED
    BY <2>2, <2>3, <2>4 DEF HolderInv
<1>6. CASE IsDone(c)
  <2>1. /\ state' = [state EXCEPT ![a] = "running"]
        /\ seen' = [seen EXCEPT ![a] = result[c]]
        /\ result' = [result EXCEPT ![a] = result[c]]
        /\ stack' = Append(stack, [frame |-> a, left |-> 0])
        /\ UNCHANGED continuations
    BY <1>6 DEF Begin, Push, c
  <2>2. /\ state' \in [Frames -> {"none", "suspended", "running", "final", "destroyed"}]
        /\ \A f \in Frames \ {a} : state'[f] = state[f]
        /\ state'[a] = "running"
    BY <1>1, <2>1 DEF TypeOK
  <2>3. /\ result[c] # None /\ result[c] \in Results
        /\ result' \in [Frames -> Results] /\ result'[a] = result[c]
        /\ \A f \in Frames \ {a} : result'[f] = result[f]
        /\ seen' \in [Awaiters -> Results] /\ seen'[a] = result[c]
        /\ \A b \in Awaiters \ {a} : seen'[b] = seen[b]
    BY <1>1, <1>2, <1>6, <2>1 DEF IInv, IsDone, StateInv, TypeOK
  <2>4. /\ stack \in Seq(Entries) /\ [frame |-> a, left |-> 0] \in Entries
        /\ Len(stack) \in Nat
    BY <1>1, LenProperties DEF TypeOK, Entries
  <2>5. /\ stack' \in Seq(Entries) /\ Len(stack') = Len(stack) + 1
        /\ \A i \in 1 .. Len(stack) : stack'[i] = stack[i]
        /\ stack'[Len(stack) + 1] = [frame |-> a, left |-> 0]
    BY <2>1, <2>4, AppendProperties
  <2>6. TypeOK'
    BY <1>1, <1>2, <2>1, <2>2, <2>3, <2>5 DEF TypeOK, Entries
  <2>7. StateInv'
    <3>1. state'[Leaf] # "none"
      BY <1>1, <2>2 DEF IInv, StateInv
    <3>2. ASSUME NEW f \in Frames
          PROVE  /\ state'[f] \in {"none", "destroyed"} => holders'[f] = {}
                 /\ state'[f] = "final" => holders'[f] # {}
                 /\ state'[f] \in {"running", "final"} => result'[f] # None
                 /\ state'[f] \in {"none", "final", "destroyed"} => continuations'[f] = <<>>
      <4>1. /\ state[f] \in {"none", "destroyed"} => holders[f] = {}
            /\ state[f] = "final" => holders[f] # {}
            /\ state[f] \in {"running", "final"} => result[f] # None
            /\ state[f] \in {"none", "final", "destroyed"} => continuations[f] = <<>>
        BY DEF IInv, StateInv
      <4>2. CASE f = a
        BY <1>2, <2>1, <2>2, <2>3, <4>2
      <4>3. CASE f = c
        BY <1>2, <2>1, <2>2, <2>3, <4>1, <4>3
      <4>4. CASE f \notin {a, c}
        BY <1>2, <2>1, <2>2, <2>3, <4>1, <4>4
      <4> QED
        BY <4>2, <4>3, <4>4
    <3> QED
      BY <3>1, <3>2 DEF StateInv
  <2>8. ContinuationInv'
    <3> SUFFICES ASSUME NEW f \in Frames, NEW i \in 1 .. Len(continuations[f])
                 PROVE  /\ state'[continuations[f][i]] = "suspended"
                        /\ continuations[f][i] \in holders'[f]
                        /\ \A j \in 1 .. Len(continuations[f]) :
                             continuations[f][i] = continuations[f][j] => i = j
      BY <2>1 DEF ContinuationInv
    <3>1. /\ state[continuations[f][i]] = "suspended"
          /\ continuations[f][i] \in holders[f]
          /\ \A j \in 1 .. Len(continuations[f]) :
               continuations[f][i] = continuations[f][j] => i = j
      BY DEF IInv, ContinuationInv
    <3>2. continuations[f][i] \in Awaiters /\ continuations[f][i] # a
      BY <1>1, <3>1, ContinuationTypes
    <3> QED
      BY <1>1, <1>2, <1>3, <2>2, <3>1, <3>2
  <2>9. StackInv'
    <3>1. ASSUME NEW i \in 1 .. Len(stack)
          PROVE  stack[i].frame \in Frames /\ stack[i].frame # a
      <4>1. stack[i] \in Entries
        BY <2>4, <3>1, ElementOfSeq
      <4> QED
        BY <1>1, <3>1, <4>1 DEF IInv, StackInv, Entries
    <3>2. ASSUME NEW i \in 1 .. Len(stack')
          PROVE  /\ state'[stack'[i].frame] = "running"
                 /\ stack'[i].left = Len(continuations[stack'[i].frame])
                 /\ \A j \in 1 .. Len(stack') : stack'[i].frame = stack'[j].frame => i = j
      <4>1. CASE i = Len(stack) + 1
        <5>1. stack'[i].frame = a /\ stack'[i].left = 0 /\ Len(continuations[a]) = 0
          BY <1>2, <2>5, <4>1
        <5>2. \A j \in 1 .. Len(stack') : stack'[j].frame = a => j = Len(stack) + 1
          BY <2>4, <2>5, <3>1
        <5> QED
          BY <2>2, <4>1, <5>1, <5>2
      <4>2. CASE i \in 1 .. Len(stack)
        <5>1. /\ state[stack[i].frame] = "running"
              /\ stack[i].left = Len(continuations[stack[i].frame])
              /\ \A j \in 1 .. Len(stack) : stack[i].frame = stack[j].frame => i = j
          BY <4>2 DEF IInv, StackInv
        <5>2. /\ stack'[i] = stack[i] /\ stack[i].frame \in Frames /\ stack[i].frame # a
              /\ stack'[Len(stack) + 1].frame = a
              /\ \A j \in 1 .. Len(stack) : stack'[j] = stack[j]
          BY <2>5, <3>1, <4>2
        <5>3. \A j \in 1 .. Len(stack') : j \in 1 .. Len(stack) \/ j = Len(stack) + 1
          BY <2>4, <2>5
        <5>4. \A j \in 1 .. Len(stack') : stack'[i].frame = stack'[j].frame => i = j
          BY <5>1, <5>2, <5>3, Zenon
        <5> QED
          BY <2>2, <5>1, <5>2, <5>4
      <4> QED
        BY <2>4, <2>5, <4>1, <4>2
    <3> QED
      BY <2>1, <3>2 DEF StackInv
  <2>10. ResultInv'
    BY <1>1, <1>2, <2>3 DEF IInv, ResultInv, Frames
  <2> QED
    BY <1>2, <1>5, <2>2, <2>6, <2>7, <2>8, <2>9, <2>10 DEF IInv
<1>7. CASE ~IsDone(c)
  <2>1. /\ state' = [state EXCEPT ![a] = "suspended"]
        /\ continuations' = [continuations EXCEPT ![c] = Append(@, a)]
        /\ UNCHANGED <<stack, result, seen>>
    BY <1>7 DEF Begin, c
  <2>2. /\ state' \in [Frames -> {"none", "suspended", "running", "final", "destroyed"}]
        /\ \A f \in Frames \ {a} : state'[f] = state[f]
        /\ state'[a] = "suspended"
    BY <1>1, <2>1 DEF TypeOK
  <2>3. state[c] = "suspended"
    BY <1>2, <1>7 DEF IInv, IsDone, StateInv
  <2>4. continuations[c] \in Seq(Awaiters) /\ Len(continuations[c]) \in Nat
    BY <1>1, <1>2, ContinuationTypes DEF TypeOK
  <2>5. /\ Append(continuations[c], a) \in Seq(Awaiters)
        /\ Len(Append(continuations[c], a)) = Len(continuations[c]) + 1
        /\ \A i \in 1 .. Len(continuations[c]) : Append(continuations[c], a)[i] = continuations[c][i]
        /\ Append(continuations[c], a)[Len(continuations[c]) + 1] = a
    BY <2>4, AppendProperties
  <2>6. /\ continuations' \in [Frames -> Seq(Awaiters)]
        /\ continuations'[c] = Append(continuations[c], a)
        /\ \A f \in Frames \ {c} : continuations'[f] = continuations[f]
    BY <1>1, <1>2, <2>1, <2>5 DEF TypeOK
  <2>7. TypeOK'
    BY <1>1, <1>2, <2>1, <2>2, <2>6 DEF TypeOK
  <2>8. StateInv'
    <3>1. state'[Leaf] # "none"
      BY <1>1, <2>2 DEF IInv, StateInv
    <3>2. ASSUME NEW f \in Frames
          PROVE  /\ state'[f] \in {"none", "destroyed"} => holders'[f] = {}
                 /\ state'[f] = "final" => holders'[f] # {}
                 /\ state'[f] \in {"running", "final"} => result'[f] # None
                 /\ state'[f] \in {"none", "final", "destroyed"} => continuations'[f] = <<>>
      <4>1. /\ state[f] \in {"none", "destroyed"} => holders[f] = {}
            /\ state[f] = "final" => holders[f] # {}
            /\ state[f] \in {"running", "final"} => result[f] # None
            /\ state[f] \in {"none", "final", "destroyed"} => continuations[f] = <<>>
        BY DEF IInv, StateInv
      <4>2. CASE f = a
        BY <1>2, <2>1, <2>2, <2>3, <2>6, <4>2
      <4>3. CASE f = c
        BY <1>2, <2>1, <2>2, <2>3, <2>6, <4>1, <4>3
      <4>4. CASE f \notin {a, c}
        BY <1>2, <2>1, <2>2, <2>3, <2>6, <4>1, <4>4
      <4> QED
        BY <4>2, <4>3, <4>4
    <3> QED
      BY <3>1, <3>2 DEF StateInv
  <2>9. ContinuationInv'
    <3>1. \A f \in Frames : \A i \in 1 .. Len(continuations[f]) :
            continuations[f][i] \in Awaiters /\ continuations[f][i] # a
      BY <1>1, ContinuationTypes DEF IInv, ContinuationInv
    <3> SUFFICES ASSUME NEW f \in Frames, NEW i \in 1 .. Len(continuations'[f])
                 PROVE  /\ state'[continuations'[f][i]] = "suspended"
                        /\ continuations'[f][i] \in holders'[f]
                        /\ \A j \in 1 .. Len(continuations'[f]) :
                             continuations'[f][i] = continuations'[f][j] => i = j
      BY DEF ContinuationInv
    <3>2. f # a
      BY <1>2, <2>6
    <3>3. CASE f # c
      <4>1. continuations'[f] = continuations[f]
        BY <2>6, <3>3
      <4>2. /\ state[continuations[f][i]] = "suspended"
            /\ continuations[f][i] \in holders[f]
            /\ \A j \in 1 .. Len(continuations[f]) :
                 continuations[f][i] = continuations[f][j] => i = j
        BY <4>1 DEF IInv, ContinuationInv
      <4> QED
        BY <1>1, <1>3, <2>2, <3>1, <3>2, <4>1, <4>2
    <3>4. CASE f = c /\ i \in 1 .. Len(continuations[c])
      <4>1. continuations'[f][i] = continuations[c][i]
        BY <2>5, <2>6, <3>4
      <4>2. \A j \in 1 .. Len(continuations[c]) : continuations[c][i] = continuations[c][j] => i = j
        BY <1>2, <3>4 DEF IInv, ContinuationInv
      <4>3. \A j \in 1 .. Len(continuations'[f]) : continuations'[f][i] = continuations'[f][j] => i = j
        <5>1. \A j \in 1 .. Len(continuations[c]) : continuations'[f][j] = continuations[c][j]
          BY <2>5, <2>6, <3>4
        <5>2. continuations'[f][Len(continuations[c]) + 1] = a /\ continuations'[f][i] # a
          BY <1>2, <2>5, <2>6, <3>1, <3>4, <4>1
        <5>3. \A j \in 1 .. Len(continuations'[f]) :
                j \in 1 .. Len(continuations[c]) \/ j = Len(continuations[c]) + 1
          BY <2>4, <2>5, <2>6, <3>4
        <5> QED
          BY <4>1, <4>2, <5>1, <5>2, <5>3
      <4> QED
        BY <1>2, <1>3, <2>2, <3>1, <3>2, <3>4, <4>1, <4>3 DEF IInv, ContinuationInv, Frames
    <3>5. CASE f = c /\ i = Len(continuations[c]) + 1
      <4>1. continuations'[f][i] = a
        BY <2>5, <2>6, <3>5
      <4>2. \A j \in 1 .. Len(continuations[c]) : continuations'[f][j] # a
        BY <1>2, <2>5, <2>6, <3>1, <3>5
      <4>3. \A j \in 1 .. Len(continuations'[f]) :
              j \in 1 .. Len(continuations[c]) \/ j = Len(continuations[c]) + 1
        BY <2>4, <2>5, <2>6, <3>5
      <4> QED
        BY <1>2, <2>2, <3>5, <4>1, <4>2, <4>3
    <3> QED
      BY <2>4, <2>5, <2>6, <3>3, <3>4, <3>5
  <2>10. StackInv'
    <3>1. ASSUME NEW i \in 1 .. Len(stack)
          PROVE  /\ stack[i].frame \in Frames \ {a}
                 /\ stack[i].frame # c
      <4>1. stack[i] \in Entries
        BY <1>1, <3>1, ElementOfSeq DEF TypeOK, Entries
      <4> QED
        BY <1>1, <2>3, <3>1, <4>1 DEF IInv, StackInv, Entries
    <3> QED
      BY <2>1, <2>2, <2>6, <3>1 DEF IInv, StackInv
  <2>11. ResultInv'
    BY <1>1, <2>1 DEF IInv, ResultInv
  <2> QED
    BY <1>2, <1>5, <2>2, <2>7, <2>8, <2>9, <2>10, <2>11 DEF IInv
<1> QED
  BY <1>6, <1>7

\* The top of the stack is a running frame with a result; its next awaiter is another
\* frame, suspended, that is not waiting anywhere else.
LEMMA TopFacts ==
  ASSUME IInv, stack # <<>>
  PROVE  /\ stack \in Seq(Entries) /\ Len(stack) \in Nat \ {0}
         /\ Last(stack) = stack[Len(stack)]
         /\ Last(stack).frame \in Frames /\ Last(stack).left \in Nat
         /\ state[Last(stack).frame] = "running" /\ result[Last(stack).frame] # None
         /\ Last(stack).left = Len(continuations[Last(stack).frame])
         /\ \A i \in 1 .. Len(stack) - 1 : /\ stack[i] \in Entries
                                           /\ stack[i].frame # Last(stack).frame
<1>1. stack \in Seq(Entries)
  BY DEF IInv, TypeOK, Entries
<1>2. /\ Len(stack) \in Nat \ {0}
      /\ Last(stack) = stack[Len(stack)] /\ stack[Len(stack)] \in Entries
  BY <1>1, FrontFacts
<1>3. /\ state[stack[Len(stack)].frame] = "running"
      /\ stack[Len(stack)].left = Len(continuations[stack[Len(stack)].frame])
      /\ \A j \in 1 .. Len(stack) : stack[Len(stack)].frame = stack[j].frame => Len(stack) = j
  BY <1>2 DEF IInv, StackInv
<1>4. stack[Len(stack)].frame \in Frames /\ stack[Len(stack)].left \in Nat
  BY <1>2 DEF Entries
<1>5. result[stack[Len(stack)].frame] # None
  BY <1>3, <1>4 DEF IInv, StateInv
<1>6. \A i \in 1 .. Len(stack) - 1 : /\ stack[i] \in Entries
                                     /\ stack[i].frame # stack[Len(stack)].frame
  BY <1>1, <1>2, <1>3, ElementOfSeq
<1> QED
  BY <1>1, <1>2, <1>3, <1>4, <1>5, <1>6

LEMMA ContinueIInv ==
  ASSUME IInv, Continue
  PROVE  IInv'
<1> DEFINE f == Last(stack).frame
           n == Len(stack)
           a == Head(continuations[f])
<1>1. /\ stack # <<>> /\ Last(stack).left > 0
      /\ continuations' = [continuations EXCEPT ![f] = Tail(@)]
      /\ seen' = [seen EXCEPT ![a] = result[f]]
      /\ result' = [result EXCEPT ![a] = result[f]]
      /\ stack' = Append(Front(stack) \o <<[frame |-> f, left |-> Last(stack).left - 1]>>,
                         [frame |-> a, left |-> Len(continuations[a])])
      /\ \/ /\ Unref(f, a)
            /\ state' = [state EXCEPT ![a] = "running", ![f] = AfterRelease(@, reference[f] - 1)]
         \/ /\ state' = [state EXCEPT ![a] = "running"]
            /\ UNCHANGED <<reference, holders>>
      /\ calling' = calling /\ cause' = cause
  BY DEF Continue
<1>2. /\ TypeOK /\ CountInv /\ Leaf \in Frames /\ Awaiters \subseteq Frames
      /\ stack \in Seq(Entries) /\ n \in Nat \ {0} /\ Last(stack) = stack[n]
      /\ f \in Frames /\ Last(stack).left \in Nat
      /\ state[f] = "running" /\ result[f] # None
      /\ Last(stack).left = Len(continuations[f])
      /\ \A i \in 1 .. n - 1 : stack[i] \in Entries /\ stack[i].frame # f
  BY <1>1, TopFacts DEF IInv, Frames
<1>3. /\ continuations[f] \in Seq(Awaiters) /\ continuations[f] # <<>>
      /\ Len(continuations[f]) \in Nat \ {0} /\ a = continuations[f][1]
      /\ Tail(continuations[f]) \in Seq(Awaiters)
      /\ Len(Tail(continuations[f])) = Len(continuations[f]) - 1
      /\ \A i \in 1 .. Len(continuations[f]) - 1 : Tail(continuations[f])[i] = continuations[f][i + 1]
  <2>1. continuations[f] \in Seq(Awaiters) /\ Len(continuations[f]) > 0
    BY <1>1, <1>2 DEF TypeOK
  <2> HIDE DEF f
  <2> QED
    BY <2>1
<1>4. /\ a \in Awaiters /\ a \in holders[f] /\ state[a] = "suspended" /\ a # f
      /\ \A i \in 1 .. Len(continuations[f]) : continuations[f][i] = a => i = 1
  <2>1. 1 \in 1 .. Len(continuations[f])
    BY <1>3
  <2>2. continuations[f][1] \in Awaiters
    BY <1>2, <2>1, ContinuationTypes
  <2> QED
    BY <1>2, <1>3, <2>1, <2>2 DEF IInv, ContinuationInv
<1> HIDE DEF f, a, n
<1>5. Child[a] = f
  BY <1>2, <1>4 DEF IInv, HolderInv
<1>6. /\ CountInv'
      /\ reference' \in [Frames -> Nat]
      /\ holders' \in [Frames -> SUBSET ({Program, Driver, Timer} \cup Awaiters)]
      /\ holders'[f] \in {holders[f], holders[f] \ {a}}
      /\ \A g \in Frames \ {f} : holders'[g] = holders[g]
  <2>1. CASE Unref(f, a)
    BY <1>2, <1>4, <2>1, UnrefCount
  <2>2. CASE UNCHANGED <<reference, holders>>
    BY <1>2, <2>2 DEF CountInv, TypeOK
  <2> QED
    BY <1>1, <2>1, <2>2
<1>7. /\ state' \in [Frames -> {"none", "suspended", "running", "final", "destroyed"}]
      /\ state'[a] = "running"
      /\ \A g \in Frames \ {a} : state'[g] = state[g]
  <2>1. /\ state \in [Frames -> {"none", "suspended", "running", "final", "destroyed"}]
        /\ a \in Frames /\ AfterRelease(state[f], reference[f] - 1) = "running"
    BY <1>2, <1>4 DEF TypeOK, AfterRelease
  <2>2. CASE state' = [state EXCEPT ![a] = "running"]
    BY <2>1, <2>2
  <2>3. CASE state' = [state EXCEPT ![a] = "running", ![f] = AfterRelease(@, reference[f] - 1)]
    <3>1. [state EXCEPT ![a] = "running"][f] = state[f]
      BY <1>2, <1>4, <2>1
    <3>2. state' = [[state EXCEPT ![a] = "running"] EXCEPT ![f] = "running"]
      BY <2>1, <2>3, <3>1
    <3> QED
      BY <1>2, <1>4, <2>1, <3>2
  <2> QED
    BY <1>1, <2>2, <2>3
<1>8. /\ result' \in [Frames -> Results] /\ result'[a] = result[f] /\ result[f] \in Results
      /\ \A g \in Frames \ {a} : result'[g] = result[g]
      /\ seen' \in [Awaiters -> Results] /\ seen'[a] = result[f]
      /\ \A b \in Awaiters \ {a} : seen'[b] = seen[b]
  BY <1>1, <1>2, <1>4 DEF TypeOK
<1>9. /\ continuations' \in [Frames -> Seq(Awaiters)]
      /\ continuations'[f] = Tail(continuations[f])
      /\ \A g \in Frames \ {f} : continuations'[g] = continuations[g]
  BY <1>1, <1>2, <1>3 DEF TypeOK
<1>10. /\ stack' \in Seq(Entries) /\ Len(stack') = n + 1
       /\ \A i \in 1 .. n - 1 : stack'[i] = stack[i]
       /\ stack'[n] = [frame |-> f, left |-> Last(stack).left - 1]
       /\ stack'[n + 1] = [frame |-> a, left |-> Len(continuations[a])]
  <2> DEFINE e == [frame |-> f, left |-> Last(stack).left - 1]
             x == [frame |-> a, left |-> Len(continuations[a])]
  <2>1. e \in Entries /\ x \in Entries
    BY <1>1, <1>2, <1>4, ContinuationTypes DEF Entries
  <2>2. stack' = Append(Front(stack) \o <<e>>, x)
    BY <1>1
  <2> HIDE DEF e, x
  <2>3. /\ stack' \in Seq(Entries) /\ Len(stack') = Len(stack) + 1
        /\ \A i \in 1 .. Len(stack) - 1 : stack'[i] = stack[i]
        /\ stack'[Len(stack)] = e /\ stack'[Len(stack) + 1] = x
    <3>1. /\ Append(Front(stack) \o <<e>>, x) \in Seq(Entries)
          /\ Len(Append(Front(stack) \o <<e>>, x)) = Len(stack) + 1
          /\ \A i \in 1 .. Len(stack) - 1 : Append(Front(stack) \o <<e>>, x)[i] = stack[i]
          /\ Append(Front(stack) \o <<e>>, x)[Len(stack)] = e
          /\ Append(Front(stack) \o <<e>>, x)[Len(stack) + 1] = x
      BY <1>1, <1>2, <2>1, ReplaceTopAndPush
    <3> QED
      BY <2>2, <3>1, Zenon
  <2> QED
    BY <2>3 DEF n, e, x
<1>11. TypeOK'
  BY <1>1, <1>2, <1>6, <1>7, <1>8, <1>9, <1>10 DEF TypeOK, Entries
<1>12. HolderInv'
  <2>1. \A g \in Frames : holders'[g] \subseteq holders[g]
    BY <1>6
  <2>2. ASSUME NEW g \in Frames, NEW h \in Awaiters, h \in holders'[g]
        PROVE  Child[h] = g /\ h # g /\ state'[h] \in {"suspended", "running"}
    BY <1>2, <1>7, <2>1, <2>2 DEF IInv, HolderInv
  <2>3. calling' # None => calling' \in holders'[Leaf]
    <3>1. calling # None => calling # a
      BY <1>2, <1>4, HolderAssumption DEF TypeOK
    <3> QED
      BY <1>1, <1>2, <1>6, <3>1 DEF IInv, HolderInv
  <2> QED
    BY <1>1, <2>1, <2>2, <2>3 DEF IInv, HolderInv
<1>13. StateInv'
  <2>1. state'[Leaf] # "none"
    BY <1>2, <1>7 DEF IInv, StateInv
  <2>2. ASSUME NEW g \in Frames
        PROVE  /\ state'[g] \in {"none", "destroyed"} => holders'[g] = {}
               /\ state'[g] = "final" => holders'[g] # {}
               /\ state'[g] \in {"running", "final"} => result'[g] # None
               /\ state'[g] \in {"none", "final", "destroyed"} => continuations'[g] = <<>>
    <3>1. CASE g \in {a, f}
      BY <1>2, <1>4, <1>7, <1>8, <3>1
    <3>2. CASE g \notin {a, f}
      <4>1. /\ state'[g] = state[g] /\ holders'[g] = holders[g] /\ result'[g] = result[g]
            /\ continuations'[g] = continuations[g]
        BY <1>6, <1>7, <1>8, <1>9, <3>2
      <4> QED
        BY <4>1 DEF IInv, StateInv
    <3> QED
      BY <3>1, <3>2
  <2> QED
    BY <2>1, <2>2 DEF StateInv
<1>14. ContinuationInv'
  <2> SUFFICES ASSUME NEW g \in Frames, NEW i \in 1 .. Len(continuations'[g])
               PROVE  /\ state'[continuations'[g][i]] = "suspended"
                      /\ continuations'[g][i] \in holders'[g]
                      /\ \A j \in 1 .. Len(continuations'[g]) :
                           continuations'[g][i] = continuations'[g][j] => i = j
    BY DEF ContinuationInv
  <2>1. CASE g = f
    <3>1. /\ i + 1 \in 1 .. Len(continuations[f])
          /\ Len(continuations'[g]) = Len(continuations[f]) - 1
          /\ \A j \in 1 .. Len(continuations[f]) - 1 : continuations'[g][j] = continuations[f][j + 1]
      <4>1. continuations'[g] = Tail(continuations[f])
        BY <1>9, <2>1
      <4>2. i \in 1 .. Len(continuations[f]) - 1
        BY <1>3, <4>1
      <4> QED
        BY <1>3, <4>1, <4>2
    <3>2. continuations[f][i + 1] \in Awaiters
      BY <1>2, <3>1, ContinuationTypes
    <3>3. /\ state[continuations[f][i + 1]] = "suspended"
          /\ continuations[f][i + 1] \in holders[f]
          /\ \A j \in 1 .. Len(continuations[f]) : continuations[f][i + 1] = continuations[f][j] => i + 1 = j
      BY <1>2, <3>1 DEF IInv, ContinuationInv
    <3>4. continuations[f][i + 1] # a
      BY <1>3, <1>4, <3>1
    <3>5. \A j \in 1 .. Len(continuations'[g]) : continuations'[g][i] = continuations'[g][j] => i = j
      <4> SUFFICES ASSUME NEW j \in 1 .. Len(continuations'[g]), continuations'[g][i] = continuations'[g][j]
                   PROVE  i = j
        OBVIOUS
      <4>1. /\ j \in 1 .. Len(continuations[f]) - 1 /\ i \in 1 .. Len(continuations[f]) - 1
            /\ j + 1 \in 1 .. Len(continuations[f])
        BY <1>3, <3>1
      <4>2. continuations[f][i + 1] = continuations[f][j + 1]
        BY <3>1, <4>1
      <4>3. i + 1 = j + 1
        BY <3>3, <4>1, <4>2
      <4> QED
        BY <4>1, <4>3
    <3>6. continuations'[g][i] = continuations[f][i + 1]
      BY <3>1
    <3> QED
      BY <1>2, <1>6, <1>7, <2>1, <3>2, <3>3, <3>4, <3>5, <3>6
  <2>2. CASE g # f
    <3>1. continuations'[g] = continuations[g] /\ holders'[g] = holders[g]
      BY <1>6, <1>9, <2>2
    <3>2. /\ state[continuations[g][i]] = "suspended"
          /\ continuations[g][i] \in holders[g]
          /\ \A j \in 1 .. Len(continuations[g]) : continuations[g][i] = continuations[g][j] => i = j
      BY <3>1 DEF IInv, ContinuationInv
    <3>3. continuations[g][i] \in Awaiters /\ Child[continuations[g][i]] = g
      BY <1>2, <3>1, <3>2, ContinuationTypes DEF IInv, HolderInv
    <3>4. continuations[g][i] # a
      BY <1>5, <2>2, <3>3
    <3> QED
      BY <1>2, <1>7, <3>1, <3>2, <3>3, <3>4
  <2> QED
    BY <2>1, <2>2
<1>15. StackInv'
  <2>1. ASSUME NEW i \in 1 .. n - 1
        PROVE  /\ stack[i].frame \in Frames /\ stack[i].frame \notin {a, f}
               /\ state[stack[i].frame] = "running"
               /\ stack[i].left = Len(continuations[stack[i].frame])
               /\ \A j \in 1 .. n : stack[i].frame = stack[j].frame => i = j
    <3>1. i \in 1 .. Len(stack)
      BY <1>2, <2>1 DEF n
    <3>2. /\ state[stack[i].frame] = "running"
          /\ stack[i].left = Len(continuations[stack[i].frame])
          /\ \A j \in 1 .. n : stack[i].frame = stack[j].frame => i = j
      BY <3>1 DEF IInv, StackInv, n
    <3> QED
      BY <1>2, <1>4, <2>1, <3>2 DEF Entries
  <2> SUFFICES ASSUME NEW i \in 1 .. n + 1
               PROVE  /\ state'[stack'[i].frame] = "running"
                      /\ stack'[i].left = Len(continuations'[stack'[i].frame])
                      /\ \A j \in 1 .. n + 1 : stack'[i].frame = stack'[j].frame => i = j
    BY <1>10 DEF StackInv
  <2>2. /\ stack'[n].frame = f /\ stack'[n + 1].frame = a
        /\ \A j \in 1 .. n - 1 : stack'[j].frame = stack[j].frame /\ stack[j].frame \notin {a, f}
        /\ \A j \in 1 .. n + 1 : j \in 1 .. n - 1 \/ j = n \/ j = n + 1
    BY <1>2, <1>10, <2>1
  <2>3. CASE i \in 1 .. n - 1
    <3>1. stack'[i] = stack[i]
      BY <1>10, <2>3
    <3>2. \A j \in 1 .. n + 1 : stack'[i].frame = stack'[j].frame => i = j
      <4>1. /\ stack[i].frame \notin {a, f}
            /\ \A j \in 1 .. n : stack[i].frame = stack[j].frame => i = j
            /\ stack'[i].frame = stack[i].frame
        BY <2>1, <2>2, <2>3
      <4>2. \A j \in 1 .. n - 1 : j \in 1 .. n
        BY <1>2
      <4> QED
        BY <2>2, <4>1, <4>2, Zenon
    <3>3. /\ stack[i].frame \in Frames \ {a, f} /\ state[stack[i].frame] = "running"
          /\ stack[i].left = Len(continuations[stack[i].frame])
      BY <2>1, <2>3
    <3>4. state'[stack[i].frame] = "running" /\ continuations'[stack[i].frame] = continuations[stack[i].frame]
      BY <1>7, <1>9, <3>3
    <3> QED
      BY <3>1, <3>2, <3>3, <3>4
  <2>4. CASE i = n
    <3>1. stack'[i].left = Len(continuations'[f])
      BY <1>2, <1>3, <1>9, <1>10, <2>4
    <3>2. \A j \in 1 .. n + 1 : stack'[i].frame = stack'[j].frame => i = j
      BY <1>4, <2>2, <2>4
    <3> QED
      BY <1>2, <1>4, <1>7, <2>2, <2>4, <3>1, <3>2
  <2>5. CASE i = n + 1
    <3>1. stack'[i].left = Len(continuations'[a])
      BY <1>2, <1>4, <1>9, <1>10, <2>5
    <3>2. \A j \in 1 .. n + 1 : stack'[i].frame = stack'[j].frame => i = j
      BY <1>4, <2>2, <2>5
    <3> QED
      BY <1>7, <2>2, <2>5, <3>1, <3>2
  <2> QED
    BY <2>2, <2>3, <2>4, <2>5
<1>16. ResultInv'
  BY <1>1, <1>2, <1>4, <1>8, ChildAssumption DEF IInv, ResultInv
<1> QED
  BY <1>6, <1>11, <1>12, <1>13, <1>14, <1>15, <1>16 DEF IInv

\* The top of the stack ends: it gives up its child, if it still holds it, and stays
\* for its own handles.
LEMMA FinalSuspendIInv ==
  ASSUME IInv, FinalSuspend
  PROVE  IInv'
<1> DEFINE f == Last(stack).frame
           n == Len(stack)
           last == FinalState(reference[f])
           end == [state EXCEPT ![f] = last]
           Gives == f \in Awaiters /\ f \in holders[Child[f]]
<1>1. /\ stack # <<>> /\ Last(stack).left = 0
      /\ continuations' = [continuations EXCEPT ![f] = <<>>]
      /\ stack' = Front(stack)
      /\ Gives => /\ Unref(Child[f], f)
                  /\ state' = [end EXCEPT ![Child[f]] = AfterRelease(@, reference[Child[f]] - 1)]
      /\ ~Gives => state' = end /\ UNCHANGED <<reference, holders>>
      /\ UNCHANGED <<result, calling, cause, seen>>
  BY DEF FinalSuspend
<1>2. /\ TypeOK /\ CountInv /\ Leaf \in Frames /\ Awaiters \subseteq Frames
      /\ stack \in Seq(Entries) /\ n \in Nat \ {0} /\ Last(stack) = stack[n]
      /\ f \in Frames /\ state[f] = "running" /\ result[f] # None
      /\ Last(stack).left = Len(continuations[f])
      /\ \A i \in 1 .. n - 1 : stack[i] \in Entries /\ stack[i].frame # f
  BY <1>1, TopFacts DEF IInv, Frames
<1>3. /\ stack' \in Seq(Entries) /\ Len(stack') = n - 1
      /\ \A i \in 1 .. n - 1 : stack'[i] = stack[i]
  BY <1>1, <1>2, FrontFacts
<1> HIDE DEF f, n
<1>4. continuations[f] = <<>>
  <2>1. continuations[f] \in Seq(Awaiters) /\ Len(continuations[f]) = 0
    BY <1>1, <1>2 DEF TypeOK
  <2> QED
    BY <2>1, EmptySeq
<1>5. continuations' = continuations
  BY <1>1, <1>2, <1>4 DEF TypeOK
<1>6. last \in {"final", "destroyed"} /\ (last = "destroyed" <=> holders[f] = {})
  <2>1. IsFiniteSet(holders[f]) /\ reference[f] = Cardinality(holders[f])
    BY <1>2 DEF CountInv
  <2> QED
    BY <2>1, FS_EmptySet DEF FinalState
<1> HIDE DEF last
<1>7. \A g \in Frames : f \in Awaiters /\ f \in holders[g] => Child[f] = g /\ f # g
  BY DEF IInv, HolderInv
<1>8. /\ CountInv'
      /\ reference' \in [Frames -> Nat]
      /\ holders' \in [Frames -> SUBSET ({Program, Driver, Timer} \cup Awaiters)]
      /\ \A g \in Frames : holders'[g] = IF f \in Awaiters THEN holders[g] \ {f} ELSE holders[g]
      /\ holders'[f] = holders[f]
      /\ state' \in [Frames -> {"none", "suspended", "running", "final", "destroyed"}]
      /\ state'[f] = last
      /\ \A g \in Frames \ {f} :
           \/ state'[g] = state[g] /\ (state[g] = "final" => holders'[g] # {})
           \/ state[g] = "final" /\ state'[g] = "destroyed" /\ holders'[g] = {}
  <2>1. state \in [Frames -> {"none", "suspended", "running", "final", "destroyed"}]
    BY <1>2 DEF TypeOK
  <2>2. /\ end \in [Frames -> {"none", "suspended", "running", "final", "destroyed"}]
        /\ end[f] = last /\ \A g \in Frames \ {f} : end[g] = state[g]
    BY <1>2, <1>6, <2>1
  <2>3. \A g \in Frames : state[g] = "final" => holders[g] # {}
    BY DEF IInv, StateInv
  <2> HIDE DEF end
  <2>4. CASE ~Gives
    <3>1. state' = end /\ UNCHANGED <<reference, holders>>
      BY <1>1, <2>4
    <3>2. \A g \in Frames : f \in Awaiters => f \notin holders[g]
      BY <1>7, <2>4
    <3>3. CountInv' /\ reference' \in [Frames -> Nat]
          /\ holders' \in [Frames -> SUBSET ({Program, Driver, Timer} \cup Awaiters)]
      BY <1>2, <3>1 DEF CountInv, TypeOK
    <3>4. \A g \in Frames : holders'[g] = IF f \in Awaiters THEN holders[g] \ {f} ELSE holders[g]
      BY <3>1, <3>2
    <3> QED
      BY <2>2, <2>3, <3>1, <3>3, <3>4
  <2>5. CASE Gives
    <3> DEFINE c == Child[f]
    <3>1. f \in Awaiters /\ c \in Frames /\ f \in holders[c] /\ c # f /\ Unref(c, f)
      BY <1>1, <1>7, <2>5, ChildAssumption
    <3>2. state' = [end EXCEPT ![c] = AfterRelease(@, reference[c] - 1)]
      BY <1>1, <2>5
    <3> HIDE DEF c
    <3>3. /\ CountInv'
          /\ reference' \in [Frames -> Nat]
          /\ holders' \in [Frames -> SUBSET ({Program, Driver, Timer} \cup Awaiters)]
          /\ holders'[c] = holders[c] \ {f}
          /\ \A g \in Frames \ {c} : holders'[g] = holders[g]
          /\ reference[c] - 1 = 0 <=> holders'[c] = {}
      BY <1>2, <3>1, UnrefCount
    <3>4. /\ state' \in [Frames -> {"none", "suspended", "running", "final", "destroyed"}]
          /\ state'[f] = last
          /\ state'[c] = IF holders'[c] = {} /\ state[c] = "final" THEN "destroyed" ELSE state[c]
          /\ \A g \in Frames \ {f, c} : state'[g] = state[g]
      BY <1>2, <2>1, <2>2, <3>1, <3>2, <3>3 DEF AfterRelease
    <3>5. \A g \in Frames \ {c} : f \notin holders[g]
      BY <1>7, <3>1
    <3>6. \A g \in Frames : holders'[g] = IF f \in Awaiters THEN holders[g] \ {f} ELSE holders[g]
      BY <3>1, <3>3, <3>5
    <3>7. ASSUME NEW g \in Frames \ {f}
          PROVE  \/ state'[g] = state[g] /\ (state[g] = "final" => holders'[g] # {})
                 \/ state[g] = "final" /\ state'[g] = "destroyed" /\ holders'[g] = {}
      <4>1. CASE g = c
        BY <3>4, <4>1
      <4>2. CASE g # c
        BY <2>3, <3>3, <3>4, <4>2
      <4> QED
        BY <4>1, <4>2
    <3> QED
      BY <1>2, <3>1, <3>3, <3>4, <3>6, <3>7
  <2> QED
    BY <2>4, <2>5
<1>9. \A g \in Frames \ {f} : state[g] \in {"suspended", "running"} => state'[g] = state[g]
  BY <1>8
<1>10. TypeOK'
  <2>1. UNCHANGED <<result, continuations, calling, cause, seen>>
    BY <1>1, <1>5
  <2>2. /\ result' \in [Frames -> Results] /\ continuations' \in [Frames -> Seq(Awaiters)]
        /\ calling' \in {Driver, Timer, None} /\ cause' \in Results /\ seen' \in [Awaiters -> Results]
    BY <1>2, <2>1 DEF TypeOK
  <2>3. stack' \in Seq([frame : Frames, left : Nat])
    BY <1>3 DEF Entries
  <2>4. /\ state' \in [Frames -> {"none", "suspended", "running", "final", "destroyed"}]
        /\ reference' \in [Frames -> Nat]
        /\ holders' \in [Frames -> SUBSET ({Program, Driver, Timer} \cup Awaiters)]
    BY <1>8
  <2> QED
    BY <2>2, <2>3, <2>4 DEF TypeOK
<1>11. HolderInv'
  <2>1. ASSUME NEW g \in Frames, NEW h \in Awaiters, h \in holders'[g]
        PROVE  Child[h] = g /\ h # g /\ state'[h] \in {"suspended", "running"}
    <3>1. h \in holders[g] /\ h # f
      BY <1>8, <2>1
    <3>2. Child[h] = g /\ h # g /\ state[h] \in {"suspended", "running"}
      BY <2>1, <3>1 DEF IInv, HolderInv
    <3> QED
      BY <1>2, <1>9, <3>1, <3>2
  <2>2. ASSUME NEW g \in Frames, Driver \in holders'[g] PROVE g = Leaf /\ calling' = Driver
    BY <1>1, <1>8, <2>2 DEF IInv, HolderInv
  <2>3. calling' # None => calling' \in holders'[Leaf]
    <3>1. calling # None => calling \notin Awaiters
      BY <1>2, HolderAssumption DEF TypeOK
    <3> QED
      BY <1>1, <1>2, <1>8, <3>1 DEF IInv, HolderInv
  <2> QED
    BY <2>1, <2>2, <2>3 DEF HolderInv
<1>12. StateInv'
  <2>1. ASSUME NEW g \in Frames
        PROVE  /\ state'[g] \in {"none", "destroyed"} => holders'[g] = {}
               /\ state'[g] = "final" => holders'[g] # {}
               /\ state'[g] \in {"running", "final"} => result'[g] # None
               /\ state'[g] \in {"none", "final", "destroyed"} => continuations'[g] = <<>>
               /\ state[g] # "none" => state'[g] # "none"
    <3>1. CASE g = f
      BY <1>1, <1>2, <1>4, <1>5, <1>6, <1>8, <3>1
    <3>2. CASE g # f
      <4>1. /\ state[g] \in {"none", "destroyed"} => holders[g] = {}
            /\ state[g] \in {"running", "final"} => result[g] # None
            /\ state[g] \in {"none", "final", "destroyed"} => continuations[g] = <<>>
        BY DEF IInv, StateInv
      <4>2. holders'[g] \subseteq holders[g]
        BY <1>8
      <4> QED
        BY <1>1, <1>5, <1>8, <3>2, <4>1, <4>2
    <3> QED
      BY <3>1, <3>2
  <2> QED
    BY <1>2, <2>1 DEF IInv, StateInv
<1>13. ContinuationInv'
  <2> SUFFICES ASSUME NEW g \in Frames, NEW i \in 1 .. Len(continuations[g])
               PROVE  /\ state'[continuations[g][i]] = "suspended"
                      /\ continuations[g][i] \in holders'[g]
                      /\ \A j \in 1 .. Len(continuations[g]) :
                           continuations[g][i] = continuations[g][j] => i = j
    BY <1>5 DEF ContinuationInv
  <2>1. /\ state[continuations[g][i]] = "suspended"
        /\ continuations[g][i] \in holders[g]
        /\ \A j \in 1 .. Len(continuations[g]) : continuations[g][i] = continuations[g][j] => i = j
    BY DEF IInv, ContinuationInv
  <2>2. continuations[g][i] \in Frames /\ continuations[g][i] # f
    BY <1>2, <2>1, ContinuationTypes
  <2> QED
    BY <1>8, <1>9, <2>1, <2>2
<1>14. StackInv'
  <2> SUFFICES ASSUME NEW i \in 1 .. n - 1
               PROVE  /\ state'[stack[i].frame] = "running"
                      /\ stack[i].left = Len(continuations[stack[i].frame])
                      /\ \A j \in 1 .. n - 1 : stack[i].frame = stack[j].frame => i = j
    BY <1>3, <1>5 DEF StackInv
  <2>1. i \in 1 .. Len(stack) /\ \A j \in 1 .. n - 1 : j \in 1 .. Len(stack)
    BY <1>2 DEF n
  <2>2. /\ state[stack[i].frame] = "running"
        /\ stack[i].left = Len(continuations[stack[i].frame])
        /\ \A j \in 1 .. n - 1 : stack[i].frame = stack[j].frame => i = j
    BY <2>1 DEF IInv, StackInv
  <2>3. stack[i].frame \in Frames /\ stack[i].frame # f
    BY <1>2 DEF Entries
  <2> QED
    BY <1>9, <2>2, <2>3
<1>15. ResultInv'
  BY <1>1 DEF IInv, ResultInv
<1> QED
  BY <1>8, <1>10, <1>11, <1>12, <1>13, <1>14, <1>15 DEF IInv

LEMMA StutterIInv ==
  ASSUME IInv, UNCHANGED vars
  PROVE  IInv'
<1>1. UNCHANGED <<state, reference, holders, result, continuations, stack, calling, cause, seen>>
  BY DEF vars
<1>2. TypeOK' /\ CountInv' /\ HolderInv'
  BY <1>1 DEF IInv, TypeOK, CountInv, HolderInv
<1>3. StateInv' /\ ContinuationInv' /\ StackInv' /\ ResultInv'
  BY <1>1 DEF IInv, StateInv, ContinuationInv, StackInv, ResultInv
<1> QED
  BY <1>2, <1>3 DEF IInv

LEMMA NextIInv == IInv /\ [Next]_vars => IInv'
<1> SUFFICES ASSUME IInv, [Next]_vars PROVE IInv'
  OBVIOUS
<1>1. CASE Progress
  BY <1>1, ContinueIInv, FinalSuspendIInv, ReturnIInv, TimerFiresIInv DEF Progress
<1>2. ASSUME NEW a \in Awaiters, Begin(a) PROVE IInv'
  BY <1>2, BeginIInv
<1>3. ASSUME NEW f \in Frames, Drop(f) PROVE IInv'
  BY <1>3, DropIInv
<1>4. ASSUME NEW v \in Values \cup {None}, Drive(v) PROVE IInv'
  BY <1>4, DriveIInv
<1>5. CASE UNCHANGED vars
  BY <1>5, StutterIInv
<1> QED
  BY <1>1, <1>2, <1>3, <1>4, <1>5 DEF Next

LEMMA Invariance == Spec => []IInv
  BY InitIInv, NextIInv, PTL DEF Spec
-----------------------------------------------------------------------------
(* Results.                                                                *)

\* The variables keep their types; in particular a reference count never goes below
\* zero, so that it never wraps around (operation.h 91-110).
THEOREM TypeCorrect == Spec => []TypeOK
<1>1. IInv => TypeOK
  BY DEF IInv
<1> QED
  BY <1>1, Invariance, PTL

\* A frame is destroyed only when nobody can reach it any more: no handle, no return
\* of the stack, no continuation (operation.h 35-37, 102-110), for any set of
\* coroutines, whatever each awaits and whoever drops handles while frames run.
THEOREM DestroyedUnreachable == Spec => []NoDangling
<1>1. IInv => NoDangling
  <2> SUFFICES ASSUME IInv, NEW f \in Frames, state[f] = "destroyed"
               PROVE  /\ holders[f] = {}
                      /\ ~OnStack(f)
                      /\ \A g \in Frames : state[g] # "destroyed" => ~Contains(continuations[g], f)
    BY DEF NoDangling
  <2>1. holders[f] = {}
    BY DEF IInv, StateInv
  <2>2. ~OnStack(f)
    <3>1. DOMAIN stack = 1 .. Len(stack)
      BY LenProperties DEF IInv, TypeOK
    <3> QED
      BY <3>1 DEF OnStack, IInv, StackInv
  <2>3. \A g \in Frames : ~Contains(continuations[g], f)
    BY DEF Contains, IInv, ContinuationInv
  <2> QED
    BY <2>1, <2>2, <2>3
<1> QED
  BY <1>1, Invariance, PTL

\* A frame that has ended is kept only for a handle that exists: releaseHandle and
\* final_suspend leave no frame behind, in whatever order the handles go.
THEOREM EndedFramesHeld == Spec => []NoLeak
<1>1. IInv => NoLeak
  BY DEF IInv, StateInv, NoLeak
<1> QED
  BY <1>1, Invariance, PTL

\* Every coroutine gets the result of whoever ended the operation first
\* (operation.h 52-83, 504-511), however long the chain of coroutines.
THEOREM FirstResultForAll == Spec => []FirstEndWins
<1>1. IInv => FirstEndWins
  BY DEF IInv, ResultInv, FirstEndWins
<1> QED
  BY <1>1, Invariance, PTL
=============================================================================
