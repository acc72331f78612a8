------------------------- MODULE CoroutineSocket_proofs -------------------------
(***************************************************************************)
(* Proofs about CoroutineSocket for any callers with any programs, any     *)
(* buffer and any number of blocks, on TCP and on the loopback socket.     *)
(*                                                                         *)
(* The queues hold the operations that have begun and are not over, except *)
(* that of the coroutine whose turn it is (QueueInv); whenever one of them *)
(* could go on, a loop is on its way that will reach it (WakeInv): an      *)
(* operation is pushed only when nothing is left to move, so that what the *)
(* running loop does not reach has to wait anyway.  On TCP the pending     *)
(* first operations stand in the order of their calls (OrderInv), and what *)
(* each has moved and what it has left add up (CountInv); that gives the   *)
(* order of the bytes.                                                     *)
(***************************************************************************)
EXTENDS CoroutineSocket, SumTheorems, SequenceTheorems

Begun(c) == Contains(calls[Side[c]], c)

\* The operation of c has begun and is not over.
Active(c) == Begun(c) /\ ~Ended(c)

\* Neither the buffer nor the data that has arrived is overdrawn.
RoomInv ==
  /\ Len(moved["send"]) <= BufferSize + (IF loopback THEN Len(moved["receive"]) ELSE acked)
  /\ loopback => delivered = 0
  /\ ~loopback => Len(moved["receive"]) <= delivered

\* How far the callers are.
DoneInv ==
  /\ \A c \in Callers :
       /\ done[c] <= Len(Program[c])
       /\ ~Begun(c) => done[c] = 0 /\ c \notin failed
       /\ Active(c) => left[c] <= OpSize(c)
       /\ c \in failed => done[c] < Len(Program[c])
       /\ c \in failed => closed[Side[c]] \/ (Side[c] = "send" /\ refuses)
  /\ \A c \in Callers : turn = c => Active(c) /\ done[c] > 0

Distinct(q) == \A i, j \in 1 .. Len(q) : q[i] = q[j] => i = j

\* The queues hold the active operations, each once.
QueueInv ==
  \A s \in Sides :
    /\ Distinct(queue[s])
    /\ \A c \in Callers : Contains(queue[s], c) <=> Side[c] = s /\ Active(c) /\ turn # c

\* The loop does not run past the end of its queue.
LoopInv ==
  /\ loop.left <= Len(queue[loop.side])
  /\ loop.again => loopback /\ loop.side = "send"
  /\ ~loopback => \A s \in Sides : wakes[s] = 0

\* What is pending waits, or is scheduled, or is all ahead of the running loop.
WakeInv ==
  \A s \in Sides : queue[s] # <<>> =>
    \/ Waits(s)
    \/ wakes[s] > 0
    \/ loop.side = s /\ loop.left > 0 /\ loop.left = Len(queue[s])
    \/ loop.again /\ s = "receive"

\* a stands before b in cs.
Before(cs, a, b) == \E k, l \in 1 .. Len(cs) : k < l /\ cs[k] = a /\ cs[l] = b

\* Pending first operations are in the order of their calls.
OrderInv ==
  \A s \in Sides :
    /\ Distinct(calls[s])
    /\ \A i, j \in 1 .. Len(queue[s]) :
         i < j /\ done[queue[s][i]] = 0 /\ done[queue[s][j]] = 0 =>
           Before(calls[s], queue[s][i], queue[s][j])

\* How often x is among the first m elements of t.
Occurs(t, m, x) == Cardinality({i \in 1 .. m : t[i] = x})

\* The bytes of the first operation of c that have been moved.
FirstMoved(c) == Occurs(moved[Side[c]], Len(moved[Side[c]]), <<c, 1>>)

CountInv ==
  \A c \in Callers : Program[c][1] > 0 =>
    /\ ~Begun(c) => FirstMoved(c) = 0
    /\ done[c] > 0 => FirstMoved(c) = Program[c][1]
    /\ Active(c) /\ done[c] = 0 => FirstMoved(c) + left[c] = Program[c][1]

IInv == TypeOK /\ RoomInv /\ DoneInv /\ QueueInv /\ LoopInv /\ WakeInv /\ OrderInv /\ CountInv
-----------------------------------------------------------------------------
(* Sequences and the condition of an operation.                            *)

LEMMA MinOfTwo ==
  ASSUME NEW a \in Nat, NEW b \in Nat
  PROVE  Min({a, b}) = IF a <= b THEN a ELSE b
<1>1. {a, b} \in SUBSET Nat /\ {a, b} # {}
  OBVIOUS
<1>2. Min({a, b}) \in {a, b} /\ \A y \in {a, b} : Min({a, b}) <= y
  BY <1>1, NatMin
<1> QED
  BY <1>2

\* n times the same element, at the end of a sequence.
LEMMA Repeat ==
  ASSUME NEW S, NEW s \in Seq(S), NEW e \in S, NEW n \in Nat
  PROVE  LET t == s \o [i \in 1 .. n |-> e] IN
         /\ Len(s) \in Nat
         /\ t \in Seq(S)
         /\ Len(t) = Len(s) + n
         /\ \A i \in 1 .. Len(s) : t[i] = s[i]
         /\ \A i \in Len(s) + 1 .. Len(s) + n : t[i] = e
<1> DEFINE u == [i \in 1 .. n |-> e]
<1>1. u \in Seq(S) /\ Len(u) = n
  OBVIOUS
<1>2. \A i \in 1 .. n : u[i] = e
  OBVIOUS
<1>3. Len(s) \in Nat
  BY LenProperties
<1> HIDE DEF u
<1>4. /\ s \o u \in Seq(S) /\ Len(s \o u) = Len(s) + n
      /\ \A i \in 1 .. Len(s) + n : (s \o u)[i] = IF i <= Len(s) THEN s[i] ELSE u[i - Len(s)]
  BY <1>1, ConcatProperties
<1>5. \A i \in 1 .. Len(s) : (s \o u)[i] = s[i]
  BY <1>3, <1>4
<1>6. \A i \in Len(s) + 1 .. Len(s) + n : (s \o u)[i] = e
  BY <1>2, <1>3, <1>4
<1> QED
  BY <1>3, <1>4, <1>5, <1>6 DEF u

LEMMA RoomValue ==
  /\ Room("send") = BufferSize - (Len(moved["send"]) - (IF loopback THEN Len(moved["receive"]) ELSE acked))
  /\ Room("receive") = (IF loopback THEN Len(moved["send"]) ELSE delivered) - Len(moved["receive"])
  BY DEF Room

LEMMA LenMoved ==
  ASSUME TypeOK, NEW s \in Sides
  PROVE  Len(moved[s]) \in Nat /\ moved[s] \in Seq(Callers \X Nat)
<1>1. moved[s] \in Seq(Callers \X Nat)
  BY DEF TypeOK
<1> QED
  BY <1>1, LenProperties

LEMMA RoomNat ==
  ASSUME TypeOK, RoomInv, NEW s \in Sides
  PROVE  Room(s) \in Nat
<1> DEFINE S1 == Len(moved["send"])
           R1 == Len(moved["receive"])
<1>1. S1 \in Nat /\ R1 \in Nat
  BY LenMoved DEF Sides
<1>2. /\ BufferSize \in Nat /\ acked \in Nat /\ delivered \in Nat
      /\ R1 <= S1
  BY <1>1, BufferAssumption DEF TypeOK
<1>3. /\ Room("send") = BufferSize - (S1 - (IF loopback THEN R1 ELSE acked))
      /\ Room("receive") = (IF loopback THEN S1 ELSE delivered) - R1
  BY RoomValue
<1>4. /\ S1 <= BufferSize + (IF loopback THEN R1 ELSE acked)
      /\ ~loopback => R1 <= delivered
  BY DEF RoomInv
<1> HIDE DEF S1, R1
<1>5. Room("send") \in Nat /\ Room("receive") \in Nat
  BY <1>1, <1>2, <1>3, <1>4
<1> QED
  BY <1>5 DEF Sides

\* How much an operation moves.
LEMMA AmountValue ==
  ASSUME TypeOK, RoomInv, NEW c \in Callers, NEW l \in Nat, OpSize(c) \in Nat, l <= OpSize(c)
  PROVE  LET s == Side[c]
             n == Amount(c, l)
         IN /\ n \in Nat /\ n <= Room(s) /\ Room(s) \in Nat
            /\ Waits(s) \/ Errs(s) => n = 0
            /\ Completes(c, l) /\ ~Errs(s) /\ OpSize(c) > 0 => n = l
            /\ OpSize(c) > 0 => n <= l
            /\ Completes(c, l) => ~Waits(s)
            /\ ~Completes(c, l) => n <= l /\ (Waits(s) \/ (n = Room(s) /\ ~closed[s]))
<1> DEFINE s == Side[c]
           n == Amount(c, l)
<1>1. s \in Sides
  BY SideAssumption
<1>2. Room(s) \in Nat
  BY <1>1, RoomNat
<1>3. Completes(c, l) <=> ~Waits(s) /\ (Errs(s) \/ l <= Room(s))
  BY DEF Completes
<1>4. CASE Waits(s) \/ Errs(s)
  <2>1. n = 0
    BY <1>4 DEF Amount
  <2> HIDE DEF n, s
  <2> QED
    BY <1>2, <1>3, <1>4, <2>1 DEF n, s
<1>5. CASE ~Waits(s) /\ ~Errs(s)
  <2>1. n = IF s = "receive" /\ OpSize(c) = 0 THEN Room("receive") ELSE Min({l, Room(s)})
    BY <1>5 DEF Amount
  <2>2. Min({l, Room(s)}) = IF l <= Room(s) THEN l ELSE Room(s)
    BY <1>2, MinOfTwo
  <2>3. ~closed[s]
    BY <1>5 DEF Errs
  <2>4. n = IF s = "receive" /\ OpSize(c) = 0 THEN Room(s) ELSE IF l <= Room(s) THEN l ELSE Room(s)
    BY <2>1, <2>2
  <2> HIDE DEF n, s
  <2> QED
    BY <1>2, <1>3, <1>5, <2>3, <2>4 DEF n, s
<1> QED
  BY <1>4, <1>5

\* What a run of the condition of c does to the bytes.
LEMMA RunMoved ==
  ASSUME TypeOK, RoomInv, NEW c \in Callers, NEW l \in Nat, OpSize(c) \in Nat, l <= OpSize(c),
         RunOperation(c, l)
  PROVE  LET s == Side[c]
             n == Amount(c, l)
         IN /\ moved' \in [Sides -> Seq(Callers \X Nat)]
            /\ Len(moved'[s]) = Len(moved[s]) + n
            /\ \A x \in Sides : x # s => moved'[x] = moved[x]
            /\ moved'[s] = moved[s] \o [i \in 1 .. n |-> <<c, done[c] + 1>>]
            /\ \A i \in 1 .. Len(moved[s]) : moved'[s][i] = moved[s][i]
            /\ \A i \in Len(moved[s]) + 1 .. Len(moved[s]) + n : moved'[s][i] = <<c, done[c] + 1>>
<1> DEFINE s == Side[c]
           n == Amount(c, l)
           e == <<c, done[c] + 1>>
<1>1. s \in Sides
  BY SideAssumption
<1>2. n \in Nat
  BY AmountValue
<1>3. e \in Callers \X Nat
  <2>1. done \in [Callers -> Nat]
    BY DEF TypeOK
  <2>2. done[c] \in Nat
    BY <2>1
  <2> QED
    BY <2>2
<1>4. moved \in [Sides -> Seq(Callers \X Nat)] /\ moved[s] \in Seq(Callers \X Nat)
  BY <1>1 DEF TypeOK
<1>5. moved' = [moved EXCEPT ![s] = moved[s] \o [i \in 1 .. n |-> e]]
  BY <1>4 DEF RunOperation
<1> HIDE DEF s, n, e
<1> DEFINE t == moved[s] \o [i \in 1 .. n |-> e]
<1>6. /\ t \in Seq(Callers \X Nat)
      /\ Len(t) = Len(moved[s]) + n
      /\ \A i \in 1 .. Len(moved[s]) : t[i] = moved[s][i]
      /\ \A i \in Len(moved[s]) + 1 .. Len(moved[s]) + n : t[i] = e
  <2> DEFINE Q == Callers \X Nat
             m == moved[s]
  <2>1. e \in Q /\ m \in Seq(Q)
    BY <1>3, <1>4
  <2> HIDE DEF Q, m
  <2>2. LET u == m \o [i \in 1 .. n |-> e] IN
        /\ u \in Seq(Q)
        /\ Len(u) = Len(m) + n
        /\ \A i \in 1 .. Len(m) : u[i] = m[i]
        /\ \A i \in Len(m) + 1 .. Len(m) + n : u[i] = e
    BY <1>2, <2>1, Repeat
  <2> QED
    BY <2>2 DEF Q, m
<1>7. moved' = [moved EXCEPT ![s] = t]
  BY <1>5
<1>8. moved'[s] = t
  BY <1>1, <1>4, <1>7
<1>9. \A x \in Sides : x # s => moved'[x] = moved[x]
  BY <1>1, <1>4, <1>7
<1>10. moved' \in [Sides -> Seq(Callers \X Nat)]
  <2> HIDE DEF t
  <2> QED
    BY <1>1, <1>4, <1>6, <1>7
<1> QED
  BY <1>6, <1>8, <1>9, <1>10 DEF s, n, e

\* What is left of the room, on both sides.
LEMMA RunRoom ==
  ASSUME TypeOK, RoomInv, NEW c \in Callers, NEW l \in Nat, OpSize(c) \in Nat, l <= OpSize(c),
         RunOperation(c, l), UNCHANGED loopback, UNCHANGED netVars
  PROVE  /\ RoomInv'
         /\ Len(moved'["send"]) \in Nat /\ Len(moved'["receive"]) \in Nat
         /\ Len(moved["send"]) <= Len(moved'["send"])
         /\ Len(moved'["receive"]) <= Len(moved'["send"])
         /\ Room(Side[c])' = Room(Side[c]) - Amount(c, l)
         /\ ~loopback \/ Amount(c, l) = 0 => Room(Other(Side[c]))' = Room(Other(Side[c]))
<1> DEFINE n == Amount(c, l)
           S1 == Len(moved["send"])
           R1 == Len(moved["receive"])
           S2 == Len(moved'["send"])
           R2 == Len(moved'["receive"])
<1>1. S1 \in Nat /\ R1 \in Nat
  BY LenMoved DEF Sides
<1>2. /\ BufferSize \in Nat /\ acked \in Nat /\ delivered \in Nat
      /\ acked <= delivered /\ delivered <= S1 /\ R1 <= S1
  BY <1>1, BufferAssumption DEF TypeOK
<1>3. n \in Nat /\ n <= Room(Side[c])
  BY AmountValue
<1>4. loopback' = loopback /\ acked' = acked /\ delivered' = delivered
  BY DEF netVars
<1>5. /\ Room("send") = BufferSize - (S1 - (IF loopback THEN R1 ELSE acked))
      /\ Room("receive") = (IF loopback THEN S1 ELSE delivered) - R1
  BY RoomValue
<1>6. /\ Room("send")' = BufferSize - (S2 - (IF loopback THEN R2 ELSE acked))
      /\ Room("receive")' = (IF loopback THEN S2 ELSE delivered) - R2
  BY <1>4 DEF Room
<1>7. CASE Side[c] = "send"
  <2>1. S2 = S1 + n /\ R2 = R1
    BY <1>7, RunMoved DEF Sides
  <2>2. n <= Room("send")
    BY <1>3, <1>7
  <2> HIDE DEF n, S1, S2, R1, R2
  <2>3. S2 \in Nat /\ R2 \in Nat /\ S1 <= S2 /\ R2 <= S2
    BY <1>1, <1>2, <1>3, <2>1
  <2>4. Room("send")' = Room("send") - n
    BY <1>1, <1>2, <1>3, <1>5, <1>6, <2>1
  <2>5. ~loopback \/ n = 0 => Room("receive")' = Room("receive")
    BY <1>1, <1>2, <1>3, <1>5, <1>6, <2>1
  <2>6. S2 <= BufferSize + (IF loopback THEN R2 ELSE acked)
    BY <1>1, <1>2, <1>3, <1>5, <2>1, <2>2
  <2>7. RoomInv'
    BY <1>4, <2>1, <2>6 DEF RoomInv, S1, S2, R1, R2
  <2> QED
    BY <1>7, <2>3, <2>4, <2>5, <2>7 DEF n, S1, S2, R1, R2, Other
<1>8. CASE Side[c] = "receive"
  <2>1. R2 = R1 + n /\ S2 = S1
    BY <1>8, RunMoved DEF Sides
  <2>2. n <= Room("receive")
    BY <1>3, <1>8
  <2> HIDE DEF n, S1, S2, R1, R2
  <2>3. S2 \in Nat /\ R2 \in Nat /\ S1 <= S2
    BY <1>1, <1>2, <1>3, <2>1
  <2>4. Room("receive")' = Room("receive") - n
    BY <1>1, <1>2, <1>3, <1>5, <1>6, <2>1
  <2>5. ~loopback \/ n = 0 => Room("send")' = Room("send")
    BY <1>1, <1>2, <1>3, <1>5, <1>6, <2>1
  <2>6. /\ R2 <= S2
        /\ ~loopback => R2 <= delivered
    BY <1>1, <1>2, <1>3, <1>5, <2>1, <2>2
  <2>8. S1 <= BufferSize + (IF loopback THEN R1 ELSE acked) /\ (loopback => delivered = 0)
    BY DEF RoomInv, S1, R1
  <2>9. S2 <= BufferSize + (IF loopback THEN R2 ELSE acked)
    BY <1>1, <1>2, <1>3, <2>1, <2>8
  <2>7. RoomInv'
    BY <1>4, <2>6, <2>8, <2>9 DEF RoomInv, S2, R2
  <2> QED
    BY <1>8, <2>3, <2>4, <2>5, <2>6, <2>7 DEF n, S1, S2, R1, R2, Other
<1> QED
  BY <1>7, <1>8, SideAssumption DEF Sides

\* What it does to the callers and to the scheduled calls.
LEMMA RunState ==
  ASSUME TypeOK, RoomInv, NEW c \in Callers, NEW l \in Nat, OpSize(c) \in Nat, l <= OpSize(c),
         RunOperation(c, l), UNCHANGED loopback
  PROVE  LET s == Side[c]
             n == Amount(c, l)
         IN /\ left' \in [Callers -> Nat]
            /\ done' \in [Callers -> Nat]
            /\ failed' \subseteq Callers
            /\ wakes' \in [Sides -> Nat]
            /\ turn' \in {c, None}
            /\ \A x \in Callers : x # c =>
                 done'[x] = done[x] /\ left'[x] = left[x] /\ (x \in failed' <=> x \in failed)
            /\ ~Completes(c, l) =>
                 done' = done /\ failed' = failed /\ turn' = None /\ left'[c] = l - n
            /\ Completes(c, l) /\ Errs(s) =>
                 done' = done /\ c \in failed' /\ turn' = None
            /\ Completes(c, l) /\ ~Errs(s) =>
                 /\ done'[c] = done[c] + 1
                 /\ failed' = failed
                 /\ turn' = IF done[c] + 1 = Len(Program[c]) THEN None ELSE c
            /\ Completes(c, l) => left'[c] = 0
            /\ wakes'[s] = wakes[s]
            /\ ~loopback => wakes' = wakes
            /\ wakes[Other(s)] <= wakes'[Other(s)]
            /\ loopback /\ n > 0 => wakes'[Other(s)] > 0
<1> DEFINE s == Side[c]
           n == Amount(c, l)
           o == Other(s)
<1>1. s \in Sides /\ o \in Sides /\ o # s
  BY SideAssumption DEF Sides, Other
<1>2. n \in Nat /\ (~Completes(c, l) => n <= l) /\ (Waits(s) => n = 0)
  BY AmountValue
<1>3. /\ left \in [Callers -> Nat] /\ done \in [Callers -> Nat]
      /\ failed \subseteq Callers /\ wakes \in [Sides -> Nat]
  BY DEF TypeOK
<1>4. left' = [left EXCEPT ![c] = IF Completes(c, l) THEN 0 ELSE l - n]
  BY DEF RunOperation
<1>5. wakes' = IF loopback /\ ~Waits(s) THEN [wakes EXCEPT ![o] = wakes[o] + 1] ELSE wakes
  BY DEF RunOperation
<1>6. Completes(c, l) => /\ done' = [done EXCEPT ![c] = IF Errs(s) THEN done[c] ELSE done[c] + 1]
                         /\ failed' = failed \cup {x \in {c} : Errs(s)}
                         /\ turn' = IF Errs(s) \/ done[c] + 1 = Len(Program[c]) THEN None ELSE c
  BY DEF RunOperation
<1>7. ~Completes(c, l) => turn' = None /\ done' = done /\ failed' = failed
  BY DEF RunOperation
<1> HIDE DEF s, n, o
<1>8. /\ left' \in [Callers -> Nat]
      /\ \A x \in Callers : x # c => left'[x] = left[x]
      /\ left'[c] = IF Completes(c, l) THEN 0 ELSE l - n
  <2> DEFINE v == IF Completes(c, l) THEN 0 ELSE l - n
  <2>1. v \in Nat
    BY <1>2
  <2>2. left' = [left EXCEPT ![c] = v]
    BY <1>4
  <2> HIDE DEF v
  <2>3. left' \in [Callers -> Nat] /\ (\A x \in Callers : x # c => left'[x] = left[x]) /\ left'[c] = v
    BY <1>3, <2>1, <2>2
  <2> QED
    BY <2>3 DEF v
<1>9. /\ wakes' \in [Sides -> Nat] /\ wakes'[s] = wakes[s] /\ wakes[o] <= wakes'[o]
      /\ ~loopback => wakes' = wakes
      /\ loopback /\ n > 0 => wakes'[o] > 0
  <2>1. CASE loopback /\ ~Waits(s)
    <3>1. wakes' = [wakes EXCEPT ![o] = wakes[o] + 1] /\ wakes[o] \in Nat
      BY <1>1, <1>3, <1>5, <2>1
    <3> QED
      BY <1>1, <1>3, <2>1, <3>1
  <2>2. CASE ~(loopback /\ ~Waits(s))
    <3>1. wakes' = wakes /\ wakes[o] \in Nat /\ (loopback => n = 0)
      BY <1>1, <1>2, <1>3, <1>5, <2>2
    <3> QED
      BY <1>2, <1>3, <3>1
  <2> QED
    BY <2>1, <2>2
<1>10. CASE ~Completes(c, l)
  BY <1>3, <1>7, <1>8, <1>9, <1>10 DEF s, n, o
<1>11. CASE Completes(c, l) /\ Errs(s)
  <2>1. done' = [done EXCEPT ![c] = done[c]] /\ failed' = failed \cup {c} /\ turn' = None
    BY <1>6, <1>11
  <2>2. done' = done
    BY <1>3, <2>1
  <2> QED
    BY <1>3, <1>8, <1>9, <1>11, <2>1, <2>2 DEF s, n, o
<1>12. CASE Completes(c, l) /\ ~Errs(s)
  <2>1. /\ done' = [done EXCEPT ![c] = done[c] + 1] /\ failed' = failed
        /\ turn' = IF done[c] + 1 = Len(Program[c]) THEN None ELSE c
    BY <1>6, <1>12
  <2>2. done[c] + 1 \in Nat
    BY <1>3
  <2>3. done' \in [Callers -> Nat] /\ done'[c] = done[c] + 1 /\ \A x \in Callers : x # c => done'[x] = done[x]
    BY <1>3, <2>1, <2>2
  <2> QED
    BY <1>3, <1>8, <1>9, <1>12, <2>1, <2>3 DEF s, n, o
<1> QED
  BY <1>10, <1>11, <1>12

\* An operation that does not complete has to wait, and on the other side nothing
\* changes or a call is scheduled.
LEMMA RunWaits ==
  ASSUME TypeOK, RoomInv, NEW c \in Callers, NEW l \in Nat, OpSize(c) \in Nat, l <= OpSize(c),
         RunOperation(c, l), UNCHANGED loopback, UNCHANGED netVars, UNCHANGED flowVars
  PROVE  LET s == Side[c]
         IN /\ ~Completes(c, l) => Waits(s)'
            /\ Completes(c, l) => ~Waits(s)
            /\ Waits(Other(s)) => Waits(Other(s))' \/ wakes'[Other(s)] > 0
<1> DEFINE s == Side[c]
           n == Amount(c, l)
           o == Other(s)
<1>1. /\ n \in Nat /\ Room(s) \in Nat
      /\ (Completes(c, l) => ~Waits(s))
      /\ (~Completes(c, l) => Waits(s) \/ (n = Room(s) /\ ~closed[s]))
      /\ (Waits(s) => n = 0)
  BY AmountValue
<1>2. Room(s)' = Room(s) - n /\ (~loopback \/ n = 0 => Room(o)' = Room(o))
  BY RunRoom
<1>3. closed' = closed /\ blocked' = blocked
  BY DEF flowVars
<1>4. loopback /\ n > 0 => wakes'[o] > 0
  BY RunState
<1> HIDE DEF s, n, o
<1>5. /\ Waits(s)' <=> ~closed[s] /\ (blocked[s] \/ Room(s)' = 0)
      /\ Waits(s) <=> ~closed[s] /\ (blocked[s] \/ Room(s) = 0)
      /\ Waits(o)' <=> ~closed[o] /\ (blocked[o] \/ Room(o)' = 0)
      /\ Waits(o) <=> ~closed[o] /\ (blocked[o] \/ Room(o) = 0)
  BY <1>3 DEF Waits
<1>6. ~Completes(c, l) => Waits(s)'
  BY <1>1, <1>2, <1>5
<1>7. Waits(o) => Waits(o)' \/ wakes'[o] > 0
  BY <1>1, <1>2, <1>4, <1>5
<1> QED
  BY <1>1, <1>6, <1>7 DEF s, o

\* After the first m elements of s, t has n times e.
Extended(s, m, t, n, e) ==
  /\ \A i \in 1 .. m : t[i] = s[i]
  /\ \A i \in m + 1 .. m + n : t[i] = e

\* The occurrences of x after n times e have been added to m elements.
LEMMA CountAppend ==
  ASSUME NEW m \in Nat, NEW n \in Nat, NEW e, NEW x, NEW s, NEW t, Extended(s, m, t, n, e)
  PROVE  Occurs(t, m + n, x) = Occurs(s, m, x) + (IF x = e THEN n ELSE 0)
<1> DEFINE A == {i \in 1 .. m : s[i] = x}
           B == {i \in m + 1 .. m + n : x = e}
           C == {i \in 1 .. m + n : t[i] = x}
<1>1. IsFiniteSet(1 .. m) /\ IsFiniteSet(m + 1 .. m + n) /\ Cardinality(m + 1 .. m + n) = n
  BY FS_Interval
<1>2. A \in SUBSET (1 .. m) /\ B \in SUBSET (m + 1 .. m + n)
  OBVIOUS
<1>3. IsFiniteSet(A) /\ IsFiniteSet(B)
  BY <1>1, <1>2, FS_Subset
<1>4. A \cap B = {}
  OBVIOUS
<1>5. C = A \cup B
  <2>1. \A i \in 1 .. m + n : t[i] = x <=> (i \in A \/ i \in B)
    <3> TAKE i \in 1 .. m + n
    <3>1. CASE i <= m
      <4>1. t[i] = s[i] /\ i \in 1 .. m /\ i \notin m + 1 .. m + n
        BY <3>1 DEF Extended
      <4> QED
        BY <4>1
    <3>2. CASE i > m
      <4>1. t[i] = e /\ i \in m + 1 .. m + n /\ i \notin 1 .. m
        BY <3>2 DEF Extended
      <4> QED
        BY <4>1
    <3> QED
      BY <3>1, <3>2
  <2>2. A \subseteq 1 .. m + n /\ B \subseteq 1 .. m + n
    OBVIOUS
  <2> HIDE DEF A, B
  <2> QED
    BY <2>1, <2>2
<1>6. Cardinality(B) = IF x = e THEN n ELSE 0
  <2>1. CASE x = e
    <3>1. B = m + 1 .. m + n
      BY <2>1
    <3> QED
      BY <1>1, <2>1, <3>1
  <2>2. CASE x # e
    <3>1. B = {}
      BY <2>2
    <3> QED
      BY <2>2, <3>1, FS_EmptySet
  <2> QED
    BY <2>1, <2>2
<1> HIDE DEF A, B, C
<1>7. Cardinality(A) \in Nat /\ Cardinality(B) \in Nat /\ Cardinality(A \cap B) = 0
  BY <1>3, <1>4, FS_CardinalityType, FS_EmptySet
<1>8. Cardinality(A \cup B) = Cardinality(A) + Cardinality(B) - Cardinality(A \cap B)
  BY <1>3, FS_Union
<1>9. Cardinality(C) = Cardinality(A) + Cardinality(B)
  BY <1>5, <1>7, <1>8
<1> QED
  BY <1>6, <1>7, <1>9 DEF A, C, Occurs

LEMMA OccursNat ==
  ASSUME NEW t, NEW m \in Nat, NEW x
  PROVE  Occurs(t, m, x) \in Nat
<1>1. IsFiniteSet(1 .. m)
  BY FS_Interval
<1>2. IsFiniteSet({i \in 1 .. m : t[i] = x})
  BY <1>1, FS_Subset
<1> QED
  BY <1>2, FS_CardinalityType DEF Occurs

LEMMA RunCount ==
  ASSUME TypeOK, RoomInv, NEW c \in Callers, NEW l \in Nat, OpSize(c) \in Nat, l <= OpSize(c),
         RunOperation(c, l), NEW x \in Callers
  PROVE  /\ FirstMoved(x) \in Nat
         /\ FirstMoved(x)' = FirstMoved(x) + (IF x = c /\ done[c] = 0 THEN Amount(c, l) ELSE 0)
<1> DEFINE s == Side[c]
           n == Amount(c, l)
           e == <<c, done[c] + 1>>
           y == <<x, 1>>
<1>1. s \in Sides /\ Side[x] \in Sides
  BY SideAssumption
<1>2. n \in Nat
  BY AmountValue
<1>3. done[c] \in Nat
  BY DEF TypeOK
<1>4. FirstMoved(x) \in Nat
  <2>1. Len(moved[Side[x]]) \in Nat
    BY <1>1, LenMoved
  <2> QED
    BY <2>1, OccursNat DEF FirstMoved
<1>5. CASE Side[x] = s
  <2> DEFINE a == moved[s]
             b == moved'[s]
             m == Len(moved[s])
  <2>1. /\ Len(b) = m + n
        /\ \A i \in 1 .. m : b[i] = a[i]
        /\ \A i \in m + 1 .. m + n : b[i] = e
    BY RunMoved
  <2>2. m \in Nat
    BY <1>1, LenMoved
  <2>3. FirstMoved(x) = Occurs(a, m, y)
    BY <1>5 DEF FirstMoved
  <2>4. FirstMoved(x)' = Occurs(b, Len(b), y)
    BY <1>5 DEF FirstMoved
  <2>5. y = e <=> x = c /\ done[c] = 0
    BY <1>3
  <2> HIDE DEF s, n, e, y, a, b, m
  <2>6. Occurs(b, m + n, y) = Occurs(a, m, y) + (IF y = e THEN n ELSE 0)
    <3>1. Extended(a, m, b, n, e)
      BY <2>1 DEF Extended
    <3> QED
      BY <1>2, <2>2, <3>1, CountAppend
  <2>7. FirstMoved(x)' = FirstMoved(x) + (IF y = e THEN n ELSE 0)
    BY <2>1, <2>3, <2>4, <2>6
  <2> QED
    BY <1>4, <2>5, <2>7 DEF n
<1>6. CASE Side[x] # s
  <2>1. moved'[Side[x]] = moved[Side[x]]
    BY <1>1, <1>6, RunMoved
  <2>2. FirstMoved(x)' = FirstMoved(x)
    BY <2>1 DEF FirstMoved
  <2>3. x # c
    BY <1>6
  <2> QED
    BY <1>4, <2>2, <2>3
<1> QED
  BY <1>5, <1>6

LEMMA OpSizeNat ==
  ASSUME TypeOK, NEW c \in Callers, done[c] < Len(Program[c])
  PROVE  OpSize(c) \in Nat /\ Len(Program[c]) \in Nat /\ done[c] \in Nat
<1>1. Program[c] \in Seq(Nat)
  BY ProgramAssumption
<1>2. done \in [Callers -> Nat]
  BY DEF TypeOK
<1>3. Len(Program[c]) \in Nat /\ done[c] \in Nat
  BY <1>1, <1>2, LenProperties
<1>4. done[c] + 1 \in 1 .. Len(Program[c])
  BY <1>3
<1>5. Program[c][done[c] + 1] \in Nat
  BY <1>1, <1>4, ElementOfSeq
<1> QED
  BY <1>3, <1>5 DEF OpSize
-----------------------------------------------------------------------------
(* A run of the condition.                                                 *)

\* The operation of c, with l bytes to go, runs its condition; c has begun.
Runs(c, l) ==
  /\ l \in Nat /\ l <= OpSize(c)
  /\ done[c] < Len(Program[c]) /\ c \notin failed
  /\ RunOperation(c, l)
  /\ UNCHANGED <<loopback, netVars, flowVars>>
  /\ \A x \in Callers : Begun(x)' <=> (Begun(x) \/ x = c)

LEMMA RunActive ==
  ASSUME IInv, NEW c \in Callers, NEW l, Runs(c, l)
  PROVE  /\ \A x \in Callers : x # c => (Ended(x)' <=> Ended(x)) /\ (Active(x)' <=> Active(x))
         /\ Active(c)' <=> (~Completes(c, l) \/ turn' = c)
         /\ turn' = c => Completes(c, l) /\ ~Errs(Side[c])
         /\ \A x \in Callers : done'[x] = 0 => done[x] = 0
<1>1. /\ l \in Nat /\ l <= OpSize(c) /\ done[c] < Len(Program[c]) /\ c \notin failed
      /\ RunOperation(c, l) /\ UNCHANGED loopback
      /\ \A x \in Callers : Begun(x)' <=> (Begun(x) \/ x = c)
  BY DEF Runs
<1>2. TypeOK /\ RoomInv
  BY DEF IInv
<1>3. OpSize(c) \in Nat /\ Len(Program[c]) \in Nat /\ done[c] \in Nat
  BY <1>1, <1>2, OpSizeNat
<1>4. /\ turn' \in {c, None}
      /\ \A x \in Callers : x # c => done'[x] = done[x] /\ (x \in failed' <=> x \in failed)
      /\ ~Completes(c, l) => done' = done /\ failed' = failed /\ turn' = None
      /\ Completes(c, l) /\ Errs(Side[c]) => done' = done /\ c \in failed' /\ turn' = None
      /\ Completes(c, l) /\ ~Errs(Side[c]) =>
           /\ done'[c] = done[c] + 1
           /\ failed' = failed
           /\ turn' = IF done[c] + 1 = Len(Program[c]) THEN None ELSE c
  BY <1>1, <1>2, <1>3, RunState
<1>5. c # None
  BY CallersAssumption
<1>6. \A x \in Callers : x # c => (Ended(x)' <=> Ended(x)) /\ (Active(x)' <=> Active(x))
  BY <1>1, <1>4 DEF Ended, Active
<1>7. turn' = c => Completes(c, l) /\ ~Errs(Side[c])
  BY <1>4, <1>5
<1>8. Begun(c)'
  BY <1>1
<1>9. Ended(c)' <=> Completes(c, l) /\ turn' # c
  <2>1. CASE ~Completes(c, l)
    BY <1>1, <1>3, <1>4, <2>1 DEF Ended
  <2>2. CASE Completes(c, l) /\ Errs(Side[c])
    BY <1>4, <1>5, <2>2 DEF Ended
  <2>3. CASE Completes(c, l) /\ ~Errs(Side[c])
    BY <1>1, <1>3, <1>4, <1>5, <2>3 DEF Ended
  <2> QED
    BY <2>1, <2>2, <2>3
<1>10. \A x \in Callers : done'[x] = 0 => done[x] = 0
  BY <1>3, <1>4
<1> QED
  BY <1>6, <1>7, <1>8, <1>9, <1>10 DEF Active

LEMMA RunDone ==
  ASSUME IInv, NEW c \in Callers, NEW l, Runs(c, l)
  PROVE  DoneInv'
<1>1. /\ l \in Nat /\ l <= OpSize(c) /\ done[c] < Len(Program[c]) /\ c \notin failed
      /\ RunOperation(c, l) /\ UNCHANGED loopback /\ refuses' = refuses /\ closed' = closed
      /\ \A x \in Callers : Begun(x)' <=> (Begun(x) \/ x = c)
  BY DEF Runs, netVars, flowVars
<1>2. TypeOK /\ RoomInv /\ DoneInv
  BY DEF IInv
<1>3. OpSize(c) \in Nat /\ Len(Program[c]) \in Nat /\ done[c] \in Nat
  BY <1>1, <1>2, OpSizeNat
<1>4. /\ turn' \in {c, None}
      /\ \A x \in Callers : x # c =>
           done'[x] = done[x] /\ left'[x] = left[x] /\ (x \in failed' <=> x \in failed)
      /\ ~Completes(c, l) => done' = done /\ failed' = failed /\ left'[c] = l - Amount(c, l)
      /\ Completes(c, l) /\ Errs(Side[c]) => done' = done /\ c \in failed'
      /\ Completes(c, l) /\ ~Errs(Side[c]) => done'[c] = done[c] + 1 /\ failed' = failed
      /\ Completes(c, l) => left'[c] = 0
      /\ done' \in [Callers -> Nat]
  BY <1>1, <1>2, <1>3, RunState
<1>5. Amount(c, l) \in Nat /\ (~Completes(c, l) => Amount(c, l) <= l)
  BY <1>1, <1>2, <1>3, AmountValue
<1>6. /\ \A x \in Callers : x # c => (Active(x)' <=> Active(x))
      /\ Active(c)' <=> (~Completes(c, l) \/ turn' = c)
      /\ turn' = c => Completes(c, l) /\ ~Errs(Side[c])
  BY RunActive
<1>7. \A x \in Callers : x # c =>
       /\ done'[x] <= Len(Program[x])
       /\ ~Begun(x)' => done'[x] = 0 /\ x \notin failed'
       /\ Active(x)' => left'[x] <= OpSize(x)'
       /\ x \in failed' => done'[x] < Len(Program[x])
       /\ x \in failed' => closed'[Side[x]] \/ (Side[x] = "send" /\ refuses')
  <2> TAKE x \in Callers
  <2> HAVE x # c
  <2>1. OpSize(x)' = OpSize(x)
    BY <1>4 DEF OpSize
  <2> QED
    BY <1>1, <1>2, <1>4, <1>6, <2>1 DEF DoneInv
<1>8. done'[c] <= Len(Program[c])
  BY <1>1, <1>3, <1>4
<1>9. Begun(c)'
  BY <1>1
<1>10. Active(c)' => left'[c] <= OpSize(c)'
  <2>1. CASE ~Completes(c, l)
    <3>1. OpSize(c)' = OpSize(c)
      BY <1>4, <2>1 DEF OpSize
    <3> QED
      BY <1>1, <1>3, <1>4, <1>5, <2>1, <3>1
  <2>2. CASE Completes(c, l) /\ Active(c)'
    <3>1. turn' = c /\ left'[c] = 0 /\ done'[c] = done[c] + 1
      BY <1>4, <1>6, <2>2
    <3>2. done'[c] + 1 \in 1 .. Len(Program[c])
      <4>1. ~Ended(c)'
        BY <2>2 DEF Active
      <4>2. done'[c] # Len(Program[c])
        BY <4>1 DEF Ended
      <4> QED
        BY <1>1, <1>3, <3>1, <4>2
    <3>3. Program[c][done'[c] + 1] \in Nat
      BY <3>2, ProgramAssumption, ElementOfSeq
    <3> QED
      BY <3>1, <3>3 DEF OpSize
  <2> QED
    BY <2>1, <2>2
<1>11. c \in failed' => Completes(c, l) /\ Errs(Side[c]) /\ done'[c] < Len(Program[c])
  BY <1>1, <1>4
<1>12. c \in failed' => closed'[Side[c]] \/ (Side[c] = "send" /\ refuses')
  BY <1>1, <1>11 DEF Errs
<1>13. \A x \in Callers : turn' = x => Active(x)' /\ done'[x] > 0
  <2> TAKE x \in Callers
  <2> HAVE turn' = x
  <2>1. x = c /\ done'[c] = done[c] + 1
    BY <1>4, <1>6, CallersAssumption
  <2>2. Active(c)'
    BY <1>6, <2>1
  <2> QED
    BY <1>3, <2>1, <2>2
<1> QED
  BY <1>7, <1>8, <1>9, <1>10, <1>11, <1>12, <1>13 DEF DoneInv

LEMMA RunCountInv ==
  ASSUME IInv, NEW c \in Callers, NEW l, Runs(c, l),
         Program[c][1] > 0 /\ done[c] = 0 => FirstMoved(c) + l = Program[c][1]
  PROVE  CountInv'
<1>1. /\ l \in Nat /\ l <= OpSize(c) /\ done[c] < Len(Program[c])
      /\ RunOperation(c, l) /\ UNCHANGED loopback
      /\ \A x \in Callers : Begun(x)' <=> (Begun(x) \/ x = c)
  BY DEF Runs
<1>2. TypeOK /\ RoomInv /\ DoneInv /\ CountInv
  BY DEF IInv
<1>3. OpSize(c) \in Nat /\ Len(Program[c]) \in Nat /\ done[c] \in Nat
  BY <1>1, <1>2, OpSizeNat
<1>4. /\ turn' \in {c, None}
      /\ \A x \in Callers : x # c => done'[x] = done[x] /\ left'[x] = left[x]
      /\ ~Completes(c, l) => done' = done /\ left'[c] = l - Amount(c, l)
      /\ Completes(c, l) /\ Errs(Side[c]) => done' = done
      /\ Completes(c, l) /\ ~Errs(Side[c]) => done'[c] = done[c] + 1
  BY <1>1, <1>2, <1>3, RunState
<1>5. /\ Amount(c, l) \in Nat
      /\ Completes(c, l) /\ ~Errs(Side[c]) /\ OpSize(c) > 0 => Amount(c, l) = l
  BY <1>1, <1>2, <1>3, AmountValue
<1>6. \A x \in Callers : /\ FirstMoved(x) \in Nat
        /\ FirstMoved(x)' = FirstMoved(x) + (IF x = c /\ done[c] = 0 THEN Amount(c, l) ELSE 0)
  BY <1>1, <1>2, <1>3, RunCount
<1>7. /\ \A x \in Callers : x # c => (Active(x)' <=> Active(x))
      /\ Active(c)' <=> (~Completes(c, l) \/ turn' = c)
      /\ turn' = c => Completes(c, l) /\ ~Errs(Side[c])
  BY RunActive
<1>8. ASSUME NEW x \in Callers, x # c, Program[x][1] > 0
      PROVE  /\ ~Begun(x)' => FirstMoved(x)' = 0
             /\ done'[x] > 0 => FirstMoved(x)' = Program[x][1]
             /\ Active(x)' /\ done'[x] = 0 => FirstMoved(x)' + left'[x] = Program[x][1]
  <2>1. FirstMoved(x)' = FirstMoved(x)
    BY <1>6, <1>8
  <2> QED
    BY <1>1, <1>2, <1>4, <1>7, <1>8, <2>1 DEF CountInv
<1>9. ASSUME Program[c][1] > 0
      PROVE  /\ ~Begun(c)' => FirstMoved(c)' = 0
             /\ done'[c] > 0 => FirstMoved(c)' = Program[c][1]
             /\ Active(c)' /\ done'[c] = 0 => FirstMoved(c)' + left'[c] = Program[c][1]
  <2>1. Begun(c)'
    BY <1>1
  <2>2. CASE done[c] = 0
    <3>1. FirstMoved(c)' = FirstMoved(c) + Amount(c, l) /\ FirstMoved(c) \in Nat
      BY <1>6, <2>2
    <3>2. FirstMoved(c) + l = Program[c][1]
      BY <1>9, <2>2
    <3>3. OpSize(c) = Program[c][1]
      BY <2>2 DEF OpSize
    <3>4. done'[c] > 0 => Completes(c, l) /\ ~Errs(Side[c])
      BY <1>4, <2>2
    <3>5. done'[c] > 0 => FirstMoved(c)' = Program[c][1]
      BY <1>5, <1>9, <3>1, <3>2, <3>3, <3>4
    <3>6. Active(c)' /\ done'[c] = 0 => ~Completes(c, l)
      BY <1>4, <1>7, <2>2
    <3>7. Active(c)' /\ done'[c] = 0 => FirstMoved(c)' + left'[c] = Program[c][1]
      BY <1>1, <1>4, <1>5, <3>1, <3>2, <3>6
    <3> QED
      BY <2>1, <3>5, <3>7
  <2>3. CASE done[c] > 0
    <3>1. FirstMoved(c)' = FirstMoved(c)
      BY <1>6, <2>3
    <3>2. FirstMoved(c) = Program[c][1]
      BY <1>2, <1>9, <2>3 DEF CountInv
    <3>3. done'[c] > 0
      BY <1>3, <1>4, <2>3
    <3> QED
      BY <2>1, <3>1, <3>2, <3>3
  <2> QED
    BY <1>3, <2>2, <2>3
<1> QED
  BY <1>8, <1>9 DEF CountInv
-----------------------------------------------------------------------------
(* The queues.                                                             *)

LEMMA Appended ==
  ASSUME NEW T, NEW s \in Seq(T), NEW e \in T
  PROVE  /\ Len(s) \in Nat
         /\ Append(s, e) \in Seq(T)
         /\ Len(Append(s, e)) = Len(s) + 1
         /\ \A i \in 1 .. Len(s) : Append(s, e)[i] = s[i]
         /\ Append(s, e)[Len(s) + 1] = e
<1>1. Len(s) \in Nat
  BY LenProperties
<1> QED
  BY <1>1, AppendProperties

LEMMA Headed ==
  ASSUME NEW T, NEW s \in Seq(T), Len(s) > 0
  PROVE  /\ Len(s) \in Nat /\ s # <<>>
         /\ Head(s) = s[1] /\ Head(s) \in T
         /\ Tail(s) \in Seq(T)
         /\ Len(Tail(s)) = Len(s) - 1
         /\ \A i \in 1 .. Len(s) - 1 : Tail(s)[i] = s[i + 1]
<1>1. Len(s) \in Nat
  BY LenProperties
<1>2. s # <<>>
  BY EmptySeq
<1>3. Head(s) = s[1]
  OBVIOUS
<1> QED
  BY <1>1, <1>2, <1>3, HeadTailProperties

LEMMA ContainsAppended ==
  ASSUME NEW T, NEW q \in Seq(T), NEW e \in T
  PROVE  /\ \A d : Contains(Append(q, e), d) <=> Contains(q, d) \/ d = e
         /\ Distinct(q) /\ ~Contains(q, e) => Distinct(Append(q, e))
<1> DEFINE r == Append(q, e)
<1>1. /\ Len(q) \in Nat /\ Len(r) = Len(q) + 1
      /\ (\A i \in 1 .. Len(q) : r[i] = q[i]) /\ r[Len(q) + 1] = e
  BY Appended
<1> HIDE DEF r
<1>2. \A d : Contains(r, d) <=> Contains(q, d) \/ d = e
  BY <1>1 DEF Contains
<1>3. Distinct(q) /\ ~Contains(q, e) => Distinct(r)
  BY <1>1 DEF Contains, Distinct
<1> QED
  BY <1>2, <1>3 DEF r

LEMMA ContainsTail ==
  ASSUME NEW T, NEW q \in Seq(T), Len(q) > 0, Distinct(q)
  PROVE  /\ \A d : Contains(Tail(q), d) <=> Contains(q, d) /\ d # Head(q)
         /\ Distinct(Tail(q))
         /\ Contains(q, Head(q))
<1> DEFINE r == Tail(q)
           h == Head(q)
<1>1. /\ Len(q) \in Nat /\ Len(r) = Len(q) - 1 /\ h = q[1]
      /\ (\A i \in 1 .. Len(q) - 1 : r[i] = q[i + 1])
  BY Headed
<1> HIDE DEF r, h
<1>2. ASSUME NEW d PROVE Contains(r, d) <=> Contains(q, d) /\ d # h
  <2>1. ASSUME Contains(r, d) PROVE Contains(q, d) /\ d # h
    <3>1. PICK i \in 1 .. Len(q) - 1 : q[i + 1] = d
      BY <1>1, <2>1 DEF Contains
    <3>2. i + 1 \in 1 .. Len(q) /\ i + 1 # 1 /\ 1 \in 1 .. Len(q)
      BY <1>1
    <3> QED
      BY <1>1, <3>1, <3>2 DEF Contains, Distinct
  <2>2. ASSUME Contains(q, d), d # h PROVE Contains(r, d)
    <3>1. PICK i \in 1 .. Len(q) : q[i] = d
      BY <2>2 DEF Contains
    <3>2. i # 1
      BY <1>1, <2>2, <3>1
    <3>3. i - 1 \in 1 .. Len(q) - 1 /\ (i - 1) + 1 = i
      BY <1>1, <3>2
    <3>4. r[i - 1] = d
      BY <1>1, <3>1, <3>3
    <3> QED
      BY <1>1, <3>3, <3>4 DEF Contains
  <2> QED
    BY <2>1, <2>2
<1>3. Distinct(r)
  <2> SUFFICES ASSUME NEW i \in 1 .. Len(r), NEW j \in 1 .. Len(r), r[i] = r[j]
               PROVE  i = j
    BY DEF Distinct
  <2>1. i + 1 \in 1 .. Len(q) /\ j + 1 \in 1 .. Len(q) /\ r[i] = q[i + 1] /\ r[j] = q[j + 1]
    BY <1>1
  <2>2. i + 1 = j + 1
    BY <2>1 DEF Distinct
  <2> QED
    BY <1>1, <2>2
<1>4. Contains(q, h)
  BY <1>1 DEF Contains
<1> QED
  BY <1>2, <1>3, <1>4 DEF r, h

\* What happens to the queue of c: c is added, it is not there, it is removed from
\* the front, or it stays.
QueueStep(c) ==
  LET s == Side[c]
  IN /\ \A x \in Sides : x # s => queue'[x] = queue[x]
     /\ turn \in {c, None} /\ turn' \in {c, None}
     /\ \/ /\ Active(c)' /\ turn' = None /\ (turn = c \/ ~Active(c))
           /\ queue'[s] = Append(queue[s], c)
        \/ /\ ~Active(c)' \/ turn' = c
           /\ turn = c \/ ~Active(c)
           /\ queue'[s] = queue[s]
        \/ /\ ~Active(c)' \/ turn' = c
           /\ Len(queue[s]) > 0 /\ c = Head(queue[s])
           /\ queue'[s] = Tail(queue[s])
        \/ /\ Active(c)' /\ turn' = None
           /\ Contains(queue[s], c)
           /\ queue'[s] = queue[s]

LEMMA QueuePreserved ==
  ASSUME TypeOK, QueueInv, NEW c \in Callers, QueueStep(c),
         \A x \in Callers : x # c => (Active(x)' <=> Active(x))
  PROVE  QueueInv'
<1> DEFINE s == Side[c]
           q == queue[s]
           r == queue'[s]
<1>1. s \in Sides
  BY SideAssumption
<1>2. q \in Seq(Callers)
  BY <1>1 DEF TypeOK
<1>3. /\ \A x \in Sides : x # s => queue'[x] = queue[x]
      /\ turn \in {c, None} /\ turn' \in {c, None}
  BY DEF QueueStep
<1>4. \A x \in Callers : x # None
  BY CallersAssumption
<1>5. \A x \in Callers : x # c => (Active(x)' /\ turn' # x <=> Active(x) /\ turn # x)
  BY <1>3, <1>4
<1>6. ASSUME NEW x \in Sides, x # s
      PROVE  /\ Distinct(queue'[x])
             /\ \A d \in Callers : Contains(queue'[x], d) <=> Side[d] = x /\ Active(d)' /\ turn' # d
  <2>1. queue'[x] = queue[x]
    BY <1>3, <1>6
  <2>2. \A d \in Callers : Side[d] = x => d # c
    BY <1>6
  <2>3. Distinct(queue[x]) /\ \A d \in Callers : Contains(queue[x], d) <=> Side[d] = x /\ Active(d) /\ turn # d
    BY DEF QueueInv
  <2> QED
    BY <1>5, <2>1, <2>2, <2>3
<1>7. Distinct(q) /\ \A d \in Callers : Contains(q, d) <=> Side[d] = s /\ Active(d) /\ turn # d
  BY <1>1 DEF QueueInv
<1>8. Distinct(r) /\ \A d \in Callers : Contains(r, d) <=> Side[d] = s /\ Active(d)' /\ turn' # d
  <2>1. CASE /\ Active(c)' /\ turn' = None /\ (turn = c \/ ~Active(c))
             /\ r = Append(q, c)
    <3>1. ~Contains(q, c)
      BY <1>7, <2>1
    <3>2. Distinct(r) /\ \A d : Contains(r, d) <=> Contains(q, d) \/ d = c
      BY <1>2, <1>7, <2>1, <3>1, ContainsAppended
    <3> HIDE DEF q, r
    <3> QED
      BY <1>4, <1>5, <1>7, <2>1, <3>2
  <2>2. CASE /\ ~Active(c)' \/ turn' = c
             /\ turn = c \/ ~Active(c)
             /\ r = q
    <3> HIDE DEF q, r
    <3> QED
      BY <1>5, <1>7, <2>2
  <2>3. CASE /\ ~Active(c)' \/ turn' = c
             /\ Len(q) > 0 /\ c = Head(q)
             /\ r = Tail(q)
    <3>1. Distinct(r) /\ \A d : Contains(r, d) <=> Contains(q, d) /\ d # c
      BY <1>2, <1>7, <2>3, ContainsTail
    <3> HIDE DEF q, r
    <3> QED
      BY <1>5, <1>7, <2>3, <3>1
  <2>4. CASE /\ Active(c)' /\ turn' = None
             /\ Contains(q, c)
             /\ r = q
    <3> HIDE DEF q, r
    <3> QED
      BY <1>4, <1>5, <1>7, <2>4
  <2> QED
    BY <2>1, <2>2, <2>3, <2>4 DEF QueueStep
<1> QED
  BY <1>6, <1>8 DEF QueueInv

LEMMA BeforeAppended ==
  ASSUME NEW T, NEW cs \in Seq(T), NEW e \in T
  PROVE  /\ \A a, b : Before(cs, a, b) => Before(Append(cs, e), a, b)
         /\ \A a : Contains(cs, a) => Before(Append(cs, e), a, e)
<1> DEFINE r == Append(cs, e)
<1>1. /\ Len(cs) \in Nat /\ Len(r) = Len(cs) + 1
      /\ (\A i \in 1 .. Len(cs) : r[i] = cs[i]) /\ r[Len(cs) + 1] = e
  BY Appended
<1> HIDE DEF r
<1>2. \A a, b : Before(cs, a, b) => Before(r, a, b)
  BY <1>1 DEF Before
<1>3. ASSUME NEW a, Contains(cs, a) PROVE Before(r, a, e)
  <2>1. PICK i \in 1 .. Len(cs) : cs[i] = a
    BY <1>3 DEF Contains
  <2>2. i \in 1 .. Len(r) /\ Len(cs) + 1 \in 1 .. Len(r) /\ i < Len(cs) + 1 /\ r[i] = a
    BY <1>1, <2>1
  <2> QED
    BY <1>1, <2>2 DEF Before
<1> QED
  BY <1>2, <1>3 DEF r

\* The first operations that are pending are in the order of their calls.
Ordered(q, d, cs) ==
  \A i, j \in 1 .. Len(q) : i < j /\ d[q[i]] = 0 /\ d[q[j]] = 0 => Before(cs, q[i], q[j])

LEMMA OrderPreserved ==
  ASSUME TypeOK, QueueInv, DoneInv, OrderInv, NEW c \in Callers, QueueStep(c),
         \A x \in Callers : done'[x] = 0 => done[x] = 0,
         \/ calls' = calls /\ Active(c)
         \/ ~Begun(c) /\ turn = None /\ calls' = [calls EXCEPT ![Side[c]] = Append(calls[Side[c]], c)]
  PROVE  OrderInv'
<1> DEFINE s == Side[c]
           q == queue[s]
           r == queue'[s]
           cs == calls[s]
           ds == calls'[s]
<1>1. s \in Sides
  BY SideAssumption
<1>2. q \in Seq(Callers) /\ cs \in Seq(Callers) /\ Len(q) \in Nat
  <2>1. q \in Seq(Callers) /\ cs \in Seq(Callers)
    BY <1>1 DEF TypeOK
  <2> HIDE DEF q, cs
  <2> QED
    BY <2>1, LenProperties
<1>3. /\ \A x \in Sides : x # s => queue'[x] = queue[x] /\ calls'[x] = calls[x]
      /\ turn \in {c, None} /\ turn' \in {c, None}
  BY <1>1 DEF QueueStep, TypeOK
<1>4. \A x \in Sides : Distinct(calls[x]) /\ Ordered(queue[x], done, calls[x])
  BY DEF OrderInv, Ordered
<1>5. \A x \in Sides : \A i \in 1 .. Len(queue[x]) : queue[x][i] \in Callers
  BY ElementOfSeq DEF TypeOK
<1>6. ASSUME NEW x \in Sides, x # s
      PROVE  Distinct(calls'[x]) /\ Ordered(queue'[x], done', calls'[x])
  <2>1. queue'[x] = queue[x] /\ calls'[x] = calls[x]
    BY <1>3, <1>6
  <2>2. Distinct(calls[x]) /\ Ordered(queue[x], done, calls[x])
    BY <1>4
  <2>3. Ordered(queue[x], done', calls[x])
    BY <1>5, <2>2 DEF Ordered
  <2> QED
    BY <2>1, <2>2, <2>3
<1>7. Distinct(cs) /\ Ordered(q, done, cs)
  BY <1>1, <1>4
<1>8. Distinct(ds) /\ \A a, b : Before(cs, a, b) => Before(ds, a, b)
  <2>1. CASE calls' = calls /\ Active(c)
    BY <1>7, <2>1
  <2>2. CASE ~Begun(c) /\ calls' = [calls EXCEPT ![s] = Append(cs, c)]
    <3>1. ds = Append(cs, c)
      BY <1>1, <2>2 DEF TypeOK
    <3>2. ~Contains(cs, c)
      BY <2>2 DEF Begun
    <3> HIDE DEF cs, ds
    <3> QED
      BY <1>2, <1>7, <3>1, <3>2, ContainsAppended, BeforeAppended
  <2> QED
    BY <2>1, <2>2
<1>9. \A i \in 1 .. Len(q) : q[i] \in Callers
  BY <1>1, <1>5
<1>10. Ordered(q, done', ds)
  <2> HIDE DEF q, cs, ds
  <2> QED
    BY <1>7, <1>8, <1>9 DEF Ordered
<1>11. Ordered(r, done', ds)
  <2>1. CASE r = q
    BY <1>10, <2>1
  <2>2. CASE Len(q) > 0 /\ r = Tail(q)
    <3>1. /\ Len(r) = Len(q) - 1
          /\ \A i \in 1 .. Len(q) - 1 : r[i] = q[i + 1]
      BY <1>2, <2>2, Headed
    <3> HIDE DEF q, r, ds
    <3> SUFFICES ASSUME NEW i \in 1 .. Len(r), NEW j \in 1 .. Len(r), i < j,
                        done'[r[i]] = 0, done'[r[j]] = 0
                 PROVE  Before(ds, r[i], r[j])
      BY DEF Ordered
    <3>2. /\ i + 1 \in 1 .. Len(q) /\ j + 1 \in 1 .. Len(q) /\ i + 1 < j + 1
          /\ r[i] = q[i + 1] /\ r[j] = q[j + 1]
      BY <1>2, <3>1
    <3> QED
      BY <1>10, <3>2 DEF Ordered
  <2>3. CASE (turn = c \/ ~Active(c)) /\ r = Append(q, c)
    <3>1. /\ Len(r) = Len(q) + 1
          /\ \A i \in 1 .. Len(q) : r[i] = q[i]
          /\ r[Len(q) + 1] = c
      BY <1>2, <2>3, Appended
    <3>2. CASE turn = c
      <4>1. done[c] > 0
        BY <3>2 DEF DoneInv
      <4>2. done'[c] # 0
        BY <4>1
      <4> HIDE DEF q, r, ds
      <4> QED
        BY <1>2, <1>10, <3>1, <4>2 DEF Ordered
    <3>3. CASE ~Active(c)
      <4>1. ~Begun(c) /\ calls' = [calls EXCEPT ![s] = Append(cs, c)]
        BY <3>3
      <4>2. ds = Append(cs, c)
        BY <1>1, <4>1 DEF TypeOK
      <4>3. \A i \in 1 .. Len(q) : Contains(cs, q[i])
        <5> TAKE i \in 1 .. Len(q)
        <5>1. Contains(q, q[i]) /\ q[i] \in Callers
          BY <1>9 DEF Contains
        <5>2. \A d \in Callers : Contains(q, d) => Side[d] = s /\ Active(d)
          BY <1>1 DEF QueueInv
        <5>3. \A d \in Callers : Contains(q, d) => Contains(cs, d)
          BY <5>2 DEF Active, Begun
        <5> HIDE DEF q, cs
        <5> QED
          BY <5>1, <5>3
      <4>4. \A i \in 1 .. Len(q) : Before(ds, q[i], c)
        <5> HIDE DEF q, cs, ds
        <5> QED
          BY <1>2, <4>2, <4>3, BeforeAppended
      <4> HIDE DEF q, r, ds
      <4> QED
        BY <1>2, <1>10, <3>1, <4>4 DEF Ordered
    <3> QED
      BY <2>3, <3>2, <3>3
  <2> QED
    BY <2>1, <2>2, <2>3 DEF QueueStep
<1> QED
  BY <1>6, <1>8, <1>11 DEF OrderInv, Ordered

LEMMA RunTypes ==
  ASSUME IInv, NEW c \in Callers, NEW l, Runs(c, l),
         queue' \in [Sides -> Seq(Callers)], calls' \in [Sides -> Seq(Callers)],
         loop' \in [side : Sides, left : Nat, closing : BOOLEAN, again : BOOLEAN]
  PROVE  TypeOK' /\ RoomInv'
<1>1. /\ l \in Nat /\ l <= OpSize(c) /\ done[c] < Len(Program[c])
      /\ RunOperation(c, l) /\ UNCHANGED loopback /\ UNCHANGED netVars /\ UNCHANGED flowVars
  BY DEF Runs
<1>2. TypeOK /\ RoomInv
  BY DEF IInv
<1>3. OpSize(c) \in Nat
  BY <1>1, <1>2, OpSizeNat
<1>4. moved' \in [Sides -> Seq(Callers \X Nat)]
  BY <1>1, <1>2, <1>3, RunMoved
<1>5. /\ left' \in [Callers -> Nat] /\ done' \in [Callers -> Nat]
      /\ failed' \subseteq Callers /\ wakes' \in [Sides -> Nat]
      /\ turn' \in {c, None}
  BY <1>1, <1>2, <1>3, RunState
<1>6. /\ RoomInv'
      /\ Len(moved'["send"]) \in Nat /\ Len(moved["send"]) <= Len(moved'["send"])
      /\ Len(moved'["receive"]) <= Len(moved'["send"])
  BY <1>1, <1>2, <1>3, RunRoom
<1>7. /\ loopback' \in BOOLEAN /\ closeOnEmpty' \in BOOLEAN /\ refuses' \in BOOLEAN /\ acked' \in 0 .. delivered'
      /\ blocked' \in [Sides -> BOOLEAN] /\ closed' \in [Sides -> BOOLEAN] /\ blocks' \in 0 .. MaxBlocks
  BY <1>1, <1>2 DEF TypeOK, netVars, flowVars
<1>8. delivered' \in 0 .. Len(moved'["send"])
  <2>1. delivered' = delivered /\ delivered \in 0 .. Len(moved["send"])
    BY <1>1, <1>2 DEF TypeOK, netVars
  <2>2. Len(moved["send"]) \in Nat
    BY <1>2, LenMoved DEF Sides
  <2> QED
    BY <1>6, <2>1, <2>2
<1> QED
  BY <1>4, <1>5, <1>6, <1>7, <1>8 DEF TypeOK

\* The side of c after a run: if it does not complete what is pending waits, and a
\* call that does complete was not preceded by a wait.
LEMMA RunWakes ==
  ASSUME IInv, NEW c \in Callers, NEW l, Runs(c, l)
  PROVE  LET s == Side[c]
             o == Other(s)
         IN /\ s \in Sides /\ o \in Sides /\ o # s /\ Sides = {s, o}
            /\ ~Completes(c, l) => Waits(s)'
            /\ Completes(c, l) => ~Waits(s)
            /\ Waits(o) => Waits(o)' \/ wakes'[o] > 0
            /\ wakes[s] > 0 => wakes'[s] > 0
            /\ wakes[o] > 0 => wakes'[o] > 0
            /\ ~loopback => wakes' = wakes
            /\ loopback' = loopback
<1> DEFINE s == Side[c]
           o == Other(s)
<1>1. /\ l \in Nat /\ l <= OpSize(c) /\ done[c] < Len(Program[c])
      /\ RunOperation(c, l) /\ UNCHANGED loopback /\ UNCHANGED netVars /\ UNCHANGED flowVars
  BY DEF Runs
<1>2. TypeOK /\ RoomInv
  BY DEF IInv
<1>3. OpSize(c) \in Nat
  BY <1>1, <1>2, OpSizeNat
<1>4. s \in Sides /\ o \in Sides /\ o # s /\ Sides = {s, o}
  BY SideAssumption DEF Sides, Other
<1>5. /\ ~Completes(c, l) => Waits(s)'
      /\ Completes(c, l) => ~Waits(s)
      /\ Waits(o) => Waits(o)' \/ wakes'[o] > 0
  BY <1>1, <1>2, <1>3, RunWaits
<1>6. /\ wakes' \in [Sides -> Nat]
      /\ wakes'[s] = wakes[s]
      /\ ~loopback => wakes' = wakes
      /\ wakes[o] <= wakes'[o]
  BY <1>1, <1>2, <1>3, RunState
<1>7. wakes[o] \in Nat /\ wakes'[o] \in Nat
  BY <1>2, <1>4, <1>6 DEF TypeOK
<1>8. wakes[o] > 0 => wakes'[o] > 0
  BY <1>6, <1>7
<1> HIDE DEF s, o
<1> QED
  BY <1>1, <1>4, <1>5, <1>6, <1>8 DEF s, o

\* What is known when an operation is called.
LEMMA CallRuns ==
  ASSUME IInv, NEW c \in Callers, Call(c)
  PROVE  /\ Runs(c, OpSize(c))
         /\ turn \in {c, None}
         /\ Program[c][1] > 0 /\ done[c] = 0 => FirstMoved(c) + OpSize(c) = Program[c][1]
         /\ \/ calls' = calls /\ Active(c) /\ turn = c
            \/ ~Begun(c) /\ turn = None /\ calls' = [calls EXCEPT ![Side[c]] = Append(calls[Side[c]], c)]
         /\ calls' \in [Sides -> Seq(Callers)]
<1>1. /\ TypeOK /\ DoneInv /\ CountInv
  BY DEF IInv
<1>2. Side[c] \in Sides /\ calls \in [Sides -> Seq(Callers)] /\ c # None
  BY <1>1, SideAssumption, CallersAssumption DEF TypeOK
<1>3. /\ turn = c \/ (Idle /\ ~Contains(calls[Side[c]], c))
      /\ RunOperation(c, OpSize(c))
      /\ calls' = IF turn = c THEN calls ELSE [calls EXCEPT ![Side[c]] = Append(calls[Side[c]], c)]
      /\ UNCHANGED <<loopback, netVars, flowVars>>
  BY DEF Call
<1>4. Program[c] \in Seq(Nat) /\ Len(Program[c]) \in Nat /\ Len(Program[c]) > 0
  BY ProgramAssumption, LenProperties, EmptySeq
<1>5. done[c] \in Nat
  BY <1>1 DEF TypeOK
<1>6. CASE turn = c
  <2>1. Active(c) /\ done[c] > 0
    BY <1>1, <1>6 DEF DoneInv
  <2>2. done[c] <= Len(Program[c]) /\ done[c] # Len(Program[c]) /\ c \notin failed
    BY <1>1, <2>1 DEF DoneInv, Active, Ended
  <2>3. done[c] < Len(Program[c])
    BY <1>4, <1>5, <2>2
  <2>4. OpSize(c) \in Nat
    BY <1>1, <2>3, OpSizeNat
  <2>5. calls' = calls
    BY <1>3, <1>6
  <2>6. \A x \in Callers : Begun(x)' <=> (Begun(x) \/ x = c)
    BY <2>1, <2>5 DEF Begun, Active
  <2>7. Runs(c, OpSize(c))
    BY <1>3, <2>2, <2>3, <2>4, <2>6 DEF Runs
  <2> QED
    BY <1>2, <1>5, <1>6, <2>1, <2>5, <2>7
<1>7. CASE turn # c
  <2>1. ~Begun(c) /\ turn = None
    BY <1>3, <1>7 DEF Begun, Idle
  <2>2. done[c] = 0 /\ c \notin failed
    BY <1>1, <2>1 DEF DoneInv
  <2>3. done[c] < Len(Program[c])
    BY <1>4, <2>2
  <2>4. OpSize(c) \in Nat /\ OpSize(c) = Program[c][1]
    BY <1>1, <2>2, <2>3, OpSizeNat DEF OpSize
  <2>5. calls' = [calls EXCEPT ![Side[c]] = Append(calls[Side[c]], c)]
    BY <1>3, <1>7
  <2>6. calls[Side[c]] \in Seq(Callers) /\ Append(calls[Side[c]], c) \in Seq(Callers)
    BY <1>2, Appended
  <2>7. /\ calls' \in [Sides -> Seq(Callers)]
        /\ calls'[Side[c]] = Append(calls[Side[c]], c)
        /\ \A x \in Sides : x # Side[c] => calls'[x] = calls[x]
    BY <1>2, <2>5, <2>6
  <2>8. \A x \in Callers : Begun(x)' <=> (Begun(x) \/ x = c)
    <3> TAKE x \in Callers
    <3>1. CASE Side[x] = Side[c]
      <4>1. Begun(x)' <=> Contains(Append(calls[Side[c]], c), x)
        BY <2>7, <3>1 DEF Begun
      <4>2. Begun(x) <=> Contains(calls[Side[c]], x)
        BY <3>1 DEF Begun
      <4> QED
        BY <2>6, <4>1, <4>2, ContainsAppended
    <3>2. CASE Side[x] # Side[c]
      <4>1. Side[x] \in Sides
        BY SideAssumption
      <4>2. Begun(x)' <=> Begun(x)
        BY <2>7, <3>2, <4>1 DEF Begun
      <4> QED
        BY <3>2, <4>2
    <3> QED
      BY <3>1, <3>2
  <2>9. Runs(c, OpSize(c))
    BY <1>3, <2>2, <2>3, <2>4, <2>8 DEF Runs
  <2>10. Program[c][1] > 0 => FirstMoved(c) = 0
    BY <1>1, <2>1 DEF CountInv
  <2> QED
    BY <2>1, <2>4, <2>5, <2>7, <2>9, <2>10
<1> QED
  BY <1>6, <1>7
-----------------------------------------------------------------------------
(* The actions.                                                            *)

LEMMA CallQueue ==
  ASSUME IInv, NEW c \in Callers, Call(c)
  PROVE  /\ queue' \in [Sides -> Seq(Callers)]
         /\ QueueStep(c)
         /\ Completes(c, OpSize(c)) => queue' = queue
         /\ \A x \in Sides : Len(queue[x]) \in Nat /\ Len(queue'[x]) \in Nat /\ Len(queue[x]) <= Len(queue'[x])
<1> DEFINE s == Side[c]
           q == queue[s]
           l == OpSize(c)
<1>1. s \in Sides
  BY SideAssumption
<1>2. queue \in [Sides -> Seq(Callers)] /\ q \in Seq(Callers)
  BY <1>1 DEF IInv, TypeOK
<1>3. Runs(c, l) /\ turn \in {c, None} /\ (turn = c \/ ~Active(c))
  BY CallRuns DEF Active
<1>4. turn' \in {c, None} /\ (~Completes(c, l) => turn' = None)
  <2>1. l \in Nat /\ l <= OpSize(c) /\ RunOperation(c, l) /\ UNCHANGED loopback
    BY <1>3 DEF Runs
  <2>2. TypeOK /\ RoomInv
    BY DEF IInv
  <2> QED
    BY <2>1, <2>2, RunState
<1>5. Active(c)' <=> (~Completes(c, l) \/ turn' = c)
  BY <1>3, RunActive
<1>6. queue' = IF Completes(c, l) THEN queue ELSE [queue EXCEPT ![s] = Append(q, c)]
  BY DEF Call, QueueAfter
<1>7. \A x \in Sides : queue[x] \in Seq(Callers) /\ Len(queue[x]) \in Nat
  BY <1>2, LenProperties
<1>8. CASE Completes(c, l)
  <2>1. queue' = queue
    BY <1>6, <1>8
  <2>2. QueueStep(c)
    BY <1>3, <1>4, <1>5, <1>8, <2>1 DEF QueueStep
  <2> QED
    BY <1>2, <1>7, <2>1, <2>2
<1>9. CASE ~Completes(c, l)
  <2>1. queue' = [queue EXCEPT ![s] = Append(q, c)]
    BY <1>6, <1>9
  <2>2. Append(q, c) \in Seq(Callers) /\ Len(Append(q, c)) = Len(q) + 1
    BY <1>2, Appended
  <2>3. /\ queue'[s] = Append(q, c) /\ (\A x \in Sides : x # s => queue'[x] = queue[x])
        /\ queue' \in [Sides -> Seq(Callers)]
    BY <1>1, <1>2, <2>1, <2>2
  <2>4. QueueStep(c)
    BY <1>3, <1>4, <1>5, <1>9, <2>3 DEF QueueStep
  <2>5. \A x \in Sides : Len(queue[x]) \in Nat /\ Len(queue'[x]) \in Nat /\ Len(queue[x]) <= Len(queue'[x])
    <3> TAKE x \in Sides
    <3>1. CASE x = s
      BY <1>7, <2>2, <2>3, <3>1
    <3>2. CASE x # s
      BY <1>7, <2>3, <3>2
    <3> QED
      BY <3>1, <3>2
  <2> QED
    BY <1>9, <2>3, <2>4, <2>5
<1> QED
  BY <1>8, <1>9

LEMMA CallIInv ==
  ASSUME IInv, NEW c \in Callers, Call(c)
  PROVE  IInv'
<1> DEFINE s == Side[c]
           o == Other(s)
           l == OpSize(c)
<1>1. /\ TypeOK /\ DoneInv /\ QueueInv /\ OrderInv /\ LoopInv /\ WakeInv
  BY DEF IInv
<1>2. /\ Runs(c, l)
      /\ Program[c][1] > 0 /\ done[c] = 0 => FirstMoved(c) + l = Program[c][1]
      /\ \/ calls' = calls /\ Active(c)
         \/ ~Begun(c) /\ turn = None /\ calls' = [calls EXCEPT ![s] = Append(calls[s], c)]
      /\ calls' \in [Sides -> Seq(Callers)]
  BY CallRuns
<1>3. /\ queue' \in [Sides -> Seq(Callers)]
      /\ QueueStep(c)
      /\ Completes(c, l) => queue' = queue
      /\ \A x \in Sides : Len(queue[x]) \in Nat /\ Len(queue'[x]) \in Nat /\ Len(queue[x]) <= Len(queue'[x])
  BY CallQueue
<1>4. loop' = loop /\ loop \in [side : Sides, left : Nat, closing : BOOLEAN, again : BOOLEAN]
  BY <1>1 DEF Call, TypeOK
<1>5. TypeOK' /\ RoomInv'
  BY <1>2, <1>3, <1>4, RunTypes
<1>6. DoneInv' /\ CountInv'
  BY <1>2, RunDone, RunCountInv
<1>7. /\ \A x \in Callers : x # c => (Active(x)' <=> Active(x))
      /\ \A x \in Callers : done'[x] = 0 => done[x] = 0
  BY <1>2, RunActive
<1>8. QueueInv'
  BY <1>1, <1>3, <1>7, QueuePreserved
<1>9. OrderInv'
  BY <1>1, <1>2, <1>3, <1>7, OrderPreserved
<1>10. /\ s \in Sides /\ o \in Sides /\ o # s /\ Sides = {s, o}
       /\ ~Completes(c, l) => Waits(s)'
       /\ Completes(c, l) => ~Waits(s)
       /\ Waits(o) => Waits(o)' \/ wakes'[o] > 0
       /\ wakes[s] > 0 => wakes'[s] > 0
       /\ wakes[o] > 0 => wakes'[o] > 0
       /\ ~loopback => wakes' = wakes
       /\ loopback' = loopback
  BY <1>2, RunWakes
<1> HIDE DEF s, o, l
<1>11. LoopInv'
  <2>1. loop.left \in Nat /\ loop.side \in Sides /\ loop.left <= Len(queue[loop.side])
    BY <1>1, <1>4 DEF LoopInv
  <2>2. loop'.left <= Len(queue'[loop'.side])
    BY <1>3, <1>4, <2>1
  <2> QED
    BY <1>1, <1>4, <1>10, <2>2 DEF LoopInv
<1>12. queue'[o] = queue[o]
  BY <1>3, <1>10 DEF QueueStep, s
<1>13. queue'[s] # <<>> =>
         \/ Waits(s)' \/ wakes'[s] > 0
         \/ loop'.side = s /\ loop'.left > 0 /\ loop'.left = Len(queue'[s])
         \/ loop'.again /\ s = "receive"
  BY <1>1, <1>3, <1>4, <1>10 DEF WakeInv
<1>14. queue'[o] # <<>> =>
         \/ Waits(o)' \/ wakes'[o] > 0
         \/ loop'.side = o /\ loop'.left > 0 /\ loop'.left = Len(queue'[o])
         \/ loop'.again /\ o = "receive"
  BY <1>1, <1>4, <1>10, <1>12 DEF WakeInv
<1>15. WakeInv'
  <2> SUFFICES ASSUME NEW x \in Sides, queue'[x] # <<>>
               PROVE \/ Waits(x)' \/ wakes'[x] > 0
                     \/ loop'.side = x /\ loop'.left > 0 /\ loop'.left = Len(queue'[x])
                     \/ loop'.again /\ x = "receive"
    BY DEF WakeInv
  <2>1. CASE x = s
    BY <1>13, <2>1 DEF Waits, Room, s
  <2>2. CASE x = o
    BY <1>14, <2>2 DEF Waits, Room, s, o, Other
  <2> QED
    BY <1>10, <2>1, <2>2
<1> QED
  BY <1>5, <1>6, <1>8, <1>9, <1>11, <1>15 DEF IInv

\* What is known when a loop resumes the operation of c.
LEMMA VisitRuns ==
  ASSUME IInv, Visit
  PROVE  \E c \in Callers :
           /\ loop.side = Side[c] /\ c = Head(queue[Side[c]]) /\ Contains(queue[Side[c]], c)
           /\ loop.left \in Nat /\ loop.left > 0 /\ loop.left <= Len(queue[Side[c]])
           /\ Len(queue[Side[c]]) > 0
           /\ turn = None /\ Active(c)
           /\ Runs(c, left[c])
           /\ Program[c][1] > 0 /\ done[c] = 0 => FirstMoved(c) + left[c] = Program[c][1]
           /\ calls' = calls
           /\ Completes(c, left[c]) => queue' = Popped(Side[c]) /\ loop' = [loop EXCEPT !.left = @ - 1]
           /\ ~Completes(c, left[c]) => loop' = Break /\ queue' = queue
<1>1. TypeOK /\ DoneInv /\ CountInv /\ QueueInv /\ LoopInv
  BY DEF IInv
<1>2. /\ loop.side \in Sides /\ loop.left \in Nat /\ loop.left > 0
      /\ loop.left <= Len(queue[loop.side])
  BY <1>1 DEF TypeOK, LoopInv, Visit
<1>3. queue[loop.side] \in Seq(Callers)
  BY <1>1, <1>2 DEF TypeOK
<1>4. Len(queue[loop.side]) \in Nat /\ Len(queue[loop.side]) > 0
  BY <1>2, <1>3, LenProperties
<1>5. Head(queue[loop.side]) \in Callers /\ Contains(queue[loop.side], Head(queue[loop.side]))
  BY <1>1, <1>2, <1>3, <1>4, Headed, ContainsTail DEF QueueInv
<1>6. PICK c \in Callers : c = Head(queue[loop.side])
  BY <1>5
<1>7. Side[c] = loop.side /\ Active(c)
  BY <1>1, <1>2, <1>5, <1>6 DEF QueueInv
<1>8. /\ turn = None /\ RunOperation(c, left[c]) /\ calls' = calls
      /\ UNCHANGED <<loopback, netVars, flowVars>>
      /\ Completes(c, left[c]) => queue' = Popped(Side[c]) /\ loop' = [loop EXCEPT !.left = @ - 1]
      /\ ~Completes(c, left[c]) => loop' = Break /\ queue' = queue
  BY <1>6, <1>7 DEF Visit
<1>9. left[c] \in Nat /\ done[c] \in Nat /\ left[c] <= OpSize(c) /\ done[c] <= Len(Program[c])
  BY <1>1, <1>7 DEF TypeOK, DoneInv
<1>10. done[c] # Len(Program[c]) /\ c \notin failed
  BY <1>7 DEF Active, Ended
<1>11. Len(Program[c]) \in Nat
  BY ProgramAssumption, LenProperties
<1>12. done[c] < Len(Program[c])
  BY <1>9, <1>10, <1>11
<1>13. \A x \in Callers : Begun(x)' <=> (Begun(x) \/ x = c)
  BY <1>7, <1>8 DEF Begun, Active
<1>14. Runs(c, left[c])
  BY <1>8, <1>9, <1>10, <1>12, <1>13 DEF Runs
<1>15. Program[c][1] > 0 /\ done[c] = 0 => FirstMoved(c) + left[c] = Program[c][1]
  BY <1>1, <1>7 DEF CountInv
<1> QED
  BY <1>2, <1>4, <1>5, <1>6, <1>7, <1>8, <1>14, <1>15

LEMMA VisitIInv ==
  ASSUME IInv, Visit
  PROVE  IInv'
<1>1. PICK c \in Callers :
        /\ loop.side = Side[c] /\ c = Head(queue[Side[c]]) /\ Contains(queue[Side[c]], c)
        /\ loop.left \in Nat /\ loop.left > 0 /\ loop.left <= Len(queue[Side[c]])
        /\ Len(queue[Side[c]]) > 0
        /\ turn = None /\ Active(c)
        /\ Runs(c, left[c])
        /\ Program[c][1] > 0 /\ done[c] = 0 => FirstMoved(c) + left[c] = Program[c][1]
        /\ calls' = calls
        /\ Completes(c, left[c]) => queue' = Popped(Side[c]) /\ loop' = [loop EXCEPT !.left = @ - 1]
        /\ ~Completes(c, left[c]) => loop' = Break /\ queue' = queue
  BY VisitRuns
<1>2. PICK l : l = left[c]
  OBVIOUS
<1> DEFINE s == Side[c]
           o == Other(s)
           q == queue[s]
<1>3. /\ TypeOK /\ DoneInv /\ QueueInv /\ OrderInv /\ LoopInv /\ WakeInv /\ RoomInv
  BY DEF IInv
<1>4. /\ s \in Sides /\ o \in Sides /\ o # s /\ Sides = {s, o}
      /\ ~Completes(c, l) => Waits(s)'
      /\ Completes(c, l) => ~Waits(s)
      /\ Waits(o) => Waits(o)' \/ wakes'[o] > 0
      /\ wakes[s] > 0 => wakes'[s] > 0
      /\ wakes[o] > 0 => wakes'[o] > 0
      /\ ~loopback => wakes' = wakes
      /\ loopback' = loopback
  BY <1>1, <1>2, RunWakes
<1>5. /\ queue \in [Sides -> Seq(Callers)] /\ q \in Seq(Callers)
      /\ loop \in [side : Sides, left : Nat, closing : BOOLEAN, again : BOOLEAN]
      /\ calls \in [Sides -> Seq(Callers)]
  BY <1>3, <1>4 DEF TypeOK
<1>6. Len(q) \in Nat /\ Tail(q) \in Seq(Callers) /\ Len(Tail(q)) = Len(q) - 1
  BY <1>1, <1>5, Headed
<1>7. /\ loop' \in [side : Sides, left : Nat, closing : BOOLEAN, again : BOOLEAN]
      /\ loop'.side = s /\ loop'.again = loop.again
      /\ Completes(c, l) => loop'.left = loop.left - 1
      /\ ~Completes(c, l) => loop'.left <= loop.left
  <2>1. CASE Completes(c, l)
    <3>1. loop' = [loop EXCEPT !.left = loop.left - 1] /\ loop.left - 1 \in Nat
      BY <1>1, <1>2, <2>1
    <3> QED
      BY <1>1, <1>5, <2>1, <3>1
  <2>2. CASE ~Completes(c, l)
    <3>1. loop' = IF loop.closing THEN loop ELSE [loop EXCEPT !.left = 0]
      BY <1>1, <1>2, <2>2 DEF Break
    <3>2. CASE loop.closing
      BY <1>1, <1>5, <2>2, <3>1, <3>2
    <3>3. CASE ~loop.closing
      <4>1. loop' = [loop EXCEPT !.left = 0]
        BY <3>1, <3>3
      <4>2. /\ loop' \in [side : Sides, left : Nat, closing : BOOLEAN, again : BOOLEAN]
            /\ loop'.side = loop.side /\ loop'.again = loop.again /\ loop'.left = 0
        BY <1>5, <4>1
      <4> QED
        BY <1>1, <2>2, <4>2
    <3> QED
      BY <3>2, <3>3
  <2> QED
    BY <2>1, <2>2
<1>8. /\ queue' \in [Sides -> Seq(Callers)]
      /\ queue'[s] = IF Completes(c, l) THEN Tail(q) ELSE q
      /\ \A x \in Sides : x # s => queue'[x] = queue[x]
  <2>1. CASE Completes(c, l)
    <3>1. queue' = [queue EXCEPT ![s] = Tail(q)]
      BY <1>1, <1>2, <2>1 DEF Popped
    <3> QED
      BY <1>4, <1>5, <1>6, <2>1, <3>1
  <2>2. CASE ~Completes(c, l)
    BY <1>1, <1>2, <1>5, <2>2
  <2> QED
    BY <2>1, <2>2
<1>9. TypeOK' /\ RoomInv'
  BY <1>1, <1>2, <1>5, <1>7, <1>8, RunTypes
<1>10. DoneInv' /\ CountInv'
  BY <1>1, <1>2, RunDone, RunCountInv
<1>11. /\ \A x \in Callers : x # c => (Active(x)' <=> Active(x))
       /\ \A x \in Callers : done'[x] = 0 => done[x] = 0
       /\ Active(c)' <=> (~Completes(c, l) \/ turn' = c)
  BY <1>1, <1>2, RunActive
<1>12. turn' \in {c, None} /\ (~Completes(c, l) => turn' = None)
  <2>1. l \in Nat /\ l <= OpSize(c) /\ done[c] < Len(Program[c]) /\ RunOperation(c, l) /\ UNCHANGED loopback
    BY <1>1, <1>2 DEF Runs
  <2> QED
    BY <1>3, <2>1, OpSizeNat, RunState
<1>13. QueueStep(c)
  <2>1. CASE Completes(c, l)
    BY <1>1, <1>8, <1>11, <1>12, <2>1 DEF QueueStep
  <2>2. CASE ~Completes(c, l)
    BY <1>1, <1>8, <1>11, <1>12, <2>2 DEF QueueStep
  <2> QED
    BY <2>1, <2>2
<1>14. QueueInv'
  BY <1>3, <1>11, <1>13, QueuePreserved
<1>15. OrderInv'
  BY <1>1, <1>3, <1>11, <1>13, OrderPreserved
<1>16. LoopInv'
  <2>1. loop'.left <= Len(queue'[s])
    BY <1>1, <1>6, <1>7, <1>8
  <2> QED
    BY <1>1, <1>3, <1>4, <1>7, <2>1 DEF LoopInv
<1>17. queue'[s] # <<>> /\ Completes(c, l) =>
         \/ wakes'[s] > 0
         \/ loop'.left > 0 /\ loop'.left = Len(queue'[s])
         \/ loop'.again /\ s = "receive"
  <2> HAVE queue'[s] # <<>> /\ Completes(c, l)
  <2>1. q # <<>>
    BY <1>1, <1>5, Headed
  <2>2. \/ wakes[s] > 0
        \/ loop.left = Len(q)
        \/ loop.again /\ s = "receive"
    BY <1>3, <1>4, <2>1 DEF WakeInv
  <2>3. Len(queue'[s]) \in Nat \ {0}
    BY <1>4, <1>8, EmptySeq
  <2>4. loop'.left = loop.left - 1 /\ Len(queue'[s]) = Len(q) - 1
    BY <1>6, <1>7, <1>8
  <2> QED
    BY <1>1, <1>4, <1>6, <1>7, <2>2, <2>3, <2>4
<1>18. queue'[o] # <<>> => Waits(o)' \/ wakes'[o] > 0 \/ (loop'.again /\ o = "receive")
  BY <1>1, <1>3, <1>4, <1>7, <1>8 DEF WakeInv
<1>19. WakeInv'
  <2> SUFFICES ASSUME NEW x \in Sides, queue'[x] # <<>>
               PROVE \/ Waits(x)' \/ wakes'[x] > 0
                     \/ loop'.side = x /\ loop'.left > 0 /\ loop'.left = Len(queue'[x])
                     \/ loop'.again /\ x = "receive"
    BY DEF WakeInv
  <2>1. CASE x = s
    <3>1. CASE Completes(c, l)
      BY <1>7, <1>17, <2>1, <3>1
    <3>2. CASE ~Completes(c, l)
      BY <1>4, <2>1, <3>2 DEF Waits, Room
    <3> QED
      BY <3>1, <3>2
  <2>2. CASE x = o
    BY <1>18, <2>2 DEF Waits, Room, Other
  <2> QED
    BY <1>4, <2>1, <2>2
<1> QED
  BY <1>9, <1>10, <1>14, <1>15, <1>16, <1>19 DEF IInv

\* Steps that move no bytes: they start a loop that covers what may go on.
LEMMA QuietIInv ==
  ASSUME IInv, TypeOK', RoomInv', LoopInv',
         UNCHANGED <<queue, left, done, failed, moved, turn, calls>>,
         \A x \in Sides : closed[x] => closed'[x],
         refuses => refuses',
         loop.left = 0,
         \A x \in Sides :
           \/ /\ ~(loop.again /\ x = "receive")
              /\ Waits(x) => Waits(x)'
              /\ wakes[x] > 0 => wakes'[x] > 0
           \/ loop'.side = x /\ loop'.left = Len(queue[x])
           \/ loop'.again /\ x = "receive"
  PROVE  IInv'
<1>1. \A x \in Callers :
        /\ Begun(x)' <=> Begun(x)
        /\ Ended(x)' <=> Ended(x)
        /\ Active(x)' <=> Active(x)
        /\ OpSize(x)' = OpSize(x)
        /\ FirstMoved(x)' = FirstMoved(x)
  BY DEF Begun, Ended, Active, OpSize, FirstMoved
<1>2. /\ queue' = queue /\ left' = left /\ done' = done /\ failed' = failed
      /\ moved' = moved /\ turn' = turn /\ calls' = calls
  OBVIOUS
<1>3. DoneInv'
  BY <1>1, <1>2, SideAssumption DEF IInv, DoneInv
<1>4. QueueInv'
  BY <1>1, <1>2 DEF IInv, QueueInv
<1>5. OrderInv'
  BY <1>2 DEF IInv, OrderInv
<1>6. CountInv'
  BY <1>1, <1>2 DEF IInv, CountInv
<1>7. WakeInv'
  <2> SUFFICES ASSUME NEW x \in Sides, queue[x] # <<>>
               PROVE \/ Waits(x)' \/ wakes'[x] > 0
                     \/ loop'.side = x /\ loop'.left > 0 /\ loop'.left = Len(queue[x])
                     \/ loop'.again /\ x = "receive"
    BY <1>2 DEF WakeInv
  <2>1. Waits(x) \/ wakes[x] > 0 \/ (loop.again /\ x = "receive")
    BY DEF IInv, WakeInv
  <2>2. Len(queue[x]) > 0
    BY EmptySeq DEF IInv, TypeOK
  <2> QED
    BY <2>1, <2>2
<1> QED
  BY <1>3, <1>4, <1>5, <1>6, <1>7 DEF IInv

\* A loop that starts reaches all that is pending on its side.
LEMMA LoopStarts ==
  ASSUME TypeOK, NEW s \in Sides
  PROVE  /\ Loop(s) \in [side : Sides, left : Nat, closing : BOOLEAN, again : BOOLEAN]
         /\ Loop(s).side = s /\ Loop(s).left = Len(queue[s]) /\ ~Loop(s).again
         /\ Len(queue[s]) \in Nat
<1>1. queue[s] \in Seq(Callers)
  BY DEF TypeOK
<1>2. Len(queue[s]) \in Nat
  BY <1>1, LenProperties
<1> QED
  BY <1>2 DEF Loop

LEMMA VisitAgainIInv ==
  ASSUME IInv, VisitAgain
  PROVE  IInv'
<1>1. TypeOK /\ RoomInv /\ LoopInv
  BY DEF IInv
<1>2. /\ turn = None /\ loop.left = 0 /\ loop.again /\ loop' = Loop("receive")
      /\ UNCHANGED <<loopback, queue, left, done, failed, moved, wakes, turn>>
      /\ UNCHANGED <<delivered, acked, closeOnEmpty, refuses, blocked, blocks, closed, calls>>
  BY DEF VisitAgain, opVars, netVars, flowVars
<1>3. /\ loop' \in [side : Sides, left : Nat, closing : BOOLEAN, again : BOOLEAN]
      /\ loop'.side = "receive" /\ loop'.left = Len(queue["receive"]) /\ ~loop'.again
      /\ Len(queue["receive"]) \in Nat
  BY <1>1, <1>2, LoopStarts DEF Sides
<1>4. TypeOK'
  BY <1>1, <1>2, <1>3 DEF TypeOK
<1>5. RoomInv'
  BY <1>1, <1>2 DEF RoomInv
<1>6. LoopInv'
  BY <1>1, <1>2, <1>3 DEF LoopInv
<1>7. \A x \in Sides : Waits(x) <=> Waits(x)'
  BY <1>2 DEF Waits, Room
<1> QED
  BY <1>2, <1>3, <1>4, <1>5, <1>6, <1>7, QuietIInv DEF Sides

LEMMA AckIInv ==
  ASSUME IInv, Ack
  PROVE  IInv'
<1>1. TypeOK /\ RoomInv /\ LoopInv
  BY DEF IInv
<1>2. /\ turn = None /\ loop.left = 0 /\ ~loop.again /\ loop' = Loop("send")
      /\ acked' \in (acked + 1) .. delivered
      /\ UNCHANGED <<loopback, queue, left, done, failed, moved, wakes, turn>>
      /\ UNCHANGED <<delivered, closeOnEmpty, refuses, blocked, blocks, closed, calls>>
  BY DEF Ack, Idle, opVars, flowVars
<1>3. /\ loop' \in [side : Sides, left : Nat, closing : BOOLEAN, again : BOOLEAN]
      /\ loop'.side = "send" /\ loop'.left = Len(queue["send"]) /\ ~loop'.again
      /\ Len(queue["send"]) \in Nat
  BY <1>1, <1>2, LoopStarts DEF Sides
<1>4. acked \in Nat /\ delivered \in Nat /\ Len(moved["send"]) \in Nat
  <2>1. Len(moved["send"]) \in Nat
    BY <1>1, LenMoved DEF Sides
  <2> QED
    BY <1>1, <2>1 DEF TypeOK
<1>5. acked' \in 0 .. delivered' /\ acked' \in Nat /\ acked < acked' /\ delivered > 0
  BY <1>2, <1>4
<1>6. TypeOK'
  BY <1>1, <1>2, <1>3, <1>5 DEF TypeOK
<1>7. RoomInv'
  <2>1. ~loopback
    BY <1>1, <1>5 DEF RoomInv
  <2>2. Len(moved["send"]) <= BufferSize + acked /\ Len(moved["receive"]) <= delivered
    BY <1>1, <2>1 DEF RoomInv
  <2>3. Len(moved["send"]) <= BufferSize + acked'
    BY <1>4, <1>5, <2>2, BufferAssumption
  <2> QED
    BY <1>2, <2>1, <2>2, <2>3 DEF RoomInv
<1>8. LoopInv'
  BY <1>1, <1>2, <1>3 DEF LoopInv
<1>9. Waits("receive") <=> Waits("receive")'
  BY <1>2 DEF Waits, Room
<1> QED
  BY <1>2, <1>3, <1>6, <1>7, <1>8, <1>9, QuietIInv DEF Sides

LEMMA DeliverIInv ==
  ASSUME IInv, Deliver
  PROVE  IInv'
<1>1. TypeOK /\ RoomInv /\ LoopInv
  BY DEF IInv
<1>2. /\ turn = None /\ loop.left = 0 /\ ~loop.again /\ loop' = Loop("receive") /\ ~loopback
      /\ delivered' \in (delivered + 1) .. Len(moved["send"])
      /\ UNCHANGED <<loopback, queue, left, done, failed, moved, wakes, turn>>
      /\ UNCHANGED <<acked, closeOnEmpty, refuses, blocked, blocks, closed, calls>>
  BY DEF Deliver, Idle, opVars, flowVars
<1>3. /\ loop' \in [side : Sides, left : Nat, closing : BOOLEAN, again : BOOLEAN]
      /\ loop'.side = "receive" /\ loop'.left = Len(queue["receive"]) /\ ~loop'.again
      /\ Len(queue["receive"]) \in Nat
  BY <1>1, <1>2, LoopStarts DEF Sides
<1>4. acked \in Nat /\ delivered \in Nat /\ Len(moved["send"]) \in Nat /\ acked <= delivered
  <2>1. Len(moved["send"]) \in Nat
    BY <1>1, LenMoved DEF Sides
  <2> QED
    BY <1>1, <2>1 DEF TypeOK
<1>5. delivered' \in 0 .. Len(moved["send"]) /\ delivered < delivered' /\ acked \in 0 .. delivered'
  BY <1>2, <1>4
<1>6. TypeOK'
  BY <1>1, <1>2, <1>3, <1>5 DEF TypeOK
<1>7. RoomInv'
  <2>1. Len(moved["send"]) <= BufferSize + acked /\ Len(moved["receive"]) <= delivered
    BY <1>1, <1>2 DEF RoomInv
  <2>2. Len(moved["receive"]) \in Nat /\ delivered' \in Nat
    BY <1>1, <1>5, LenMoved DEF Sides
  <2>3. Len(moved["receive"]) <= delivered'
    BY <1>4, <1>5, <2>1, <2>2
  <2> QED
    BY <1>2, <2>1, <2>3 DEF RoomInv
<1>8. LoopInv'
  BY <1>1, <1>2, <1>3 DEF LoopInv
<1>9. Waits("send") <=> Waits("send")'
  BY <1>2 DEF Waits, Room
<1> QED
  BY <1>2, <1>3, <1>6, <1>7, <1>8, <1>9, QuietIInv DEF Sides

LEMMA WakeIInv ==
  ASSUME IInv, NEW s \in Sides, Wake(s)
  PROVE  IInv'
<1>1. TypeOK /\ RoomInv /\ LoopInv
  BY DEF IInv
<1>2. /\ turn = None /\ loop.left = 0 /\ ~loop.again /\ loop' = Loop(s)
      /\ wakes[s] > 0 /\ wakes' = [wakes EXCEPT ![s] = wakes[s] - 1]
      /\ UNCHANGED <<loopback, queue, left, done, failed, moved, turn>>
      /\ UNCHANGED <<delivered, acked, closeOnEmpty, refuses, blocked, blocks, closed, calls>>
  BY DEF Wake, Idle, netVars, flowVars
<1>3. /\ loop' \in [side : Sides, left : Nat, closing : BOOLEAN, again : BOOLEAN]
      /\ loop'.side = s /\ loop'.left = Len(queue[s]) /\ ~loop'.again
      /\ Len(queue[s]) \in Nat
  BY <1>1, <1>2, LoopStarts
<1>4. wakes \in [Sides -> Nat] /\ wakes[s] - 1 \in Nat
  <2>1. wakes \in [Sides -> Nat]
    BY <1>1 DEF TypeOK
  <2>2. wakes[s] \in Nat /\ wakes[s] > 0
    BY <1>2, <2>1
  <2> QED
    BY <2>1, <2>2
<1>5. wakes' \in [Sides -> Nat] /\ \A x \in Sides : x # s => wakes'[x] = wakes[x]
  BY <1>2, <1>4
<1>6. TypeOK'
  BY <1>1, <1>2, <1>3, <1>5 DEF TypeOK
<1>7. RoomInv'
  BY <1>1, <1>2 DEF RoomInv
<1>8. loopback
  BY <1>1, <1>2 DEF LoopInv
<1>9. LoopInv'
  BY <1>2, <1>3, <1>8 DEF LoopInv
<1>10. \A x \in Sides : Waits(x) <=> Waits(x)'
  BY <1>2 DEF Waits, Room
<1> QED
  BY <1>2, <1>3, <1>5, <1>6, <1>7, <1>9, <1>10, QuietIInv

LEMMA BlockIInv ==
  ASSUME IInv, NEW s \in Sides, Block(s)
  PROVE  IInv'
<1>1. TypeOK /\ RoomInv /\ LoopInv
  BY DEF IInv
<1>2. /\ turn = None /\ loop.left = 0 /\ ~loop.again /\ loop' = loop
      /\ blocks < MaxBlocks /\ blocks' = blocks + 1
      /\ blocked' = [x \in Sides |-> x \in SocketOf(s) \/ blocked[x]]
      /\ UNCHANGED <<loopback, queue, left, done, failed, moved, wakes, turn>>
      /\ UNCHANGED <<delivered, acked, closeOnEmpty, refuses, closed, calls>>
  BY DEF Block, Idle, opVars, netVars
<1>3. blocks' \in 0 .. MaxBlocks
  BY <1>1, <1>2, BlocksAssumption DEF TypeOK
<1>4. blocked' \in [Sides -> BOOLEAN] /\ \A x \in Sides : blocked[x] => blocked'[x]
  BY <1>2
<1>5. TypeOK'
  BY <1>1, <1>2, <1>3, <1>4 DEF TypeOK
<1>6. RoomInv'
  BY <1>1, <1>2 DEF RoomInv
<1>7. LoopInv'
  BY <1>1, <1>2 DEF LoopInv
<1>8. \A x \in Sides : Waits(x) => Waits(x)'
  BY <1>2, <1>4 DEF Waits, Room
<1> QED
  BY <1>2, <1>5, <1>6, <1>7, <1>8, QuietIInv

LEMMA UnblockIInv ==
  ASSUME IInv, NEW s \in Sides, Unblock(s)
  PROVE  IInv'
<1>1. TypeOK /\ RoomInv /\ LoopInv
  BY DEF IInv
<1>2. /\ turn = None /\ loop.left = 0 /\ ~loop.again /\ loop' = UnblockLoop(s)
      /\ blocked' = [x \in Sides |-> x \notin SocketOf(s) /\ blocked[x]]
      /\ UNCHANGED <<loopback, queue, left, done, failed, moved, wakes, turn>>
      /\ UNCHANGED <<delivered, acked, closeOnEmpty, refuses, blocks, closed, calls>>
  BY DEF Unblock, Idle, opVars, netVars
<1>3. blocked' \in [Sides -> BOOLEAN]
  BY <1>2
<1>4. RoomInv'
  BY <1>1, <1>2 DEF RoomInv
<1>5. CASE ~loopback
  <2>1. loop' = Loop(s)
    BY <1>2, <1>5 DEF UnblockLoop
  <2>2. /\ loop' \in [side : Sides, left : Nat, closing : BOOLEAN, again : BOOLEAN]
        /\ loop'.side = s /\ loop'.left = Len(queue[s]) /\ ~loop'.again
        /\ Len(queue[s]) \in Nat
    BY <1>1, <2>1, LoopStarts
  <2>3. \A x \in Sides : x # s => blocked'[x] = blocked[x]
    BY <1>1, <1>2, <1>5 DEF SocketOf, TypeOK
  <2>4. \A x \in Sides : x # s => (Waits(x) <=> Waits(x)')
    BY <1>2, <2>3 DEF Waits, Room
  <2>5. TypeOK'
    BY <1>1, <1>2, <1>3, <2>2 DEF TypeOK
  <2>6. LoopInv'
    BY <1>1, <1>2, <2>2 DEF LoopInv
  <2> QED
    BY <1>2, <1>4, <2>2, <2>4, <2>5, <2>6, QuietIInv
<1>6. CASE loopback
  <2>1. loop' = [Loop("send") EXCEPT !.again = TRUE]
    BY <1>2, <1>6 DEF UnblockLoop
  <2>2. /\ Loop("send") \in [side : Sides, left : Nat, closing : BOOLEAN, again : BOOLEAN]
        /\ Loop("send").side = "send" /\ Loop("send").left = Len(queue["send"])
        /\ Len(queue["send"]) \in Nat
    BY <1>1, LoopStarts DEF Sides
  <2>3. /\ loop' \in [side : Sides, left : Nat, closing : BOOLEAN, again : BOOLEAN]
        /\ loop'.side = "send" /\ loop'.left = Len(queue["send"]) /\ loop'.again
    BY <2>1, <2>2
  <2>4. TypeOK'
    BY <1>1, <1>2, <1>3, <2>3 DEF TypeOK
  <2>5. LoopInv'
    BY <1>2, <1>6, <2>2, <2>3 DEF LoopInv
  <2> QED
    BY <1>2, <1>4, <2>3, <2>4, <2>5, QuietIInv DEF Sides
<1> QED
  BY <1>5, <1>6

\* A call of close() (coroutine-socket.cpp 283-291), and the FIN it leads to
\* (tcp-socket-base.cc 3202-3215).
LEMMA CloseIInv ==
  ASSUME IInv, Close \/ Fin
  PROVE  IInv'
<1>1. TypeOK /\ RoomInv /\ LoopInv
  BY DEF IInv
<1>2. /\ turn = None /\ loop.left = 0 /\ ~loop.again /\ loop' = loop
      /\ closeOnEmpty' \in BOOLEAN /\ refuses' \in BOOLEAN /\ (refuses => refuses')
      /\ UNCHANGED <<loopback, queue, left, done, failed, moved, wakes, turn>>
      /\ UNCHANGED <<delivered, acked, blocked, blocks, closed, calls>>
  <2>1. CASE Fin
    BY <1>1, <2>1 DEF Fin, Idle, opVars, flowVars, TypeOK
  <2>2. CASE Close
    <3>1. closeOnEmpty' = TRUE /\ (refuses' = TRUE \/ refuses' = refuses) /\ refuses \in BOOLEAN
      BY <1>1, <2>2, Zenon DEF Close, TypeOK
    <3>2. closeOnEmpty' \in BOOLEAN /\ refuses' \in BOOLEAN /\ (refuses => refuses')
      <4>1. CASE refuses' = TRUE
        BY <3>1, <4>1, Zenon
      <4>2. CASE refuses' = refuses
        BY <3>1, <4>2, Zenon
      <4> QED
        BY <3>1, <4>1, <4>2
    <3>3. /\ turn = None /\ loop.left = 0 /\ ~loop.again /\ loop' = loop
          /\ UNCHANGED <<loopback, queue, left, done, failed, moved, wakes, turn>>
          /\ UNCHANGED <<delivered, acked, blocked, blocks, closed, calls>>
      BY <2>2 DEF Close, Idle, opVars, flowVars
    <3> QED
      BY <3>2, <3>3
  <2> QED
    BY <2>1, <2>2
<1>3. TypeOK'
  BY <1>1, <1>2 DEF TypeOK
<1>4. RoomInv' /\ LoopInv'
  BY <1>1, <1>2 DEF RoomInv, LoopInv
<1>5. \A x \in Sides : Waits(x) <=> Waits(x)'
  BY <1>2 DEF Waits, Room
<1> QED
  BY <1>2, <1>3, <1>4, <1>5, QuietIInv

LEMMA OnCloseIInv ==
  ASSUME IInv, NEW s \in Sides, OnClose(s)
  PROVE  IInv'
<1>1. TypeOK /\ RoomInv /\ LoopInv
  BY DEF IInv
<1>2. /\ turn = None /\ loop.left = 0 /\ ~loop.again /\ loop' = [Loop(s) EXCEPT !.closing = TRUE]
      /\ closed' = [closed EXCEPT ![s] = TRUE]
      /\ UNCHANGED <<loopback, queue, left, done, failed, moved, wakes, turn>>
      /\ UNCHANGED <<delivered, acked, closeOnEmpty, refuses, blocked, blocks, calls>>
  BY DEF OnClose, Idle, opVars, netVars
<1>3. /\ Loop(s) \in [side : Sides, left : Nat, closing : BOOLEAN, again : BOOLEAN]
      /\ Loop(s).side = s /\ Loop(s).left = Len(queue[s]) /\ ~Loop(s).again
      /\ Len(queue[s]) \in Nat
  BY <1>1, LoopStarts
<1>4. /\ loop' \in [side : Sides, left : Nat, closing : BOOLEAN, again : BOOLEAN]
      /\ loop'.side = s /\ loop'.left = Len(queue[s]) /\ ~loop'.again
  BY <1>2, <1>3
<1>5. /\ closed' \in [Sides -> BOOLEAN]
      /\ \A x \in Sides : closed[x] => closed'[x]
      /\ \A x \in Sides : x # s => closed'[x] = closed[x]
  BY <1>1, <1>2 DEF TypeOK
<1>6. TypeOK'
  BY <1>1, <1>2, <1>4, <1>5 DEF TypeOK
<1>7. RoomInv'
  BY <1>1, <1>2 DEF RoomInv
<1>8. LoopInv'
  BY <1>1, <1>2, <1>3, <1>4 DEF LoopInv
<1>9. \A x \in Sides : x # s => (Waits(x) <=> Waits(x)')
  BY <1>2, <1>5 DEF Waits, Room
<1> QED
  BY <1>2, <1>4, <1>5, <1>6, <1>7, <1>8, <1>9, QuietIInv

LEMMA InitIInv == Init => IInv
<1> SUFFICES ASSUME Init PROVE IInv
  OBVIOUS
<1>1. <<>> \in Seq(Callers) /\ <<>> \in Seq(Callers \X Nat) /\ Len(<<>>) = 0
  BY EmptySeq
<1>2. /\ queue \in [Sides -> Seq(Callers)] /\ calls \in [Sides -> Seq(Callers)]
      /\ moved \in [Sides -> Seq(Callers \X Nat)]
      /\ \A s \in Sides : queue[s] = <<>> /\ calls[s] = <<>> /\ moved[s] = <<>>
  BY <1>1 DEF Init
<1>3. Len(moved["send"]) = 0 /\ Len(moved["receive"]) = 0
  BY <1>1, <1>2 DEF Sides
<1>4. TypeOK
  <2>1. /\ left \in [Callers -> Nat] /\ done \in [Callers -> Nat]
        /\ blocked \in [Sides -> BOOLEAN] /\ closed \in [Sides -> BOOLEAN] /\ wakes \in [Sides -> Nat]
    BY DEF Init
  <2>2. /\ acked \in 0 .. delivered /\ delivered \in 0 .. Len(moved["send"])
        /\ Len(moved["receive"]) <= Len(moved["send"]) /\ blocks \in 0 .. MaxBlocks
    BY <1>3, BlocksAssumption DEF Init
  <2>3. loop \in [side : Sides, left : Nat, closing : BOOLEAN, again : BOOLEAN]
    BY DEF Init, Sides
  <2>4. loopback \in BOOLEAN /\ failed \subseteq Callers /\ closeOnEmpty \in BOOLEAN /\ refuses \in BOOLEAN /\ turn \in Callers \cup {None}
    BY DEF Init
  <2> QED
    BY <1>2, <2>1, <2>2, <2>3, <2>4 DEF TypeOK
<1>5. RoomInv
  BY <1>3, BufferAssumption DEF Init, RoomInv
<1>6. \A c \in Callers : ~Begun(c)
  <2> TAKE c \in Callers
  <2>1. Len(calls[Side[c]]) = 0
    BY <1>1, <1>2, SideAssumption
  <2> QED
    BY <2>1 DEF Begun, Contains
<1>7. DoneInv
  <2>1. \A c \in Callers : done[c] = 0 /\ c \notin failed /\ turn # c /\ done[c] <= Len(Program[c])
    BY ProgramAssumption, CallersAssumption, LenProperties DEF Init
  <2> QED
    BY <1>6, <2>1 DEF DoneInv, Active
<1>8. \A s \in Sides : Len(queue[s]) = 0 /\ Len(calls[s]) = 0
  BY <1>1, <1>2
<1>9. QueueInv
  BY <1>6, <1>8 DEF QueueInv, Distinct, Contains, Active
<1>10. LoopInv
  BY <1>8 DEF Init, LoopInv, Sides
<1>11. WakeInv
  BY <1>2 DEF WakeInv
<1>12. OrderInv
  BY <1>8 DEF OrderInv, Distinct
<1>13. CountInv
  <2> SUFFICES ASSUME NEW c \in Callers PROVE FirstMoved(c) = 0 /\ done[c] = 0 /\ ~Active(c)
    BY DEF CountInv
  <2>1. Len(moved[Side[c]]) = 0
    BY <1>1, <1>2, SideAssumption
  <2>2. {i \in 1 .. 0 : moved[Side[c]][i] = <<c, 1>>} = {}
    OBVIOUS
  <2>3. FirstMoved(c) = 0
    BY <2>1, <2>2, FS_EmptySet DEF FirstMoved, Occurs
  <2> QED
    BY <1>6, <2>3 DEF Init, Active
<1> QED
  BY <1>4, <1>5, <1>7, <1>9, <1>10, <1>11, <1>12, <1>13 DEF IInv

LEMMA StutterIInv ==
  ASSUME IInv, UNCHANGED vars
  PROVE  IInv'
<1>1. /\ UNCHANGED <<loopback, queue, left, done, failed, moved, wakes, turn>>
      /\ UNCHANGED <<delivered, acked, closeOnEmpty, refuses, blocked, blocks, closed, loop, calls>>
  BY DEF vars, opVars, netVars, flowVars
<1>2. /\ TypeOK' /\ RoomInv'
  BY <1>1 DEF IInv, TypeOK, RoomInv
<1>3. LoopInv' /\ OrderInv'
  BY <1>1 DEF IInv, LoopInv, OrderInv
<1>4. \A x \in Callers : (Begun(x)' <=> Begun(x)) /\ (Ended(x)' <=> Ended(x))
  BY <1>1 DEF Begun, Ended
<1>5. \A x \in Callers : (Active(x)' <=> Active(x)) /\ OpSize(x)' = OpSize(x) /\ FirstMoved(x)' = FirstMoved(x)
  BY <1>1, <1>4 DEF Active, OpSize, FirstMoved
<1>6. DoneInv'
  BY <1>1, <1>4, <1>5 DEF IInv, DoneInv
<1>7. QueueInv'
  BY <1>1, <1>5 DEF IInv, QueueInv
<1>8. CountInv'
  BY <1>1, <1>4, <1>5 DEF IInv, CountInv
<1>9. WakeInv'
  <2>1. \A x \in Sides : Waits(x)' <=> Waits(x)
    BY <1>1 DEF Waits, Room
  <2> QED
    BY <1>1, <2>1 DEF IInv, WakeInv
<1> QED
  BY <1>2, <1>3, <1>6, <1>7, <1>8, <1>9 DEF IInv

LEMMA NextIInv == IInv /\ [Next]_vars => IInv'
<1> SUFFICES ASSUME IInv, [Next]_vars PROVE IInv'
  OBVIOUS
<1>1. ASSUME NEW c \in Callers, Call(c) PROVE IInv'
  BY <1>1, CallIInv
<1>2. CASE Visit
  BY <1>2, VisitIInv
<1>3. CASE VisitAgain
  BY <1>3, VisitAgainIInv
<1>4. CASE Ack
  BY <1>4, AckIInv
<1>5. CASE Deliver
  BY <1>5, DeliverIInv
<1>6. ASSUME NEW s \in Sides, Wake(s) \/ Unblock(s) \/ Block(s) \/ OnClose(s) PROVE IInv'
  BY <1>6, WakeIInv, UnblockIInv, BlockIInv, OnCloseIInv
<1>7. CASE Close \/ Fin
  BY <1>7, CloseIInv
<1>8. CASE FinArrives \/ Reset
  BY <1>8, OnCloseIInv DEF FinArrives, Reset, Sides
<1>9. CASE UNCHANGED vars
  BY <1>9, StutterIInv
<1> QED
  BY <1>1, <1>2, <1>3, <1>4, <1>5, <1>6, <1>7, <1>8, <1>9 DEF Next, Progress

\* The strengthened invariant holds in every reachable state.
LEMMA Invariance == Spec => []IInv
  BY InitIInv, NextIInv, PTL DEF Spec
-----------------------------------------------------------------------------
(* Theorems.                                                               *)

\* Whatever operations are called on the socket and in which order, its state stays
\* well formed; in particular no more is read than was sent.
THEOREM TypeCorrect == Spec => []TypeOK
<1>1. IInv => TypeOK
  BY DEF IInv
<1> QED
  BY <1>1, Invariance, PTL

\* Between events pendingSend and pendingReceive hold exactly the operations that have
\* begun and are not over (every pop_front removes the one that has completed).
THEOREM OperationsKept == Spec => []NoOperationLost
<1>1. IInv => NoOperationLost
  <2> SUFFICES ASSUME IInv, Idle, NEW s \in Sides
               PROVE  /\ IsInjective(queue[s])
                      /\ ToSet(queue[s]) = {c \in Callers : Side[c] = s /\ Contains(calls[s], c) /\ ~Ended(c)}
    BY DEF NoOperationLost
  <2>1. queue[s] \in Seq(Callers)
    BY DEF IInv, TypeOK
  <2>2. DOMAIN queue[s] = 1 .. Len(queue[s]) /\ \A i \in 1 .. Len(queue[s]) : queue[s][i] \in Callers
    BY <2>1, LenProperties, ElementOfSeq
  <2>3. Distinct(queue[s]) /\ \A c \in Callers : Contains(queue[s], c) <=> Side[c] = s /\ Active(c) /\ turn # c
    BY DEF IInv, QueueInv
  <2>4. \A c \in Callers : Side[c] = s => (Active(c) <=> Contains(calls[s], c) /\ ~Ended(c))
    BY DEF Active, Begun
  <2>5. \A c \in Callers : turn # c
    BY CallersAssumption DEF Idle
  <2>6. IsInjective(queue[s])
    BY <2>2, <2>3 DEF IsInjective, Distinct
  <2>7. \A c \in Callers : c \in ToSet(queue[s]) <=> Contains(queue[s], c)
    BY <2>2 DEF ToSet, Contains
  <2>8. ToSet(queue[s]) \subseteq Callers
    BY <2>2 DEF ToSet
  <2> QED
    BY <2>3, <2>4, <2>5, <2>6, <2>7, <2>8
<1> QED
  BY <1>1, Invariance, PTL

\* No pending operation waits although it could go on: onSend and onReceive stop only
\* at an operation for which there is nothing left, or another call is scheduled.
THEOREM WakeupsKept == Spec => []NoLostWakeup
<1>1. IInv => NoLostWakeup
  BY DEF IInv, WakeInv, NoLostWakeup, Idle, TypeOK
<1> QED
  BY <1>1, Invariance, PTL
-----------------------------------------------------------------------------
(* The order of the bytes: every step on side s is a step of OrderedStream. *)

OrderedMove(s, op, n) ==
  /\ Occurs(TcpBytes(s), Len(TcpBytes(s)), op) + n <= Program[op[1]][1]
  /\ n > 0 =>
       \A p \in Firsts(s) : \A i \in 1 .. Len(FirstCalls(s)) :
         FirstCalls(s)[i] = p /\ (\A k \in 1 .. i : FirstCalls(s)[k] # op) =>
           Occurs(TcpBytes(s), Len(TcpBytes(s)), p) = Program[p[1]][1]
  /\ FirstCalls(s)' = IF Contains(FirstCalls(s), op) THEN FirstCalls(s) ELSE Append(FirstCalls(s), op)
  /\ TcpBytes(s)' = TcpBytes(s) \o [i \in 1 .. n |-> op]

OrderedSlip(s, op) ==
  /\ FirstCalls(s)' \in {FirstCalls(s), Append(FirstCalls(s), op)}
  /\ Len(TcpBytes(s)') >= Len(TcpBytes(s))
  /\ TcpBytes(s)' = TcpBytes(s) \o [i \in 1 .. (Len(TcpBytes(s)') - Len(TcpBytes(s))) |-> op]

OrderedStep(s) ==
  \/ \E op \in Firsts(s) : \E n \in 0 .. Program[op[1]][1] : OrderedMove(s, op, n)
  \/ \E op \in OtherOps(s) : OrderedSlip(s, op)
  \/ FirstCalls(s)' = FirstCalls(s) /\ TcpBytes(s)' = TcpBytes(s)

\* The first operations of the callers in cs.
FirstOps(cs) == [i \in DOMAIN cs |-> <<cs[i], 1>>]

LEMMA FirstCallsValue ==
  ASSUME NEW cs \in Seq(Callers)
  PROVE  LET f == FirstOps(cs)
         IN /\ f \in Seq(Callers \X Nat) /\ Len(f) = Len(cs) /\ Len(cs) \in Nat
            /\ DOMAIN f = 1 .. Len(cs)
            /\ \A i \in 1 .. Len(cs) : f[i] = <<cs[i], 1>>
            /\ \A c \in Callers : Contains(f, <<c, 1>>) <=> Contains(cs, c)
<1> DEFINE f == [i \in DOMAIN cs |-> <<cs[i], 1>>]
<1>1. Len(cs) \in Nat /\ DOMAIN cs = 1 .. Len(cs) /\ \A i \in 1 .. Len(cs) : cs[i] \in Callers
  BY LenProperties, ElementOfSeq
<1>2. f = [i \in 1 .. Len(cs) |-> <<cs[i], 1>>]
  BY <1>1
<1>3. \A i \in 1 .. Len(cs) : f[i] = <<cs[i], 1>>
  BY <1>1
<1>4. \A i \in 1 .. Len(cs) : <<cs[i], 1>> \in Callers \X Nat
  BY <1>1
<1>5. f \in Seq(Callers \X Nat) /\ Len(f) = Len(cs) /\ DOMAIN f = 1 .. Len(cs)
  BY <1>1, <1>2, <1>4
<1>6. \A c \in Callers : Contains(f, <<c, 1>>) <=> Contains(cs, c)
  <2> TAKE c \in Callers
  <2>1. \A i \in 1 .. Len(cs) : f[i] = <<c, 1>> <=> cs[i] = c
    BY <1>3
  <2> HIDE DEF f
  <2> QED
    BY <1>5, <2>1 DEF Contains
<1> HIDE DEF f
<1> QED
  BY <1>1, <1>3, <1>5, <1>6 DEF f, FirstOps

LEMMA FirstCallsAppended ==
  ASSUME NEW cs \in Seq(Callers), NEW ds \in Seq(Callers), NEW c \in Callers, ds = Append(cs, c)
  PROVE  FirstOps(ds) = Append(FirstOps(cs), <<c, 1>>)
<1> DEFINE f == FirstOps(cs)
           g == FirstOps(ds)
           e == <<c, 1>>
           T == Callers \X Nat
<1>1. /\ f \in Seq(T) /\ Len(f) = Len(cs) /\ Len(cs) \in Nat
      /\ \A i \in 1 .. Len(cs) : f[i] = <<cs[i], 1>>
  BY FirstCallsValue
<1>2. /\ g \in Seq(T) /\ Len(g) = Len(ds)
      /\ \A i \in 1 .. Len(ds) : g[i] = <<ds[i], 1>>
  BY FirstCallsValue
<1>3. /\ Len(ds) = Len(cs) + 1 /\ ds[Len(cs) + 1] = c
      /\ \A i \in 1 .. Len(cs) : ds[i] = cs[i]
  BY Appended
<1>4. e \in T
  OBVIOUS
<1> HIDE DEF f, g, T
<1>5. /\ Append(f, e) \in Seq(T) /\ Len(Append(f, e)) = Len(f) + 1
      /\ \A i \in 1 .. Len(f) : Append(f, e)[i] = f[i]
      /\ Append(f, e)[Len(f) + 1] = e
  BY <1>1, <1>4, Appended
<1>6. \A i \in 1 .. Len(g) : g[i] = Append(f, e)[i]
  <2> TAKE i \in 1 .. Len(g)
  <2>1. CASE i \in 1 .. Len(cs)
    BY <1>1, <1>2, <1>3, <1>5, <2>1
  <2>2. CASE i = Len(cs) + 1
    BY <1>1, <1>2, <1>3, <1>5, <2>2
  <2> QED
    BY <1>1, <1>2, <1>3, <2>1, <2>2
<1>7. g = Append(f, e)
  BY <1>1, <1>2, <1>3, <1>5, <1>6, SeqEqual
<1> QED
  BY <1>7 DEF f, g

\* Where the first operation of c moves bytes on a TCP socket, the first operations
\* that were called before have moved all theirs.
LEMMA EarlierMoved ==
  ASSUME IInv, ~loopback, NEW c \in Callers, done[c] = 0, turn = None,
         ~Waits(Side[c]), ~Errs(Side[c]),
         \/ Idle
         \/ Len(queue[Side[c]]) > 0 /\ c = Head(queue[Side[c]]),
         NEW d \in Callers, Program[d][1] > 0,
         NEW i \in 1 .. Len(calls[Side[c]]), calls[Side[c]][i] = d, Side[d] = Side[c],
         \A k \in 1 .. i : calls[Side[c]][k] # c
  PROVE  FirstMoved(d) = Program[d][1]
<1> DEFINE s == Side[c]
           q == queue[s]
<1>1. s \in Sides
  BY SideAssumption
<1>2. TypeOK /\ DoneInv /\ QueueInv /\ LoopInv /\ WakeInv /\ OrderInv /\ CountInv
  BY DEF IInv
<1> SUFFICES ASSUME ~(done[d] > 0) PROVE FALSE
  BY <1>2 DEF CountInv
<1>3. done[d] = 0
  BY <1>2 DEF TypeOK
<1>4. Begun(d)
  BY DEF Begun, Contains
<1>5. d \notin failed
  BY <1>2 DEF DoneInv, Errs
<1>6. Len(Program[d]) # 0
  BY ProgramAssumption, EmptySeq
<1>7. Active(d)
  BY <1>3, <1>4, <1>5, <1>6 DEF Active, Ended
<1>8. Contains(q, d)
  BY <1>1, <1>2, <1>7, CallersAssumption DEF QueueInv
<1>9. q \in Seq(Callers) /\ calls[s] \in Seq(Callers)
  BY <1>1, <1>2 DEF TypeOK
<1>10. Len(q) \in Nat /\ Len(calls[s]) \in Nat
  BY <1>9, LenProperties
<1>11. PICK j \in 1 .. Len(q) : q[j] = d
  BY <1>8 DEF Contains
<1>12. q # <<>>
  BY <1>9, <1>10, <1>11, Headed
<1>13. ~Idle
  <2>1. wakes[s] = 0
    BY <1>1, <1>2 DEF LoopInv
  <2> QED
    BY <1>1, <1>2, <1>12, <2>1 DEF WakeInv, Idle
<1>14. c = q[1] /\ 1 \in 1 .. Len(q)
  BY <1>9, <1>10, <1>11, <1>13, Headed
<1>15. d # c
  OBVIOUS
<1>16. 1 < j
  BY <1>10, <1>11, <1>14, <1>15
<1>17. Before(calls[s], c, d)
  BY <1>1, <1>2, <1>3, <1>11, <1>14, <1>16 DEF OrderInv
<1>18. PICK k, l \in 1 .. Len(calls[s]) : k < l /\ calls[s][k] = c /\ calls[s][l] = d
  BY <1>17 DEF Before
<1>19. l = i
  BY <1>1, <1>2, <1>18 DEF OrderInv, Distinct
<1>20. k \in 1 .. i
  BY <1>10, <1>18, <1>19
<1> QED
  BY <1>18, <1>20

LEMMA OrderedRun ==
  ASSUME IInv, ~loopback, NEW c \in Callers, NEW l, Runs(c, l),
         Program[c][1] > 0 /\ done[c] = 0 => FirstMoved(c) + l = Program[c][1],
         \/ calls' = calls /\ Active(c) /\ turn = c
         \/ /\ ~Begun(c) /\ Idle
            /\ calls' = [calls EXCEPT ![Side[c]] = Append(calls[Side[c]], c)]
         \/ /\ calls' = calls /\ Active(c) /\ turn = None
            /\ Len(queue[Side[c]]) > 0 /\ c = Head(queue[Side[c]])
  PROVE  OrderedStep(Side[c])
<1> DEFINE s == Side[c]
           n == Amount(c, l)
           op == <<c, done[c] + 1>>
           m == moved[s]
           F == FirstCalls(s)
<1>1. s \in Sides
  BY SideAssumption
<1>2. TypeOK /\ RoomInv /\ DoneInv
  BY DEF IInv
<1>3. /\ l \in Nat /\ l <= OpSize(c) /\ done[c] < Len(Program[c])
      /\ RunOperation(c, l) /\ loopback' = loopback
  BY DEF Runs
<1>4. OpSize(c) \in Nat /\ Len(Program[c]) \in Nat /\ done[c] \in Nat
  BY <1>2, <1>3, OpSizeNat
<1>5. /\ n \in Nat
      /\ Waits(s) \/ Errs(s) => n = 0
      /\ OpSize(c) > 0 => n <= l
  BY <1>2, <1>3, <1>4, AmountValue
<1>6. Len(moved'[s]) = Len(m) + n /\ moved'[s] = m \o [i \in 1 .. n |-> op]
  BY <1>2, <1>3, <1>4, RunMoved
<1>7. Len(m) \in Nat
  BY <1>1, <1>2, LenMoved
<1>8. TcpBytes(s) = m /\ TcpBytes(s)' = moved'[s]
  BY <1>3 DEF TcpBytes
<1>9. calls \in [Sides -> Seq(Callers)] /\ calls[s] \in Seq(Callers)
  BY <1>1, <1>2 DEF TypeOK
<1>10. F = FirstOps(calls[s]) /\ F' = FirstOps(calls'[s])
  BY <1>3 DEF FirstCalls, FirstOps
<1>11. /\ Len(F) = Len(calls[s]) /\ Len(calls[s]) \in Nat
       /\ \A i \in 1 .. Len(calls[s]) : F[i] = <<calls[s][i], 1>>
       /\ \A x \in Callers : Contains(F, <<x, 1>>) <=> Contains(calls[s], x)
  BY <1>9, <1>10, FirstCallsValue
<1>12. /\ F' = IF Contains(F, <<c, 1>>) THEN F ELSE Append(F, <<c, 1>>)
       /\ Contains(F, <<c, 1>>) \/ done[c] = 0
       /\ done[c] = 0 => turn = None /\ (Idle \/ (Len(queue[s]) > 0 /\ c = Head(queue[s])))
  <2>1. CASE ~Begun(c) /\ Idle /\ calls' = [calls EXCEPT ![s] = Append(calls[s], c)]
    <3>1. done[c] = 0 /\ turn = None
      BY <1>2, <2>1 DEF DoneInv, Idle
    <3>2. calls'[s] = Append(calls[s], c) /\ Append(calls[s], c) \in Seq(Callers)
      BY <1>1, <1>9, <2>1, Appended
    <3>3. F' = Append(F, <<c, 1>>)
      BY <1>9, <1>10, <3>2, FirstCallsAppended
    <3>4. ~Contains(F, <<c, 1>>)
      BY <1>11, <2>1 DEF Begun
    <3> HIDE DEF F
    <3> QED
      BY <2>1, <3>1, <3>3, <3>4
  <2>2. CASE /\ calls' = calls /\ Active(c)
             /\ turn = c \/ (turn = None /\ Len(queue[s]) > 0 /\ c = Head(queue[s]))
    <3>1. F' = F
      BY <1>10, <2>2
    <3>2. Contains(F, <<c, 1>>)
      BY <1>11, <2>2 DEF Active, Begun
    <3>3. turn = c => done[c] > 0
      BY <1>2 DEF DoneInv
    <3> HIDE DEF F
    <3> QED
      BY <2>2, <3>1, <3>2, <3>3
  <2> QED
    BY <2>1, <2>2
<1>13. CASE done[c] = 0 /\ Program[c][1] > 0
  <2>1. op = <<c, 1>> /\ OpSize(c) = Program[c][1]
    BY <1>4, <1>13 DEF OpSize
  <2>2. <<c, 1>> \in Firsts(s)
    BY <1>13 DEF Firsts
  <2>3. Occurs(m, Len(m), <<c, 1>>) + l = Program[c][1] /\ Occurs(m, Len(m), <<c, 1>>) \in Nat
    BY <1>7, <1>13, OccursNat DEF FirstMoved
  <2>4. n <= l /\ n \in 0 .. Program[c][1] /\ Occurs(m, Len(m), <<c, 1>>) + n <= Program[c][1]
    <3> HIDE DEF n
    <3> QED
      BY <1>3, <1>4, <1>5, <1>13, <2>1, <2>3
  <2>5. ASSUME n > 0, NEW p \in Firsts(s), NEW i \in 1 .. Len(F), F[i] = p, \A k \in 1 .. i : F[k] # <<c, 1>>
        PROVE  Occurs(m, Len(m), p) = Program[p[1]][1]
    <3>1. PICK d \in Callers : p = <<d, 1>> /\ Side[d] = s /\ Program[d][1] > 0
      BY DEF Firsts
    <3>2. i \in 1 .. Len(calls[s]) /\ <<calls[s][i], 1>> = <<d, 1>>
      BY <1>11, <2>5, <3>1
    <3>3. calls[s][i] = d
      BY <3>2
    <3>4. \A k \in 1 .. i : calls[s][k] # c
      <4> TAKE k \in 1 .. i
      <4>1. k \in 1 .. Len(calls[s])
        BY <1>11, <3>2
      <4>2. F[k] = <<calls[s][k], 1>> /\ F[k] # <<c, 1>>
        BY <1>11, <2>5, <4>1
      <4> QED
        BY <4>2
    <3>5. ~Waits(s) /\ ~Errs(s)
      BY <1>5, <2>5
    <3>6. FirstMoved(d) = Program[d][1]
      BY <1>12, <1>13, <3>1, <3>2, <3>3, <3>4, <3>5, EarlierMoved
    <3> QED
      BY <3>1, <3>6 DEF FirstMoved
  <2>6. OrderedMove(s, <<c, 1>>, n)
    <3>1. <<c, 1>>[1] = c
      OBVIOUS
    <3>2. n > 0 => \A p \in Firsts(s) : \A i \in 1 .. Len(F) :
                     F[i] = p /\ (\A k \in 1 .. i : F[k] # <<c, 1>>) => Occurs(m, Len(m), p) = Program[p[1]][1]
      BY <2>5
    <3>3. TcpBytes(s)' = m \o [i \in 1 .. n |-> <<c, 1>>]
      BY <1>6, <1>8, <2>1
    <3> HIDE DEF m, n
    <3> QED
      BY <1>8, <1>12, <2>4, <3>1, <3>2, <3>3 DEF OrderedMove
  <2> QED
    BY <2>2, <2>4, <2>6 DEF OrderedStep
<1>14. CASE ~(done[c] = 0 /\ Program[c][1] > 0)
  <2>1. op \in OtherOps(s)
    <3>1. done[c] + 1 \in DOMAIN Program[c]
      BY <1>3, <1>4, ProgramAssumption, LenProperties
    <3>2. op \notin Firsts(s)
      BY <1>4, <1>14 DEF Firsts
    <3> DEFINE A == {<<c, k>> : k \in DOMAIN Program[c]}
               B == {{<<x, k>> : k \in DOMAIN Program[x]} : x \in {y \in Callers : Side[y] = s}}
    <3>3. op \in A
      BY <3>1
    <3>4. A \in B
      OBVIOUS
    <3>5. OtherOps(s) = (UNION B) \ Firsts(s)
      BY DEF OtherOps
    <3> HIDE DEF A, B, op
    <3> QED
      BY <3>2, <3>3, <3>4, <3>5
  <2>2. F' \in {F, Append(F, op)}
    <3>1. CASE done[c] = 0
      <4>1. op = <<c, 1>>
        BY <3>1
      <4> HIDE DEF F
      <4> QED
        BY <1>12, <4>1
    <3>2. CASE done[c] # 0
      <4> HIDE DEF F
      <4> QED
        BY <1>12, <3>2
    <3> QED
      BY <3>1, <3>2
  <2>3. Len(TcpBytes(s)') >= Len(TcpBytes(s)) /\ Len(TcpBytes(s)') - Len(TcpBytes(s)) = n
    <3> HIDE DEF m, n
    <3> QED
      BY <1>5, <1>6, <1>7, <1>8
  <2>4. TcpBytes(s)' = TcpBytes(s) \o [i \in 1 .. n |-> op]
    BY <1>6, <1>8
  <2>5. OrderedSlip(s, op)
    <3> HIDE DEF m, n, op
    <3> QED
      BY <2>2, <2>3, <2>4 DEF OrderedSlip
  <2> QED
    BY <2>1, <2>5 DEF OrderedStep
<1> QED
  BY <1>13, <1>14

LEMMA OrderedNext ==
  ASSUME IInv, [Next]_vars, NEW s \in Sides
  PROVE  OrderedStep(s)
<1> DEFINE Same(x) == FirstCalls(x)' = FirstCalls(x) /\ TcpBytes(x)' = TcpBytes(x)
<1>1. ASSUME Same(s) PROVE OrderedStep(s)
  BY <1>1 DEF OrderedStep
<1>2. TypeOK /\ RoomInv
  BY DEF IInv
<1>3. ASSUME UNCHANGED <<loopback, moved, calls>> PROVE OrderedStep(s)
  BY <1>1, <1>3 DEF FirstCalls, TcpBytes
<1>4. ASSUME loopback, loopback' = loopback PROVE OrderedStep(s)
  BY <1>1, <1>4 DEF FirstCalls, TcpBytes
<1>5. ASSUME NEW c \in Callers, NEW l, Runs(c, l), s # Side[c], calls'[s] = calls[s]
      PROVE  OrderedStep(s)
  <2>1. /\ l \in Nat /\ l <= OpSize(c) /\ done[c] < Len(Program[c])
        /\ RunOperation(c, l) /\ loopback' = loopback
    BY <1>5 DEF Runs
  <2>2. OpSize(c) \in Nat
    BY <1>2, <2>1, OpSizeNat
  <2>3. moved'[s] = moved[s]
    BY <1>2, <1>5, <2>1, <2>2, RunMoved
  <2> QED
    BY <1>1, <1>5, <2>1, <2>3 DEF FirstCalls, TcpBytes
<1>6. ASSUME NEW c \in Callers, Call(c) PROVE OrderedStep(s)
  <2>1. /\ Runs(c, OpSize(c))
        /\ Program[c][1] > 0 /\ done[c] = 0 => FirstMoved(c) + OpSize(c) = Program[c][1]
        /\ \/ calls' = calls /\ Active(c) /\ turn = c
           \/ ~Begun(c) /\ turn = None /\ calls' = [calls EXCEPT ![Side[c]] = Append(calls[Side[c]], c)]
    BY <1>6, CallRuns
  <2>2. turn = None => Idle
    BY <1>6, CallersAssumption DEF Call
  <2>3. loopback' = loopback
    BY <2>1 DEF Runs
  <2>4. CASE s # Side[c]
    <3>1. calls'[s] = calls[s]
      BY <1>2, <2>1, <2>4 DEF TypeOK
    <3> QED
      BY <1>5, <2>1, <2>4, <3>1
  <2>5. CASE s = Side[c] /\ ~loopback
    <3>1. OrderedStep(Side[c])
      BY <2>1, <2>2, <2>5, OrderedRun
    <3> QED
      BY <2>5, <3>1
  <2> QED
    BY <1>4, <2>3, <2>4, <2>5
<1>7. CASE Visit
  <2>1. PICK c \in Callers :
          /\ c = Head(queue[Side[c]]) /\ Len(queue[Side[c]]) > 0
          /\ turn = None /\ Active(c)
          /\ Runs(c, left[c])
          /\ Program[c][1] > 0 /\ done[c] = 0 => FirstMoved(c) + left[c] = Program[c][1]
          /\ calls' = calls
    BY <1>7, VisitRuns
  <2>2. loopback' = loopback
    BY <2>1 DEF Runs
  <2>3. CASE s # Side[c]
    BY <1>5, <2>1, <2>3
  <2>4. CASE s = Side[c] /\ ~loopback
    <3>1. OrderedStep(Side[c])
      BY <2>1, <2>4, OrderedRun
    <3> QED
      BY <2>4, <3>1
  <2> QED
    BY <1>4, <2>2, <2>3, <2>4
<1>8. CASE VisitAgain \/ Ack \/ Deliver \/ Close \/ Fin
  BY <1>3, <1>8 DEF VisitAgain, Ack, Deliver, Close, Fin, opVars
<1>9. ASSUME NEW x \in Sides, Wake(x) \/ Unblock(x) \/ Block(x) \/ OnClose(x) PROVE OrderedStep(s)
  BY <1>3, <1>9 DEF Wake, Unblock, Block, OnClose, opVars
<1>10. CASE FinArrives \/ Reset
  BY <1>9, <1>10 DEF FinArrives, Reset, Sides
<1>11. CASE UNCHANGED vars
  BY <1>3, <1>11 DEF vars, opVars
<1> QED
  BY <1>6, <1>7, <1>8, <1>9, <1>10, <1>11 DEF Next, Progress

LEMMA OrderedInit ==
  ASSUME Init, NEW s \in Sides
  PROVE  FirstCalls(s) = <<>> /\ TcpBytes(s) = <<>>
<1>1. calls[s] = <<>> /\ moved[s] = <<>>
  BY DEF Init
<1>2. [i \in DOMAIN <<>> |-> <<calls[s][i], 1>>] = <<>>
  OBVIOUS
<1> QED
  BY <1>1, <1>2 DEF FirstCalls, TcpBytes

LEMMA TcpSequences ==
  ASSUME TypeOK, NEW s \in Sides
  PROVE  DOMAIN FirstCalls(s) = 1 .. Len(FirstCalls(s)) /\ DOMAIN TcpBytes(s) = 1 .. Len(TcpBytes(s))
<1>1. calls[s] \in Seq(Callers) /\ moved[s] \in Seq(Callers \X Nat)
  BY DEF TypeOK
<1>2. <<>> \in Seq(Callers \X Nat)
  BY EmptySeq
<1>3. FirstOps(calls[s]) \in Seq(Callers \X Nat)
  BY <1>1, FirstCallsValue
<1>4. FirstCalls(s) \in Seq(Callers \X Nat) /\ TcpBytes(s) \in Seq(Callers \X Nat)
  BY <1>1, <1>2, <1>3 DEF FirstCalls, FirstOps, TcpBytes
<1> QED
  BY <1>4, LenProperties

\* The bytes of operations that are not called inside a completion pass in the order
\* of their calls, on the sending and on the receiving TCP socket: each direction
\* implements OrderedStream.
THEOREM StreamOrdered == Spec => StreamOrder
<1>1. Init => Sends!Init /\ Receives!Init
  BY OrderedInit DEF Sends!Init, Receives!Init, Sides
<1>2. ASSUME IInv, [Next]_vars PROVE [Sends!Next]_<<FirstCalls("send"), TcpBytes("send")>>
  <2> DEFINE F == FirstCalls("send")
             T == TcpBytes("send")
             Q == Firsts("send")
             size == [op \in Q |-> Program[op[1]][1]]
  <2>1. OrderedStep("send") /\ TypeOK
    BY <1>2, OrderedNext DEF IInv, Sides
  <2>2. DOMAIN F = 1 .. Len(F) /\ DOMAIN T = 1 .. Len(T)
    BY <2>1, TcpSequences DEF Sides
  <2>3. ASSUME NEW op \in Q, NEW n \in 0 .. Program[op[1]][1], OrderedMove("send", op, n)
        PROVE  Sends!Next
    <3>1. \A p \in Q : size[p] = Program[p[1]][1]
      OBVIOUS
    <3>2. \A p : Sends!Moved(p) = Occurs(T, Len(T), p)
      <4> TAKE p
      <4>1. {i \in DOMAIN T : T[i] = p} = {i \in 1 .. Len(T) : T[i] = p}
        BY <2>2
      <4> QED
        BY <4>1, Zenon DEF Sends!Moved, Sends!Cardinality, Cardinality, Occurs
    <3>3. \A p : p \in Sends!Earlier(op) <=>
            p \in Q /\ \E i \in 1 .. Len(F) : F[i] = p /\ \A k \in 1 .. i : F[k] # op
      BY <2>2 DEF Sends!Earlier
    <3>4. Sends!Move(op, n)
      <4>1. Sends!Moved(op) + n <= size[op]
        BY <2>3, <3>1, <3>2 DEF OrderedMove
      <4>2. n > 0 => \A p \in Sends!Earlier(op) : Sends!Moved(p) = size[p]
        BY <2>3, <3>1, <3>2, <3>3 DEF OrderedMove
      <4>3. /\ F' = IF Contains(F, op) THEN F ELSE Append(F, op)
            /\ T' = T \o [i \in 1 .. n |-> op]
        BY <2>3 DEF OrderedMove
      <4> QED
        BY <4>1, <4>2, <4>3, Zenon DEF Sends!Move, Sends!Contains, Contains
    <3>5. n \in 0 .. size[op]
      BY <3>1
    <3> QED
      BY <3>4, <3>5 DEF Sends!Next
  <2>4. ASSUME NEW op \in OtherOps("send"), OrderedSlip("send", op)
        PROVE  Sends!Next
    <3>1. Sends!Slip(op)
      BY <2>4 DEF OrderedSlip, Sends!Slip
    <3> QED
      BY <3>1 DEF Sends!Next
  <2> QED
    BY <2>1, <2>3, <2>4 DEF OrderedStep
<1>3. ASSUME IInv, [Next]_vars PROVE [Receives!Next]_<<FirstCalls("receive"), TcpBytes("receive")>>
  <2> DEFINE F == FirstCalls("receive")
             T == TcpBytes("receive")
             Q == Firsts("receive")
             size == [op \in Q |-> Program[op[1]][1]]
  <2>1. OrderedStep("receive") /\ TypeOK
    BY <1>3, OrderedNext DEF IInv, Sides
  <2>2. DOMAIN F = 1 .. Len(F) /\ DOMAIN T = 1 .. Len(T)
    BY <2>1, TcpSequences DEF Sides
  <2>3. ASSUME NEW op \in Q, NEW n \in 0 .. Program[op[1]][1], OrderedMove("receive", op, n)
        PROVE  Receives!Next
    <3>1. \A p \in Q : size[p] = Program[p[1]][1]
      OBVIOUS
    <3>2. \A p : Receives!Moved(p) = Occurs(T, Len(T), p)
      <4> TAKE p
      <4>1. {i \in DOMAIN T : T[i] = p} = {i \in 1 .. Len(T) : T[i] = p}
        BY <2>2
      <4> QED
        BY <4>1, Zenon DEF Receives!Moved, Receives!Cardinality, Cardinality, Occurs
    <3>3. \A p : p \in Receives!Earlier(op) <=>
            p \in Q /\ \E i \in 1 .. Len(F) : F[i] = p /\ \A k \in 1 .. i : F[k] # op
      BY <2>2 DEF Receives!Earlier
    <3>4. Receives!Move(op, n)
      <4>1. Receives!Moved(op) + n <= size[op]
        BY <2>3, <3>1, <3>2 DEF OrderedMove
      <4>2. n > 0 => \A p \in Receives!Earlier(op) : Receives!Moved(p) = size[p]
        BY <2>3, <3>1, <3>2, <3>3 DEF OrderedMove
      <4>3. /\ F' = IF Contains(F, op) THEN F ELSE Append(F, op)
            /\ T' = T \o [i \in 1 .. n |-> op]
        BY <2>3 DEF OrderedMove
      <4> QED
        BY <4>1, <4>2, <4>3, Zenon DEF Receives!Move, Receives!Contains, Contains
    <3>5. n \in 0 .. size[op]
      BY <3>1
    <3> QED
      BY <3>4, <3>5 DEF Receives!Next
  <2>4. ASSUME NEW op \in OtherOps("receive"), OrderedSlip("receive", op)
        PROVE  Receives!Next
    <3>1. Receives!Slip(op)
      BY <2>4 DEF OrderedSlip, Receives!Slip
    <3> QED
      BY <3>1 DEF Receives!Next
  <2> QED
    BY <2>1, <2>3, <2>4 DEF OrderedStep
<1>4. IInv /\ [Next]_vars => /\ [Sends!Next]_<<FirstCalls("send"), TcpBytes("send")>>
                            /\ [Receives!Next]_<<FirstCalls("receive"), TcpBytes("receive")>>
  BY <1>2, <1>3
<1> QED
  BY <1>1, <1>4, Invariance, PTL DEF Spec, StreamOrder, Sends!Spec, Receives!Spec
=============================================================================
