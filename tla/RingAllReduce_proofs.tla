------------------------- MODULE RingAllReduce_proofs -------------------------
(***************************************************************************)
(* Proofs about RingAllReduce for every number of ranks and every size of  *)
(* the data that leaves no partition empty: the receives stay aligned with *)
(* the messages in the streams, and the ranks that return have the whole   *)
(* sum.                                                                    *)
(***************************************************************************)
EXTENDS RingAllReduce, SumTheorems, FiniteSetTheorems, TLAPS

\* No partition is empty.  The guard of the code, Size >= GroupSize, does not ensure
\* this: see the run RingAllReduceEmpty.
NonEmpty == \A k \in Ranks : PartitionSize(k) > 0

\* How far rank k is ahead of rank r in the ring.
Ahead(r, k) == IF k >= r THEN k - r ELSE k - r + GroupSize

\* The ranks from r to the one t places ahead.
Arc(r, t) == {k \in Ranks : Ahead(r, k) <= t}

\* What rank r has in partition k after n iterations: first the sums of more and more
\* ranks in the partitions ahead of it, then the results, starting with its own.
Holds(r, n, k) ==
  IF Ahead(r, k) < n - Half THEN Ranks
  ELSE IF Ahead(r, k) <= n THEN Arc(r, Ahead(r, k)) ELSE {r}

\* What rank r sends in iteration i.
Sent(r, i) == IF i < Half THEN Arc(r, i) ELSE Ranks

\* The number of iterations rank r has completed.
Completed(x, i) == IF x.stage = "done" THEN 2 * Half ELSE IF i = -1 THEN 0 ELSE i

Stages == {"idle", "header", "payload", "read", "done"}
Receives == [avail : Nat, stage : Stages, part : Nat]

\* The receive x of a rank that is in iteration i and has to read n bytes of payload.
StageOK(x, i, n) ==
  /\ x.stage = "idle" <=> i = -1
  /\ x.stage = "header" => x.part < Header
  /\ x.stage = "payload" => x.part < n
  /\ x.stage \in {"idle", "read", "done"} => x.part = 0
  /\ x.stage = "done" => i = 2 * Half - 1

StageInv ==
  \A r \in Ranks :
    /\ StageOK(rx[r], iter[r], PartitionSize(ReceivePartition(r, iter[r])))
    /\ iter[r] = -1 => sendLeft[r] = 0

MailInv ==
  \A r \in Ranks :
    /\ Len(mail[r]) = iter[r] + 1
    /\ \A i \in 0 .. iter[r] : mail[r][i + 1] = Sent(r, i)

DataInv == \A r, k \in Ranks : data[r][k] = Holds(r, Completed(rx[r], iter[r]), k)

Types ==
  /\ iter \in [Ranks -> Iterations \cup {-1}]
  /\ sendLeft \in [Ranks -> Nat]
  /\ wire \in [Ranks -> Nat]
  /\ rx \in [Ranks -> Receives]
  /\ data \in [Ranks -> [Ranks -> SUBSET Ranks]]
  /\ mail \in [Ranks -> Seq(SUBSET Ranks)]

IInv == Types /\ StageInv /\ MailInv /\ DataInv /\ StreamAligned
-----------------------------------------------------------------------------
(* The ring.                                                               *)

LEMMA ModSmall ==
  ASSUME NEW a \in Nat, a < 3 * GroupSize
  PROVE  a % GroupSize = IF a < GroupSize THEN a
                         ELSE IF a < 2 * GroupSize THEN a - GroupSize ELSE a - 2 * GroupSize
<1>1. ASSUME a < GroupSize PROVE a % GroupSize = a
  BY <1>1, GroupAssumption
<1>2. ASSUME a >= GroupSize, a < 2 * GroupSize PROVE a % GroupSize = a - GroupSize
  BY <1>2, GroupAssumption
<1>3. ASSUME a >= 2 * GroupSize PROVE a % GroupSize = a - 2 * GroupSize
  BY <1>3, GroupAssumption
<1> QED
  BY <1>1, <1>2, <1>3, GroupAssumption

LEMMA ModRanks ==
  ASSUME NEW a \in Nat
  PROVE  a % GroupSize \in Ranks
  BY GroupAssumption DEF Ranks

LEMMA AheadType ==
  ASSUME NEW r \in Ranks, NEW k \in Ranks
  PROVE  Ahead(r, k) \in 0 .. Half
  BY GroupAssumption DEF Ahead, Ranks, Half

\* The successor is one ahead; seen from it, every other rank is one nearer.
LEMMA TargetProps ==
  ASSUME NEW r \in Ranks
  PROVE  /\ ReceiveTarget(r) \in Ranks /\ ReceiveTarget(r) # r
         /\ \A k \in Ranks : Ahead(ReceiveTarget(r), k) = IF k = r THEN Half ELSE Ahead(r, k) - 1
         /\ SendTarget(r) \in Ranks
         /\ ReceiveTarget(SendTarget(r)) = r
         /\ \A p \in Ranks : ReceiveTarget(p) = r => p = SendTarget(r)
<1>1. \A p \in Ranks : ReceiveTarget(p) = IF p + 1 < GroupSize THEN p + 1 ELSE 0
  <2> SUFFICES ASSUME NEW p \in Ranks PROVE ReceiveTarget(p) = IF p + 1 < GroupSize THEN p + 1 ELSE 0
    OBVIOUS
  <2>1. PICK a \in Nat : a = p + 1 /\ a <= GroupSize /\ a < 3 * GroupSize
    BY GroupAssumption DEF Ranks
  <2>2. a % GroupSize = IF a < GroupSize THEN a ELSE IF a < 2 * GroupSize THEN a - GroupSize ELSE a - 2 * GroupSize
    BY <2>1, ModSmall
  <2>3. ReceiveTarget(p) = a % GroupSize
    BY <2>1 DEF ReceiveTarget
  <2> QED
    BY <2>1, <2>2, <2>3, GroupAssumption
<1>2. SendTarget(r) = IF r = 0 THEN GroupSize - 1 ELSE r - 1
  <2>1. PICK a \in Nat : a = r + GroupSize - 1 /\ a < 2 * GroupSize /\ a < 3 * GroupSize
    BY GroupAssumption DEF Ranks
  <2>2. a % GroupSize = IF a < GroupSize THEN a ELSE IF a < 2 * GroupSize THEN a - GroupSize ELSE a - 2 * GroupSize
    BY <2>1, ModSmall
  <2>3. SendTarget(r) = a % GroupSize
    BY <2>1 DEF SendTarget
  <2> QED
    BY <2>1, <2>2, <2>3, GroupAssumption DEF Ranks
<1>3. ReceiveTarget(r) \in Ranks /\ ReceiveTarget(r) # r
  BY <1>1, GroupAssumption DEF Ranks
<1>4. \A k \in Ranks : Ahead(ReceiveTarget(r), k) = IF k = r THEN Half ELSE Ahead(r, k) - 1
  BY <1>1, GroupAssumption DEF Ranks, Ahead, Half
<1>5. SendTarget(r) \in Ranks
  BY <1>2, GroupAssumption DEF Ranks
<1>6. ReceiveTarget(SendTarget(r)) = r /\ \A p \in Ranks : ReceiveTarget(p) = r => p = SendTarget(r)
  BY <1>1, <1>2, <1>5, GroupAssumption DEF Ranks
<1> QED
  BY <1>3, <1>4, <1>5, <1>6

\* A rank is determined by how far it is ahead.
LEMMA AheadInjective ==
  ASSUME NEW r \in Ranks, NEW k \in Ranks, NEW j \in Ranks, Ahead(r, k) = Ahead(r, j)
  PROVE  k = j
  BY GroupAssumption DEF Ahead, Ranks

LEMMA RotationAhead ==
  ASSUME NEW r \in Ranks, NEW t \in 0 .. (2 * Half)
  PROVE  /\ (r + t) % GroupSize \in Ranks
         /\ Ahead(r, (r + t) % GroupSize) = IF t <= Half THEN t ELSE t - GroupSize
<1>1. PICK a \in Nat : a = r + t /\ a < 3 * GroupSize
  BY GroupAssumption DEF Ranks, Half
<1>2. a % GroupSize = IF a < GroupSize THEN a ELSE IF a < 2 * GroupSize THEN a - GroupSize ELSE a - 2 * GroupSize
  BY <1>1, ModSmall
<1>3. a % GroupSize \in Ranks
  BY <1>1, ModRanks
<1>4. Ahead(r, a % GroupSize) = IF t <= Half THEN t ELSE t - GroupSize
  BY <1>1, <1>2, <1>3, GroupAssumption DEF Ahead, Ranks, Half
<1> QED
  BY <1>1, <1>3, <1>4

\* Which partitions are sent and received in iteration i (mpi-communicator.h 400-425).
LEMMA PartitionProps ==
  ASSUME NEW r \in Ranks, NEW i \in Iterations
  PROVE  /\ SendPartition(r, i) \in Ranks
         /\ Ahead(r, SendPartition(r, i)) = IF i < Half THEN i ELSE IF i = Half THEN Half ELSE i - Half - 1
         /\ ReceivePartition(r, i) \in Ranks
         /\ Ahead(r, ReceivePartition(r, i)) = IF i < Half THEN i + 1 ELSE i - Half
<1> DEFINE t == IF i < Half THEN i ELSE i - Half + GroupSize - 1
           u == IF i < Half THEN i + 1 ELSE i - Half
<1>1. t \in 0 .. (2 * Half) /\ u \in 0 .. (2 * Half)
  BY GroupAssumption DEF Iterations, Half
<1>2. SendPartition(r, i) = (r + t) % GroupSize /\ ReceivePartition(r, i) = (r + u) % GroupSize
  BY DEF SendPartition, ReceivePartition
<1>3. t <= Half <=> i <= Half
  BY GroupAssumption DEF Iterations, Half
<1>4. i > Half => t - GroupSize = i - Half - 1
  BY GroupAssumption DEF Iterations, Half
<1>5. u <= Half
  BY GroupAssumption DEF Iterations, Half
<1>6. i = Half => t = Half
  BY GroupAssumption DEF Iterations, Half
<1>7. i < Half => t = i
  OBVIOUS
<1>8. i \in Int /\ Half \in Int
  BY GroupAssumption DEF Iterations, Half
<1> HIDE DEF t
<1>9. /\ (r + t) % GroupSize \in Ranks
      /\ Ahead(r, (r + t) % GroupSize) = IF t <= Half THEN t ELSE t - GroupSize
  BY <1>1, RotationAhead
<1>10. /\ (r + u) % GroupSize \in Ranks
       /\ Ahead(r, (r + u) % GroupSize) = u
  <2> HIDE DEF u
  <2> QED
    BY <1>1, <1>5, RotationAhead
<1> QED
  BY <1>2, <1>3, <1>4, <1>6, <1>7, <1>8, <1>9, <1>10

\* A rank expects the partition that its successor sends.
LEMMA SamePartition ==
  ASSUME NEW r \in Ranks, NEW i \in Iterations
  PROVE  SendPartition(ReceiveTarget(r), i) = ReceivePartition(r, i)
<1> DEFINE q == ReceiveTarget(r)
           k == SendPartition(q, i)
           j == ReceivePartition(r, i)
<1>1. q \in Ranks /\ \A x \in Ranks : Ahead(q, x) = IF x = r THEN Half ELSE Ahead(r, x) - 1
  BY TargetProps
<1>2. k \in Ranks /\ Ahead(q, k) = IF i < Half THEN i ELSE IF i = Half THEN Half ELSE i - Half - 1
  <2> HIDE DEF q
  <2> QED
    BY <1>1, PartitionProps
<1>3. j \in Ranks /\ Ahead(r, j) = IF i < Half THEN i + 1 ELSE i - Half
  BY PartitionProps
<1>4. Ahead(r, r) = 0
  BY GroupAssumption DEF Ahead, Ranks
<1>5. i \in 0 .. (2 * Half - 1) /\ Half \in Nat
  BY GroupAssumption DEF Iterations, Half
<1> HIDE DEF q, k, j
<1>6. Ahead(r, k) \in 0 .. Half
  BY <1>2, AheadType
<1>7. Ahead(r, k) = Ahead(r, j)
  BY <1>1, <1>2, <1>3, <1>4, <1>5, <1>6
<1>8. k = j
  BY <1>2, <1>3, <1>7, AheadInjective
<1> QED
  BY <1>8 DEF q, k, j

\* Adding its own contribution to the sum of the successor extends the arc.
LEMMA ArcProps ==
  ASSUME NEW r \in Ranks
  PROVE  /\ Arc(r, 0) = {r}
         /\ Arc(r, Half) = Ranks
         /\ \A t \in 1 .. Half : {r} \cup Arc(ReceiveTarget(r), t - 1) = Arc(r, t)
<1>1. Ahead(r, r) = 0 /\ \A k \in Ranks : Ahead(r, k) \in 0 .. Half
  BY AheadType, GroupAssumption DEF Ahead, Ranks
<1>2. \A k \in Ranks : Ahead(r, k) = 0 => k = r
  BY <1>1, AheadInjective
<1>3. Arc(r, 0) = {r}
  BY <1>1, <1>2 DEF Arc
<1>4. Arc(r, Half) = Ranks
  BY <1>1 DEF Arc
<1>5. ASSUME NEW t \in 1 .. Half PROVE {r} \cup Arc(ReceiveTarget(r), t - 1) = Arc(r, t)
  <2>1. \A k \in Ranks : Ahead(ReceiveTarget(r), k) = IF k = r THEN Half ELSE Ahead(r, k) - 1
    BY TargetProps
  <2>2. Half \in Nat
    BY GroupAssumption DEF Half
  <2>3. ASSUME NEW k \in Ranks PROVE k \in {r} \cup Arc(ReceiveTarget(r), t - 1) <=> k \in Arc(r, t)
    BY <1>1, <2>1, <2>2 DEF Arc
  <2> QED
    BY <2>3 DEF Arc
<1> QED
  BY <1>3, <1>4, <1>5
-----------------------------------------------------------------------------
(* Messages and receives.                                                  *)

LEMMA MinOfTwo ==
  ASSUME NEW a \in Int, NEW b \in Int
  PROVE  Min({a, b}) = IF a <= b THEN a ELSE b
<1> DEFINE m == IF a <= b THEN a ELSE b
<1>1. m \in {a, b} /\ (\A y \in {a, b} : m <= y) /\ m \in Int
  OBVIOUS
<1>2. \A x \in {a, b} : (\A y \in {a, b} : x <= y) => x = m
  BY <1>1
<1> HIDE DEF m
<1>3. Min({a, b}) \in {a, b} /\ \A y \in {a, b} : Min({a, b}) <= y
  BY <1>1 DEF Min
<1> QED
  BY <1>2, <1>3 DEF m

LEMMA MessageSizeType ==
  ASSUME NonEmpty, NEW r \in Ranks, NEW i \in Nat
  PROVE  MessageSize(r, i) \in Nat /\ MessageSize(r, i) > 0
<1> DEFINE t == IF i < Half THEN i ELSE i - Half + GroupSize - 1
           k == SendPartition(r, i)
<1>1. PICK a \in Nat : a = r + t
  BY GroupAssumption DEF Ranks, Half
<1>2. k = a % GroupSize
  BY <1>1 DEF SendPartition
<1>3. k \in Ranks
  BY <1>2, ModRanks
<1> HIDE DEF k
<1>4. PartitionSize(k) \in Nat /\ PartitionSize(k) > 0
  <2>1. PartitionLength \in Int /\ k \in Int
    BY <1>3, GroupAssumption, SizeAssumption DEF PartitionLength, Ranks
  <2>2. PICK b \in Int : b = Size - PartitionLength * k
    BY <2>1, SizeAssumption
  <2>3. PartitionSize(k) \in {PartitionLength, b}
    BY <2>1, <2>2, MinOfTwo DEF PartitionSize
  <2>4. PartitionSize(k) > 0
    BY <1>3 DEF NonEmpty
  <2> QED
    BY <2>1, <2>2, <2>3, <2>4
<1>5. MessageSize(r, i) = Header + PartitionSize(k)
  BY DEF MessageSize, k
<1> QED
  BY <1>4, <1>5, SizeAssumption

LEMMA PartitionSizeType ==
  ASSUME NonEmpty, NEW k \in Ranks
  PROVE  PartitionSize(k) \in Nat /\ PartitionSize(k) > 0
<1>1. PartitionLength \in Int /\ k \in Int
  BY GroupAssumption, SizeAssumption DEF PartitionLength, Ranks
<1>2. PICK b \in Int : b = Size - PartitionLength * k
  BY <1>1, SizeAssumption
<1>3. PartitionSize(k) \in {PartitionLength, b}
  BY <1>1, <1>2, MinOfTwo DEF PartitionSize
<1>4. PartitionSize(k) > 0
  BY DEF NonEmpty
<1> QED
  BY <1>1, <1>2, <1>3, <1>4

\* The stream up to a message, and with it.
LEMMA BytesStep ==
  ASSUME NonEmpty, NEW r \in Ranks, NEW n \in Nat
  PROVE  /\ Bytes(r, 0) = 0
         /\ Bytes(r, n) \in Nat
         /\ Bytes(r, n + 1) = Bytes(r, n) + MessageSize(r, n)
<1> DEFINE I == 0 .. (n - 1)
           J == 0 .. n
           f == [i \in I |-> MessageSize(r, i)]
           g == [i \in J |-> MessageSize(r, i)]
<1>1. Bytes(r, 0) = 0
  <2>1. 0 .. (0 - 1) = {}
    OBVIOUS
  <2> QED
    BY <2>1, SumEmpty DEF Bytes
<1>2. IsFiniteSet(I)
  BY FS_Interval
<1>3. J = I \cup {n} /\ n \notin I /\ 0 .. (n + 1 - 1) = J
  OBVIOUS
<1>4. \A i \in J : g[i] = MessageSize(r, i) /\ g[i] \in Nat
  BY MessageSizeType
<1>5. \A i \in I : f[i] = g[i] /\ f[i] \in Nat
  BY <1>3, <1>4
<1>6. Bytes(r, n) = SumFunctionOnSet(f, I) /\ Bytes(r, n + 1) = SumFunctionOnSet(g, J)
  BY <1>3 DEF Bytes
<1> HIDE DEF f, g, I, J
<1>7. SumFunctionOnSet(f, I) \in Nat
  BY <1>2, <1>5, SumType
<1>8. SumFunctionOnSet(f, I) = SumFunctionOnSet(g, I)
  BY <1>2, <1>5, SumSame
<1>9. SumFunctionOnSet(g, J) = SumFunctionOnSet(g, I) + g[n]
  <2>1. \A i \in I \cup {n} : g[i] \in Int
    BY <1>3, <1>4
  <2> QED
    BY <1>2, <1>3, <2>1, SumAdd
<1>10. g[n] = MessageSize(r, n)
  BY <1>3, <1>4
<1> QED
  BY <1>1, <1>6, <1>7, <1>8, <1>9, <1>10

\* Longer prefixes of a stream have more bytes.
LEMMA BytesIncrease ==
  ASSUME NonEmpty, NEW r \in Ranks, NEW n \in Nat, NEW m \in Nat, n < m
  PROVE  Bytes(r, n) < Bytes(r, m)
<1> DEFINE T == {j \in Nat : n < j /\ ~(Bytes(r, n) < Bytes(r, j))}
<1> SUFFICES ASSUME T # {} PROVE FALSE
  OBVIOUS
<1>1. PICK j \in T : \A y \in T : j <= y
  <2>1. T \in SUBSET Nat
    OBVIOUS
  <2> HIDE DEF T
  <2> QED
    BY <2>1, NatMin
<1>2. PICK i \in Nat : j = i + 1 /\ n <= i
  BY <1>1
<1>3. i \notin T
  BY <1>1, <1>2
<1>4. Bytes(r, n) <= Bytes(r, i)
  BY <1>2, <1>3, BytesStep
<1>5. /\ Bytes(r, i) \in Nat /\ Bytes(r, n) \in Nat
      /\ Bytes(r, i + 1) = Bytes(r, i) + MessageSize(r, i)
  BY BytesStep
<1>6. MessageSize(r, i) \in Nat /\ MessageSize(r, i) > 0
  BY MessageSizeType
<1>7. Bytes(r, n) < Bytes(r, j)
  BY <1>2, <1>4, <1>5, <1>6
<1> QED
  BY <1>1, <1>7

\* How much of a message with n bytes of payload a receive has read.
Offset(x, n) ==
  CASE x.stage = "header" -> x.part
    [] x.stage = "payload" -> Header + x.part
    [] OTHER -> Header + n

\* Resuming a receive takes bytes from what is available, and no more than the
\* message has (coroutine-socket.cpp 216-281).
LEMMA ReadProps ==
  ASSUME NEW x \in Receives, NEW i \in Int, NEW n \in Nat, n > 0, StageOK(x, i, n)
  PROVE  /\ Read(x, n) \in Receives
         /\ StageOK(Read(x, n), i, n)
         /\ Offset(Read(x, n), n) + Read(x, n).avail = Offset(x, n) + x.avail
         /\ Read(x, n).stage = "done" <=> x.stage = "done"
<1> DEFINE y == Read(x, n)
           G(z) == /\ z \in Receives
                   /\ StageOK(z, i, n)
                   /\ Offset(z, n) + z.avail = Offset(x, n) + x.avail
                   /\ z.stage = "done" <=> x.stage = "done"
<1>1. x.avail \in Nat /\ x.part \in Nat /\ x.stage \in Stages /\ Header \in Nat
  BY SizeAssumption DEF Receives
<1>2. ASSUME NEW z \in Receives, z.stage = "payload", StageOK(z, i, n)
      PROVE  LET v == ReadPayload(z, n) IN
             /\ v \in Receives /\ v.stage \in {"payload", "read"}
             /\ v.stage = "payload" => v.part < n
             /\ v.stage = "read" => v.part = 0
             /\ Offset(v, n) + v.avail = Offset(z, n) + z.avail
  <2>1. z.avail \in Nat /\ z.part \in Nat /\ z.part < n
    BY <1>2 DEF Receives, StageOK
  <2> DEFINE t == IF n = 0 THEN z.avail ELSE Min({z.avail, n - z.part})
  <2>2. t = IF z.avail <= n - z.part THEN z.avail ELSE n - z.part
    <3>1. z.avail \in Int /\ n - z.part \in Int
      BY <2>1
    <3> QED
      BY <3>1, MinOfTwo
  <2>3. ReadPayload(z, n) = IF z.avail > 0 /\ z.part + t >= n
                            THEN [avail |-> z.avail - t, stage |-> "read", part |-> 0]
                            ELSE [z EXCEPT !.avail = @ - t, !.part = @ + t]
    BY DEF ReadPayload
  <2> HIDE DEF t
  <2>4. t \in Nat /\ z.avail - t \in Nat /\ z.part + t <= n /\ (z.part + t = n => z.avail > 0)
    BY <2>1, <2>2
  <2>5. CASE z.part + t = n
    <3>1. ReadPayload(z, n) = [avail |-> z.avail - t, stage |-> "read", part |-> 0]
      BY <2>1, <2>3, <2>4, <2>5
    <3>2. [avail |-> z.avail - t, stage |-> "read", part |-> 0] \in Receives
      BY <2>4 DEF Receives, Stages
    <3> QED
      BY <1>1, <1>2, <2>1, <2>4, <2>5, <3>1, <3>2 DEF Offset
  <2>6. CASE z.part + t < n
    <3> DEFINE v == [z EXCEPT !.avail = z.avail - t, !.part = z.part + t]
    <3>1. ReadPayload(z, n) = v
      BY <2>1, <2>3, <2>4, <2>6
    <3>2. v \in Receives /\ v.stage = "payload" /\ v.part = z.part + t /\ v.avail = z.avail - t
      <4>1. PICK a \in Nat, b \in Nat : a = z.avail - t /\ b = z.part + t
        BY <2>1, <2>4
      <4>2. v = [z EXCEPT !.avail = a, !.part = b]
        BY <4>1, Zenon
      <4> HIDE DEF v
      <4>3. v \in Receives /\ v.avail = a /\ v.part = b /\ v.stage = z.stage
        <5> DEFINE w == [z EXCEPT !.avail = a]
        <5>1. w \in Receives /\ w.avail = a /\ w.part = z.part /\ w.stage = z.stage
          BY DEF Receives
        <5>2. v = [w EXCEPT !.part = b]
          BY <4>2, Zenon
        <5> HIDE DEF w
        <5> QED
          BY <5>1, <5>2 DEF Receives
      <4> QED
        BY <1>2, <4>1, <4>3
    <3> HIDE DEF v
    <3> QED
      BY <1>1, <1>2, <2>1, <2>4, <2>6, <3>1, <3>2 DEF Offset
  <2> QED
    BY <2>1, <2>4, <2>5, <2>6
<1>3. ASSUME NEW z \in Receives, z.stage = "payload", StageOK(z, i, n), x.stage \in {"header", "payload"},
             Offset(z, n) + z.avail = Offset(x, n) + x.avail
      PROVE  G(ReadPayload(z, n))
  <2>1. i # -1
    BY <1>3 DEF StageOK
  <2> DEFINE v == ReadPayload(z, n)
  <2>2. /\ v \in Receives /\ v.stage \in {"payload", "read"}
        /\ v.stage = "payload" => v.part < n
        /\ v.stage = "read" => v.part = 0
        /\ Offset(v, n) + v.avail = Offset(z, n) + z.avail
    BY <1>2, <1>3
  <2> HIDE DEF v
  <2>3. StageOK(v, i, n)
    BY <2>1, <2>2 DEF StageOK
  <2>4. G(v)
    BY <1>3, <2>2, <2>3
  <2> QED
    BY <2>4 DEF v
<1>4. CASE x.stage = "payload"
  <2>1. y = ReadPayload(x, n)
    BY <1>4 DEF Read
  <2> QED
    BY <1>3, <1>4, <2>1
<1>5. CASE x.stage = "header"
  <2> DEFINE t == Min({x.avail, Header - x.part})
             h == ReadHeader(x)
  <2>1. x.part < Header /\ i # -1
    BY <1>5 DEF StageOK
  <2>2. t = IF x.avail <= Header - x.part THEN x.avail ELSE Header - x.part
    <3>1. x.avail \in Int /\ Header - x.part \in Int
      BY <1>1
    <3> QED
      BY <3>1, MinOfTwo
  <2>3. h = IF x.part + t = Header
            THEN [avail |-> x.avail - t, stage |-> "payload", part |-> 0]
            ELSE [x EXCEPT !.avail = @ - t, !.part = @ + t]
    BY DEF ReadHeader
  <2> HIDE DEF t
  <2>4. t \in Nat /\ x.avail - t \in Nat /\ x.part + t <= Header
    BY <1>1, <2>1, <2>2
  <2>5. CASE x.part + t = Header
    <3>1. h = [avail |-> x.avail - t, stage |-> "payload", part |-> 0]
      BY <2>3, <2>5
    <3>2. h \in Receives /\ h.stage = "payload" /\ h.part = 0 /\ h.avail = x.avail - t
      BY <2>4, <3>1 DEF Receives, Stages
    <3>3. y = ReadPayload(h, n)
      BY <1>5, <3>2 DEF Read
    <3> HIDE DEF h
    <3>4. StageOK(h, i, n)
      BY <2>1, <3>2 DEF StageOK
    <3>5. Offset(h, n) + h.avail = Offset(x, n) + x.avail
      BY <1>1, <1>5, <2>4, <2>5, <3>2 DEF Offset
    <3> QED
      BY <1>3, <1>5, <3>2, <3>3, <3>4, <3>5
  <2>6. CASE x.part + t # Header
    <3>1. h = [x EXCEPT !.avail = x.avail - t, !.part = x.part + t]
      BY <2>3, <2>6
    <3>2. h \in Receives /\ h.stage = "header" /\ h.part = x.part + t /\ h.avail = x.avail - t
      <4>1. PICK a \in Nat, b \in Nat : a = x.avail - t /\ b = x.part + t
        BY <1>1, <2>4
      <4> HIDE DEF h
      <4>2. h = [x EXCEPT !.avail = a, !.part = b]
        BY <3>1, <4>1, Zenon
      <4>3. h \in Receives /\ h.avail = a /\ h.part = b /\ h.stage = x.stage
        <5> DEFINE w == [x EXCEPT !.avail = a]
        <5>1. w \in Receives /\ w.avail = a /\ w.part = x.part /\ w.stage = x.stage
          BY DEF Receives
        <5>2. h = [w EXCEPT !.part = b]
          BY <4>2, Zenon
        <5> HIDE DEF w
        <5> QED
          BY <5>1, <5>2 DEF Receives
      <4> QED
        BY <1>5, <4>1, <4>3
    <3>3. y = h
      BY <1>5, <3>2 DEF Read
    <3> HIDE DEF h
    <3>4. StageOK(h, i, n)
      BY <1>1, <2>1, <2>4, <2>6, <3>2 DEF StageOK
    <3>5. Offset(h, n) + h.avail = Offset(x, n) + x.avail
      BY <1>1, <1>5, <2>4, <3>2 DEF Offset
    <3> QED
      BY <1>5, <3>2, <3>3, <3>4, <3>5
  <2> QED
    BY <2>5, <2>6
<1>6. CASE x.stage \notin {"header", "payload"}
  <2>1. y = x
    BY <1>6 DEF Read
  <2> QED
    BY <2>1
<1> QED
  BY <1>4, <1>5, <1>6
-----------------------------------------------------------------------------
(* Positions in the streams.                                               *)

\* The payload rank r expects in iteration i.
Payload(r, i) == PartitionSize(ReceivePartition(r, i))

LEMMA PayloadType ==
  ASSUME NonEmpty, NEW r \in Ranks, NEW i \in Iterations \cup {-1}
  PROVE  Payload(r, i) \in Nat /\ Payload(r, i) > 0
<1> DEFINE t == IF i < Half THEN i + 1 ELSE i - Half
<1>0. t \in Nat
  BY GroupAssumption DEF Half, Iterations
<1>1. PICK a \in Nat : a = r + t
  <2> HIDE DEF t
  <2> QED
    BY <1>0, GroupAssumption DEF Ranks
<1>2. ReceivePartition(r, i) = a % GroupSize
  BY <1>1 DEF ReceivePartition
<1>3. ReceivePartition(r, i) \in Ranks
  BY <1>2, ModRanks
<1> QED
  BY <1>3, PartitionSizeType DEF Payload

\* Position, for the receive x of rank r in iteration i.
Pos(r, x, i) ==
  CASE x.stage = "idle" -> 0
    [] x.stage = "header" -> Bytes(ReceiveTarget(r), i) + x.part
    [] x.stage = "payload" -> Bytes(ReceiveTarget(r), i) + Header + x.part
    [] OTHER -> Bytes(ReceiveTarget(r), i + 1)

\* The equation of rank r, whose successor is in iteration j, has sl bytes to send
\* and w bytes on the wire.
Eq(r, x, i, w, sl, j) == Pos(r, x, i) + x.avail + w + sl = Bytes(ReceiveTarget(r), j + 1)

Aligned ==
  \A r \in Ranks :
    Eq(r, rx[r], iter[r], wire[ReceiveTarget(r)], sendLeft[ReceiveTarget(r)], iter[ReceiveTarget(r)])

LEMMA AlignedForm == StreamAligned <=> Aligned
  BY DEF StreamAligned, Aligned, Eq, Pos, Position

LEMMA AlignedNext == StreamAligned' <=> Aligned'
  BY AlignedForm, PTL

\* Once the call has begun, the position is in or after the message of the iteration.
LEMMA PosOffset ==
  ASSUME NonEmpty, NEW r \in Ranks, NEW x \in Receives, NEW i \in Iterations, x.stage # "idle"
  PROVE  /\ Pos(r, x, i) = Bytes(ReceiveTarget(r), i) + Offset(x, Payload(r, i))
         /\ Bytes(ReceiveTarget(r), i) \in Nat
<1> DEFINE q == ReceiveTarget(r)
<1>1. q \in Ranks /\ i \in Nat
  BY TargetProps DEF Iterations
<1>2. SendPartition(q, i) = ReceivePartition(r, i)
  BY SamePartition
<1>3. MessageSize(q, i) = Header + Payload(r, i)
  BY <1>2 DEF MessageSize, Payload
<1> HIDE DEF q
<1>4. Bytes(q, i) \in Nat /\ Bytes(q, i + 1) = Bytes(q, i) + MessageSize(q, i)
  BY <1>1, BytesStep
<1>5. x.part \in Nat /\ Payload(r, i) \in Nat /\ Header \in Nat
  BY PayloadType, SizeAssumption DEF Receives
<1>6. Pos(r, x, i) = CASE x.stage = "header" -> Bytes(q, i) + x.part
                       [] x.stage = "payload" -> Bytes(q, i) + Header + x.part
                       [] OTHER -> Bytes(q, i + 1)
  BY DEF Pos, q
<1>7. Pos(r, x, i) = Bytes(q, i) + Offset(x, Payload(r, i))
  BY <1>3, <1>4, <1>5, <1>6 DEF Offset
<1> QED
  BY <1>4, <1>7 DEF q

\* A resumed receive keeps the sum of its position and the bytes available.
LEMMA ReadAligned ==
  ASSUME NonEmpty, NEW r \in Ranks, NEW x \in Receives, NEW i \in Iterations \cup {-1}, StageOK(x, i, Payload(r, i)),
         NEW y, y = Read(x, Payload(r, i))
  PROVE  /\ y \in Receives
         /\ StageOK(y, i, Payload(r, i))
         /\ Pos(r, y, i) + y.avail = Pos(r, x, i) + x.avail
         /\ y.stage = "done" <=> x.stage = "done"
         /\ Pos(r, x, i) \in Nat
<1> DEFINE n == Payload(r, i)
<1>1. n \in Nat /\ n > 0 /\ i \in Int
  BY PayloadType, GroupAssumption DEF Iterations, Half
<1> HIDE DEF n
<1>2. /\ y \in Receives /\ StageOK(y, i, n)
      /\ Offset(y, n) + y.avail = Offset(x, n) + x.avail
      /\ y.stage = "done" <=> x.stage = "done"
  BY <1>1, ReadProps DEF n
<1>3. CASE i = -1
  <2>1. x.stage = "idle" /\ y.stage = "idle"
    BY <1>2, <1>3 DEF StageOK, n
  <2>2. y = x
    BY <2>1 DEF Read
  <2>3. Pos(r, x, i) = 0
    BY <2>1 DEF Pos
  <2> QED
    BY <1>2, <2>2, <2>3 DEF n
<1>4. CASE i # -1
  <2>1. i \in Iterations /\ x.stage # "idle" /\ y.stage # "idle"
    BY <1>2, <1>4 DEF StageOK, n
  <2>2. /\ Pos(r, x, i) = Bytes(ReceiveTarget(r), i) + Offset(x, n)
        /\ Pos(r, y, i) = Bytes(ReceiveTarget(r), i) + Offset(y, n)
        /\ Bytes(ReceiveTarget(r), i) \in Nat
    BY <1>2, <2>1, PosOffset DEF n
  <2>3. Offset(x, n) \in Nat /\ Offset(y, n) \in Nat /\ x.avail \in Nat /\ y.avail \in Nat
    BY <1>1, <1>2, SizeAssumption DEF Offset, Receives
  <2> QED
    BY <1>2, <2>2, <2>3 DEF n
<1> QED
  BY <1>3, <1>4

\* What a rank has read ends before what its successor has begun to send: the message
\* of the iteration of a rank that has received it is in the mail.
LEMMA MailThere ==
  ASSUME NonEmpty, Types, Aligned, NEW r \in Ranks, rx[r].stage = "read", iter[r] \in Iterations
  PROVE  iter[r] <= iter[ReceiveTarget(r)]
<1> DEFINE q == ReceiveTarget(r)
<1>1. q \in Ranks
  BY TargetProps
<1>2. iter[r] + 1 \in Nat /\ iter[q] + 1 \in Nat /\ iter[q] \in Int /\ iter[r] \in Int
  BY <1>1, GroupAssumption DEF Types, Iterations, Half
<1>3. wire[q] \in Nat /\ sendLeft[q] \in Nat /\ rx[r].avail \in Nat
  BY <1>1 DEF Types, Receives
<1>4. Bytes(q, iter[r] + 1) + rx[r].avail + wire[q] + sendLeft[q] = Bytes(q, iter[q] + 1)
  BY DEF Aligned, Eq, Pos
<1> HIDE DEF q
<1>5. Bytes(q, iter[r] + 1) \in Nat /\ Bytes(q, iter[q] + 1) \in Nat
  BY <1>1, <1>2, BytesStep
<1>6. ~(iter[q] + 1 < iter[r] + 1)
  <2> SUFFICES ASSUME iter[q] + 1 < iter[r] + 1 PROVE FALSE
    OBVIOUS
  <2>1. Bytes(q, iter[q] + 1) < Bytes(q, iter[r] + 1)
    BY <1>1, <1>2, BytesIncrease
  <2> QED
    BY <1>3, <1>4, <1>5, <2>1
<1>7. iter[r] <= iter[q]
  BY <1>2, <1>6
<1> QED
  BY <1>7 DEF q
-----------------------------------------------------------------------------
(* The contents of partitions and messages.                                *)

\* A rank sends what it has in the partition of the iteration.
LEMMA SentProps ==
  ASSUME NEW r \in Ranks, NEW i \in Iterations
  PROVE  Holds(r, i, SendPartition(r, i)) = Sent(r, i)
<1> DEFINE t == Ahead(r, SendPartition(r, i))
<1>1. t = IF i < Half THEN i ELSE IF i = Half THEN Half ELSE i - Half - 1
  BY PartitionProps
<1>2. i \in 0 .. (2 * Half - 1) /\ Half \in Nat
  BY GroupAssumption DEF Iterations, Half
<1>3. Arc(r, Half) = Ranks
  BY ArcProps
<1>4. Holds(r, i, SendPartition(r, i)) = IF t < i - Half THEN Ranks ELSE IF t <= i THEN Arc(r, t) ELSE {r}
  BY DEF Holds
<1> HIDE DEF t
<1>5. CASE i < Half
  BY <1>1, <1>2, <1>4, <1>5 DEF Sent
<1>6. CASE i = Half
  BY <1>1, <1>2, <1>3, <1>4, <1>6 DEF Sent
<1>7. CASE i > Half
  BY <1>1, <1>2, <1>4, <1>7 DEF Sent
<1> QED
  BY <1>2, <1>5, <1>6, <1>7

\* What a rank has after the iteration (mpi-communicator.h 400-425): other partitions do
\* not change, the one received is the longer sum or the result.
LEMMA HoldsNext ==
  ASSUME NEW r \in Ranks, NEW i \in Iterations, NEW k \in Ranks
  PROVE  Holds(r, i + 1, k) =
           IF k = ReceivePartition(r, i)
           THEN IF i < Half THEN Holds(r, i, k) \cup Sent(ReceiveTarget(r), i) ELSE Sent(ReceiveTarget(r), i)
           ELSE Holds(r, i, k)
<1>0. PICK n : n = i + 1
  OBVIOUS
<1> SUFFICES Holds(r, n, k) =
               IF k = ReceivePartition(r, i)
               THEN IF i < Half THEN Holds(r, i, k) \cup Sent(ReceiveTarget(r), i) ELSE Sent(ReceiveTarget(r), i)
               ELSE Holds(r, i, k)
  BY <1>0, Zenon
<1> DEFINE t == Ahead(r, k)
           u == Ahead(r, ReceivePartition(r, i))
<1>1. ReceivePartition(r, i) \in Ranks /\ u = IF i < Half THEN i + 1 ELSE i - Half
  BY PartitionProps
<1>2. i \in 0 .. (2 * Half - 1) /\ Half \in Nat
  BY GroupAssumption DEF Iterations, Half
<1>3. t \in 0 .. Half /\ (k # ReceivePartition(r, i) => t # u) /\ (k = ReceivePartition(r, i) => t = u)
  BY <1>1, AheadType, AheadInjective
<1>4. /\ Holds(r, i, k) = IF t < i - Half THEN Ranks ELSE IF t <= i THEN Arc(r, t) ELSE {r}
      /\ Holds(r, n, k) = IF t < n - Half THEN Ranks ELSE IF t <= n THEN Arc(r, t) ELSE {r}
  <2>1. ASSUME NEW x PROVE Holds(r, x, k) = IF t < x - Half THEN Ranks ELSE IF t <= x THEN Arc(r, t) ELSE {r}
    BY DEF Holds
  <2> HIDE DEF t
  <2> QED
    BY <2>1
<1> HIDE DEF t, u
<1>5. CASE k # ReceivePartition(r, i)
  <2>1. Holds(r, n, k) = Holds(r, i, k)
    <3>1. (t < n - Half) <=> (t < i - Half)
      BY <1>0, <1>1, <1>2, <1>3, <1>5
    <3>2. (t < i - Half) \/ ((t <= n) <=> (t <= i))
      BY <1>0, <1>1, <1>2, <1>3, <1>5
    <3> QED
      BY <1>4, <3>1, <3>2
  <2> QED
    BY <1>5, <2>1
<1>6. CASE k = ReceivePartition(r, i) /\ i < Half
  <2>1. t = i + 1 /\ t \in 1 .. Half /\ t - 1 = i
    BY <1>1, <1>2, <1>3, <1>6
  <2>2. Holds(r, i, k) = {r} /\ Holds(r, n, k) = Arc(r, t)
    BY <1>0, <1>2, <1>4, <1>6, <2>1
  <2>3. {r} \cup Arc(ReceiveTarget(r), t - 1) = Arc(r, t)
    BY <2>1, ArcProps
  <2>4. Sent(ReceiveTarget(r), i) = Arc(ReceiveTarget(r), i)
    BY <1>6 DEF Sent
  <2> QED
    BY <1>6, <2>1, <2>2, <2>3, <2>4
<1>7. CASE k = ReceivePartition(r, i) /\ ~(i < Half)
  <2>1. Holds(r, n, k) = Ranks
    BY <1>0, <1>1, <1>2, <1>3, <1>4, <1>7
  <2>2. Sent(ReceiveTarget(r), i) = Ranks
    BY <1>7 DEF Sent
  <2> QED
    BY <1>7, <2>1, <2>2
<1> QED
  BY <1>5, <1>6, <1>7

\* A rank that has completed all iterations has everything.
LEMMA HoldsAll ==
  ASSUME NEW r \in Ranks, NEW k \in Ranks
  PROVE  Holds(r, 2 * Half, k) = Ranks
<1> DEFINE t == Ahead(r, k)
<1>1. t \in 0 .. Half /\ Half \in Nat
  BY AheadType, GroupAssumption DEF Half
<1>2. Holds(r, 2 * Half, k) = IF t < 2 * Half - Half THEN Ranks ELSE IF t <= 2 * Half THEN Arc(r, t) ELSE {r}
  BY DEF Holds
<1>3. Arc(r, Half) = Ranks
  BY ArcProps
<1> HIDE DEF t
<1> QED
  BY <1>1, <1>2, <1>3

LEMMA MergeProps ==
  ASSUME NonEmpty, IInv, NEW r \in Ranks, rx[r].stage = "read"
  PROVE  /\ iter[r] \in Iterations
         /\ Merge(r) \in [Ranks -> SUBSET Ranks]
         /\ \A k \in Ranks : Merge(r)[k] = Holds(r, iter[r] + 1, k)
<1> DEFINE i == iter[r]
           q == ReceiveTarget(r)
           j == ReceivePartition(r, i)
           m == IF i < Half THEN data[r][j] \cup Received(r, i) ELSE Received(r, i)
<1>1. Types /\ StageInv /\ MailInv /\ DataInv /\ Aligned
  BY AlignedForm DEF IInv
<1>2. i \in Iterations
  BY <1>1 DEF Types, StageInv, StageOK
<1>3. i <= iter[q] /\ q \in Ranks
  BY <1>1, <1>2, MailThere, TargetProps
<1>4. Received(r, i) = Sent(q, i)
  <2>1. i \in 0 .. iter[q]
    BY <1>1, <1>2, <1>3 DEF Iterations, Types
  <2> QED
    BY <1>1, <1>3, <2>1 DEF MailInv, Received
<1>5. Sent(q, i) \in SUBSET Ranks
  BY DEF Sent, Arc
<1>6. j \in Ranks
  BY <1>2, PartitionProps
<1>7. data[r] \in [Ranks -> SUBSET Ranks] /\ m \in SUBSET Ranks
  BY <1>1, <1>4, <1>5, <1>6 DEF Types
<1>8. Merge(r) = [data[r] EXCEPT ![j] = m]
  BY <1>6, <1>7 DEF Merge
<1>9. \A k \in Ranks : data[r][k] = Holds(r, i, k)
  <2>1. Completed(rx[r], i) = i
    BY <1>2, GroupAssumption DEF Completed, Iterations
  <2> QED
    BY <1>1, <2>1 DEF DataInv
<1>10. ASSUME NEW k \in Ranks PROVE Merge(r)[k] = Holds(r, i + 1, k)
  <2>1. Holds(r, i + 1, k) = IF k = j THEN IF i < Half THEN Holds(r, i, k) \cup Sent(q, i) ELSE Sent(q, i)
                             ELSE Holds(r, i, k)
    BY <1>2, HoldsNext
  <2>2. Merge(r)[k] = IF k = j THEN m ELSE data[r][k]
    <3> HIDE DEF m, j
    <3> QED
      BY <1>7, <1>8
  <2>3. data[r][k] = Holds(r, i, k)
    BY <1>9
  <2>4. k = j => m = IF i < Half THEN data[r][k] \cup Sent(q, i) ELSE Sent(q, i)
    BY <1>4
  <2> HIDE DEF m, j, q, i
  <2>5. CASE k = j
    BY <2>1, <2>2, <2>3, <2>4, <2>5, Zenon
  <2>6. CASE k # j
    BY <2>1, <2>2, <2>3, <2>6, Zenon
  <2> QED
    BY <2>5, <2>6
<1>11. Merge(r) \in [Ranks -> SUBSET Ranks]
  <2> HIDE DEF m, j
  <2> QED
    BY <1>7, <1>8
<1> QED
  BY <1>2, <1>10, <1>11
-----------------------------------------------------------------------------
(* The steps.                                                              *)

LEMMA InitIInv == NonEmpty /\ Init => IInv
<1> SUFFICES ASSUME NonEmpty, Init PROVE IInv
  OBVIOUS
<1> USE DEF Init
<1>1. Types
  <2>1. [avail |-> 0, stage |-> "idle", part |-> 0] \in Receives
    BY DEF Receives, Stages
  <2>2. <<>> \in Seq(SUBSET Ranks)
    OBVIOUS
  <2> QED
    BY <2>1, <2>2 DEF Types
<1>2. StageInv
  BY DEF StageInv, StageOK
<1>3. MailInv
  BY DEF MailInv
<1>4. DataInv
  <2> SUFFICES ASSUME NEW r \in Ranks, NEW k \in Ranks PROVE data[r][k] = Holds(r, Completed(rx[r], iter[r]), k)
    BY DEF DataInv
  <2>1. Completed(rx[r], iter[r]) = 0 /\ data[r][k] = {r}
    BY DEF Completed
  <2>2. Holds(r, 0, k) = {r}
    <3>1. Ahead(r, k) \in 0 .. Half /\ Half \in Nat /\ Arc(r, 0) = {r}
      BY AheadType, ArcProps, GroupAssumption DEF Half
    <3> QED
      BY <3>1 DEF Holds
  <2> QED
    BY <2>1, <2>2
<1>5. Aligned
  <2> SUFFICES ASSUME NEW r \in Ranks
               PROVE  Eq(r, rx[r], iter[r], wire[ReceiveTarget(r)], sendLeft[ReceiveTarget(r)], iter[ReceiveTarget(r)])
    BY DEF Aligned
  <2>1. ReceiveTarget(r) \in Ranks
    BY TargetProps
  <2>2. Bytes(ReceiveTarget(r), 0) = 0
    BY <2>1, BytesStep
  <2>3. Pos(r, rx[r], iter[r]) = 0 /\ rx[r].avail = 0
    BY DEF Pos
  <2>4. iter[ReceiveTarget(r)] + 1 = 0 /\ wire[ReceiveTarget(r)] = 0 /\ sendLeft[ReceiveTarget(r)] = 0
    BY <2>1
  <2> QED
    BY <2>2, <2>3, <2>4 DEF Eq
<1> QED
  BY <1>1, <1>2, <1>3, <1>4, <1>5, AlignedForm DEF IInv

\* A rank starts its next iteration, having read the stream up to its message.
LEMMA BeginIInv ==
  ASSUME NonEmpty, IInv, NEW r \in Ranks, NEW i \in Iterations, NEW known \in [Ranks -> SUBSET Ranks],
         Begin(r, i, known), data' = [data EXCEPT ![r] = known], UNCHANGED wire,
         \A k \in Ranks : known[k] = Holds(r, i, k),
         rx[r].stage \in {"idle", "read"}, sendLeft[r] = 0, iter[r] = i - 1,
         Pos(r, rx[r], iter[r]) = Bytes(ReceiveTarget(r), i)
  PROVE  IInv'
<1> DEFINE q == ReceiveTarget(r)
           n == Payload(r, i)
           x == [rx[r] EXCEPT !.stage = "header"]
           y == Read(x, n)
           c == known[SendPartition(r, i)]
<1>1. Types /\ StageInv /\ MailInv /\ DataInv /\ Aligned
  BY AlignedForm DEF IInv
<1>2. rx \in [Ranks -> Receives] /\ rx[r] \in Receives /\ i \in Nat
  BY <1>1 DEF Types, Iterations
<1>3. /\ iter' = [iter EXCEPT ![r] = i]
      /\ sendLeft' = [sendLeft EXCEPT ![r] = MessageSize(r, i)]
      /\ rx' = [rx EXCEPT ![r] = y]
      /\ mail' = [mail EXCEPT ![r] = Append(mail[r], c)]
  <2>1. rx' = [rx EXCEPT ![r] = Read([rx[r] EXCEPT !.stage = "header"], PartitionSize(ReceivePartition(r, i)))]
    BY <1>2 DEF Begin
  <2>2. mail' = [mail EXCEPT ![r] = Append(mail[r], c)]
    BY <1>1 DEF Begin, Types
  <2> QED
    BY <2>1, <2>2 DEF Begin, Payload
<1>4. rx[r].part = 0
  BY <1>1 DEF StageInv, StageOK
<1>5. x \in Receives /\ x.stage = "header" /\ x.part = 0 /\ x.avail = rx[r].avail
  BY <1>2, <1>4 DEF Receives, Stages
<1> HIDE DEF x
<1>6. StageOK(x, i, n)
  BY <1>2, <1>5, SizeAssumption DEF StageOK
<1>7. /\ y \in Receives /\ StageOK(y, i, n)
      /\ Pos(r, y, i) + y.avail = Pos(r, x, i) + x.avail
      /\ y.stage # "done"
  BY <1>5, <1>6, ReadAligned
<1> HIDE DEF y
<1>8. c \in SUBSET Ranks /\ c = Sent(r, i)
  <2>1. SendPartition(r, i) \in Ranks /\ Holds(r, i, SendPartition(r, i)) = Sent(r, i)
    BY PartitionProps, SentProps
  <2> QED
    BY <2>1
<1> HIDE DEF c
<1>9. MessageSize(r, i) \in Nat
  BY <1>2, MessageSizeType
<1>10. Types'
  <2>1. iter' \in [Ranks -> Iterations \cup {-1}] /\ sendLeft' \in [Ranks -> Nat] /\ wire' \in [Ranks -> Nat]
    BY <1>1, <1>3, <1>9 DEF Types
  <2>2. rx' \in [Ranks -> Receives] /\ data' \in [Ranks -> [Ranks -> SUBSET Ranks]]
    BY <1>1, <1>2, <1>3, <1>7 DEF Types
  <2>3. mail' \in [Ranks -> Seq(SUBSET Ranks)]
    BY <1>1, <1>3, <1>8 DEF Types
  <2> QED
    BY <2>1, <2>2, <2>3 DEF Types
<1>11. /\ iter'[r] = i /\ rx'[r] = y /\ sendLeft'[r] = MessageSize(r, i) /\ mail'[r] = Append(mail[r], c) /\ data'[r] = known
       /\ \A p \in Ranks \ {r} : iter'[p] = iter[p] /\ rx'[p] = rx[p] /\ sendLeft'[p] = sendLeft[p]
                                 /\ mail'[p] = mail[p] /\ data'[p] = data[p]
  BY <1>1, <1>3 DEF Types
<1>12. StageInv'
  <2> SUFFICES ASSUME NEW p \in Ranks
               PROVE  /\ StageOK(rx'[p], iter'[p], PartitionSize(ReceivePartition(p, iter'[p])))
                      /\ iter'[p] = -1 => sendLeft'[p] = 0
    BY DEF StageInv
  <2>1. CASE p = r
    BY <1>2, <1>7, <1>11, <2>1 DEF Payload
  <2>2. CASE p # r
    BY <1>1, <1>11, <2>2 DEF StageInv
  <2> QED
    BY <2>1, <2>2
<1>13. MailInv'
  <2> SUFFICES ASSUME NEW p \in Ranks
               PROVE  /\ Len(mail'[p]) = iter'[p] + 1
                      /\ \A m \in 0 .. iter'[p] : mail'[p][m + 1] = Sent(p, m)
    BY DEF MailInv
  <2>1. CASE p = r
    <3>1. mail[r] \in Seq(SUBSET Ranks) /\ Len(mail[r]) = i
      BY <1>1, <1>2 DEF Types, MailInv
    <3>2. Len(Append(mail[r], c)) = i + 1
      BY <1>8, <3>1
    <3>3. ASSUME NEW m \in 0 .. i PROVE Append(mail[r], c)[m + 1] = Sent(r, m)
      <4>1. CASE m = i
        BY <1>8, <3>1, <4>1
      <4>2. CASE m < i
        <5>1. m \in 0 .. iter[r] /\ m + 1 \in 1 .. Len(mail[r])
          BY <1>2, <3>1, <4>2
        <5>2. mail[r][m + 1] = Sent(r, m)
          BY <1>1, <5>1 DEF MailInv
        <5>3. Append(mail[r], c)[m + 1] = mail[r][m + 1]
          BY <1>8, <3>1, <5>1
        <5> QED
          BY <5>2, <5>3
      <4>3. m = i \/ m < i
        BY <1>2
      <4> QED
        BY <4>1, <4>2, <4>3, Zenon
    <3> QED
      BY <1>11, <2>1, <3>2, <3>3
  <2>2. CASE p # r
    BY <1>1, <1>11, <2>2 DEF MailInv
  <2> QED
    BY <2>1, <2>2
<1>14. DataInv'
  <2> SUFFICES ASSUME NEW p \in Ranks, NEW k \in Ranks
               PROVE  data'[p][k] = Holds(p, Completed(rx'[p], iter'[p]), k)
    BY DEF DataInv
  <2>1. CASE p = r
    <3>1. Completed(y, i) = i
      BY <1>2, <1>7 DEF Completed
    <3> QED
      BY <1>11, <2>1, <3>1
  <2>2. CASE p # r
    BY <1>1, <1>11, <2>2 DEF DataInv
  <2> QED
    BY <2>1, <2>2
<1>15. Aligned'
  <2> SUFFICES ASSUME NEW p \in Ranks
               PROVE  Eq(p, rx'[p], iter'[p], wire'[ReceiveTarget(p)], sendLeft'[ReceiveTarget(p)], iter'[ReceiveTarget(p)])
    BY DEF Aligned
  <2>1. Eq(p, rx[p], iter[p], wire[ReceiveTarget(p)], sendLeft[ReceiveTarget(p)], iter[ReceiveTarget(p)])
    BY <1>1 DEF Aligned
  <2>2. ReceiveTarget(p) \in Ranks /\ ReceiveTarget(p) # p
    BY TargetProps
  <2>3. CASE p = r
    <3>1. Pos(r, x, i) = Bytes(q, i) + 0
      BY <1>5 DEF Pos
    <3>2. Bytes(q, i) \in Nat
      BY <1>2, <2>2, <2>3, BytesStep
    <3>3. Pos(r, y, i) + y.avail = Pos(r, rx[r], iter[r]) + rx[r].avail
      BY <1>5, <1>7, <3>1, <3>2
    <3>4. wire'[q] = wire[q] /\ sendLeft'[q] = sendLeft[q] /\ iter'[q] = iter[q]
      BY <1>11, <2>2, <2>3
    <3> HIDE DEF q
    <3> QED
      BY <1>11, <2>1, <2>3, <3>3, <3>4 DEF Eq, q
  <2>4. CASE ReceiveTarget(p) = r
    <3>1. rx'[p] = rx[p] /\ iter'[p] = iter[p] /\ wire'[r] = wire[r]
      BY <1>11, <2>2, <2>4
    <3>2. Bytes(r, i + 1) = Bytes(r, i) + MessageSize(r, i) /\ Bytes(r, i) \in Nat
      BY <1>2, BytesStep
    <3>3. Pos(p, rx[p], iter[p]) + rx[p].avail + wire[r] + 0 = Bytes(r, i)
      <4>1. iter[r] + 1 = i
        BY <1>2
      <4> QED
        BY <2>1, <2>4, <4>1 DEF Eq
    <3>4. Pos(p, rx[p], iter[p]) \in Nat /\ rx[p].avail \in Nat /\ wire[r] \in Nat
      <4>1. rx[p] \in Receives /\ iter[p] \in Iterations \cup {-1} /\ StageOK(rx[p], iter[p], Payload(p, iter[p]))
        BY <1>1 DEF Types, StageInv, Payload
      <4>2. Pos(p, rx[p], iter[p]) \in Nat
        BY <4>1, ReadAligned
      <4> QED
        BY <1>1, <4>1, <4>2 DEF Types, Receives
    <3>5. Pos(p, rx[p], iter[p]) + rx[p].avail + wire[r] + MessageSize(r, i) = Bytes(r, i + 1)
      BY <1>9, <3>2, <3>3, <3>4
    <3> QED
      BY <1>11, <2>4, <3>1, <3>5 DEF Eq
  <2>5. CASE p # r /\ ReceiveTarget(p) # r
    BY <1>11, <2>1, <2>2, <2>5
  <2> QED
    BY <2>3, <2>4, <2>5
<1> QED
  BY <1>10, <1>12, <1>13, <1>14, <1>15, AlignedNext DEF IInv

LEMMA CallIInv ==
  ASSUME NonEmpty, IInv, NEW r \in Ranks, Call(r)
  PROVE  IInv'
<1>1. Types /\ StageInv /\ DataInv
  BY DEF IInv
<1>2. iter[r] = -1 /\ Begin(r, 0, data[r]) /\ UNCHANGED <<wire, data>>
  BY DEF Call
<1>3. 0 \in Iterations
  BY GroupAssumption DEF Iterations, Half
<1>4. data[r] \in [Ranks -> SUBSET Ranks] /\ data' = [data EXCEPT ![r] = data[r]]
  BY <1>1, <1>2 DEF Types
<1>5. rx[r].stage = "idle" /\ sendLeft[r] = 0
  BY <1>1, <1>2 DEF StageInv, StageOK
<1>6. \A k \in Ranks : data[r][k] = Holds(r, 0, k)
  BY <1>1, <1>2, <1>5 DEF DataInv, Completed
<1>7. Pos(r, rx[r], iter[r]) = Bytes(ReceiveTarget(r), 0)
  BY <1>5, TargetProps, BytesStep DEF Pos
<1>8. iter[r] = 0 - 1
  BY <1>2
<1> QED
  BY <1>2, <1>3, <1>4, <1>5, <1>6, <1>7, <1>8, BeginIInv

LEMMA IterateIInv ==
  ASSUME NonEmpty, IInv, NEW r \in Ranks, Iterate(r)
  PROVE  IInv'
<1> DEFINE i == iter[r]
<1>1. Types /\ StageInv /\ MailInv /\ DataInv /\ Aligned
  BY AlignedForm DEF IInv
<1>2. rx[r].stage = "read" /\ sendLeft[r] = 0 /\ data' = [data EXCEPT ![r] = Merge(r)] /\ UNCHANGED wire
  BY DEF Iterate
<1>3. /\ i \in Iterations
      /\ Merge(r) \in [Ranks -> SUBSET Ranks]
      /\ \A k \in Ranks : Merge(r)[k] = Holds(r, i + 1, k)
  BY <1>2, MergeProps
<1>4. data'[r] = Merge(r)
  BY <1>1, <1>2 DEF Types
<1>5. ASSUME i + 1 \in Iterations, Begin(r, i + 1, data'[r])
      PROVE  IInv'
  <2>1. PICK j \in Iterations : j = i + 1
    BY <1>5
  <2>2. Begin(r, j, Merge(r))
    BY <1>4, <1>5, <2>1
  <2>3. iter[r] = j - 1
    BY <1>3, <2>1 DEF Iterations
  <2>4. \A k \in Ranks : Merge(r)[k] = Holds(r, j, k)
    BY <1>3, <2>1
  <2>5. Pos(r, rx[r], iter[r]) = Bytes(ReceiveTarget(r), j)
    BY <1>2, <2>1 DEF Pos
  <2> HIDE DEF i
  <2> QED
    BY <1>2, <1>3, <2>2, <2>3, <2>4, <2>5, BeginIInv
<1>6. ASSUME i + 1 \notin Iterations, rx' = [rx EXCEPT ![r].stage = "done"], UNCHANGED <<iter, sendLeft, mail>>
      PROVE  IInv'
  <2> DEFINE y == [rx[r] EXCEPT !.stage = "done"]
  <2>1. i = 2 * Half - 1 /\ i + 1 = 2 * Half
    BY <1>3, <1>6, GroupAssumption DEF Iterations, Half
  <2>2. rx \in [Ranks -> Receives] /\ rx[r] \in Receives
    BY <1>1 DEF Types
  <2>3. y \in Receives /\ y.stage = "done" /\ y.part = rx[r].part /\ y.avail = rx[r].avail
    BY <2>2 DEF Receives, Stages
  <2>4. rx' = [rx EXCEPT ![r] = y]
    BY <1>6, <2>2
  <2> HIDE DEF y
  <2>5. rx'[r] = y /\ rx' \in [Ranks -> Receives] /\ \A p \in Ranks \ {r} : rx'[p] = rx[p]
    BY <2>2, <2>3, <2>4
  <2>6. Types'
    BY <1>1, <1>2, <1>3, <1>6, <2>5 DEF Types
  <2>7. StageInv'
    <3> SUFFICES ASSUME NEW p \in Ranks
                 PROVE  /\ StageOK(rx'[p], iter'[p], PartitionSize(ReceivePartition(p, iter'[p])))
                        /\ iter'[p] = -1 => sendLeft'[p] = 0
      BY DEF StageInv
    <3>1. StageOK(rx[p], iter[p], PartitionSize(ReceivePartition(p, iter[p]))) /\ (iter[p] = -1 => sendLeft[p] = 0)
      BY <1>1 DEF StageInv
    <3>2. CASE p = r
      <4>1. y.part = 0 /\ iter[r] # -1
        BY <1>2, <2>3, <3>1, <3>2 DEF StageOK
      <4> QED
        BY <1>6, <2>1, <2>3, <2>5, <3>2, <4>1 DEF StageOK
    <3>3. CASE p # r
      BY <1>6, <2>5, <3>1, <3>3
    <3> QED
      BY <3>2, <3>3
  <2>8. MailInv'
    BY <1>1, <1>6 DEF MailInv
  <2>9. DataInv'
    <3> SUFFICES ASSUME NEW p \in Ranks, NEW k \in Ranks
                 PROVE  data'[p][k] = Holds(p, Completed(rx'[p], iter'[p]), k)
      BY DEF DataInv
    <3>1. CASE p = r
      <4>1. Completed(y, iter[r]) = i + 1
        BY <2>1, <2>3 DEF Completed
      <4> QED
        BY <1>3, <1>4, <1>6, <2>5, <3>1, <4>1
    <3>2. CASE p # r
      <4>1. data'[p] = data[p]
        BY <1>1, <1>2, <3>2 DEF Types
      <4> QED
        BY <1>1, <1>6, <2>5, <3>2, <4>1 DEF DataInv
    <3> QED
      BY <3>1, <3>2
  <2>10. Aligned'
    <3> SUFFICES ASSUME NEW p \in Ranks
                 PROVE  Eq(p, rx'[p], iter'[p], wire'[ReceiveTarget(p)], sendLeft'[ReceiveTarget(p)], iter'[ReceiveTarget(p)])
      BY DEF Aligned
    <3>1. Eq(p, rx[p], iter[p], wire[ReceiveTarget(p)], sendLeft[ReceiveTarget(p)], iter[ReceiveTarget(p)])
      BY <1>1 DEF Aligned
    <3>2. CASE p = r
      <4>1. Pos(r, y, iter[r]) = Pos(r, rx[r], iter[r])
        BY <1>2, <2>3 DEF Pos
      <4> QED
        BY <1>2, <1>6, <2>3, <2>5, <3>1, <3>2, <4>1 DEF Eq
    <3>3. CASE p # r
      BY <1>2, <1>6, <2>5, <3>1, <3>3
    <3> QED
      BY <3>2, <3>3
  <2> QED
    BY <2>6, <2>7, <2>8, <2>9, <2>10, AlignedNext DEF IInv
<1> QED
  BY <1>5, <1>6 DEF Iterate

LEMMA AcceptIInv ==
  ASSUME NonEmpty, IInv, NEW r \in Ranks, Accept(r)
  PROVE  IInv'
<1>1. Types /\ StageInv /\ MailInv /\ DataInv /\ Aligned
  BY AlignedForm DEF IInv
<1>2. PICK n \in 1 .. sendLeft[r] :
        /\ sendLeft' = [sendLeft EXCEPT ![r] = sendLeft[r] - n]
        /\ wire' = [wire EXCEPT ![r] = wire[r] + n]
  BY <1>1 DEF Accept, Types
<1>3. UNCHANGED <<iter, rx, data, mail>>
  BY DEF Accept
<1>4. sendLeft[r] \in Nat /\ wire[r] \in Nat /\ n \in Nat /\ n <= sendLeft[r] /\ n >= 1
  BY <1>1 DEF Types
<1>5. /\ sendLeft'[r] = sendLeft[r] - n /\ wire'[r] = wire[r] + n
      /\ \A p \in Ranks \ {r} : sendLeft'[p] = sendLeft[p] /\ wire'[p] = wire[p]
  BY <1>1, <1>2 DEF Types
<1>6. Types'
  <2>1. sendLeft[r] - n \in Nat /\ wire[r] + n \in Nat
    BY <1>4
  <2>2. sendLeft' \in [Ranks -> Nat] /\ wire' \in [Ranks -> Nat]
    BY <1>1, <1>2, <2>1 DEF Types
  <2> QED
    BY <1>1, <1>3, <2>2 DEF Types
<1>7. StageInv'
  <2>1. iter[r] # -1
    BY <1>1, <1>4 DEF StageInv
  <2> QED
    BY <1>1, <1>3, <1>5, <2>1 DEF StageInv
<1>8. MailInv' /\ DataInv'
  BY <1>1, <1>3 DEF MailInv, DataInv
<1>9. Aligned'
  <2> SUFFICES ASSUME NEW p \in Ranks
               PROVE  Eq(p, rx'[p], iter'[p], wire'[ReceiveTarget(p)], sendLeft'[ReceiveTarget(p)], iter'[ReceiveTarget(p)])
    BY DEF Aligned
  <2>1. Eq(p, rx[p], iter[p], wire[ReceiveTarget(p)], sendLeft[ReceiveTarget(p)], iter[ReceiveTarget(p)])
    BY <1>1 DEF Aligned
  <2>2. CASE ReceiveTarget(p) = r
    <3>1. Pos(p, rx[p], iter[p]) \in Nat /\ rx[p].avail \in Nat
      <4>1. rx[p] \in Receives /\ iter[p] \in Iterations \cup {-1} /\ StageOK(rx[p], iter[p], Payload(p, iter[p]))
        BY <1>1 DEF Types, StageInv, Payload
      <4>2. Pos(p, rx[p], iter[p]) \in Nat
        BY <4>1, ReadAligned
      <4> QED
        BY <4>1, <4>2 DEF Receives
    <3>2. Pos(p, rx[p], iter[p]) + rx[p].avail + wire[r] + sendLeft[r] = Bytes(r, iter[r] + 1)
      BY <2>1, <2>2 DEF Eq
    <3>3. Pos(p, rx[p], iter[p]) + rx[p].avail + wire'[r] + sendLeft'[r] = Bytes(r, iter[r] + 1)
      BY <1>4, <1>5, <3>1, <3>2
    <3> QED
      BY <1>3, <2>2, <3>3 DEF Eq
  <2>3. CASE ReceiveTarget(p) # r
    BY <1>3, <1>5, <2>1, <2>3, TargetProps
  <2> QED
    BY <2>2, <2>3
<1> QED
  BY <1>6, <1>7, <1>8, <1>9, AlignedNext DEF IInv

LEMMA ArriveIInv ==
  ASSUME NonEmpty, IInv, NEW r \in Ranks, Arrive(r)
  PROVE  IInv'
<1> DEFINE q == SendTarget(r)
<1>1. Types /\ StageInv /\ MailInv /\ DataInv /\ Aligned
  BY AlignedForm DEF IInv
<1>2. q \in Ranks /\ ReceiveTarget(q) = r /\ q # r /\ \A p \in Ranks : ReceiveTarget(p) = r => p = q
  BY TargetProps
<1> HIDE DEF q
<1>3. rx \in [Ranks -> Receives] /\ rx[q] \in Receives /\ iter[q] \in Iterations \cup {-1}
      /\ StageOK(rx[q], iter[q], Payload(q, iter[q]))
  BY <1>1, <1>2 DEF Types, StageInv, Payload
<1>4. PICK n \in 1 .. wire[r] :
        /\ wire' = [wire EXCEPT ![r] = @ - n]
        /\ rx' = [rx EXCEPT ![q] = Read([rx[q] EXCEPT !.avail = @ + n], PartitionSize(ReceivePartition(q, iter[q])))]
  BY DEF Arrive, q
<1>5. UNCHANGED <<iter, sendLeft, data, mail>>
  BY DEF Arrive
<1>6. wire[r] \in Nat /\ n \in Nat /\ n <= wire[r]
  BY <1>1 DEF Types
<1> DEFINE x == [rx[q] EXCEPT !.avail = rx[q].avail + n]
           y == Read(x, PartitionSize(ReceivePartition(q, iter[q])))
<1>7. x \in Receives /\ x.stage = rx[q].stage /\ x.part = rx[q].part /\ x.avail = rx[q].avail + n
      /\ rx[q].avail \in Nat
  BY <1>3, <1>6 DEF Receives
<1>8. rx' = [rx EXCEPT ![q] = y]
  BY <1>4, Zenon
<1> HIDE DEF x
<1>9. StageOK(x, iter[q], Payload(q, iter[q])) /\ Pos(q, x, iter[q]) = Pos(q, rx[q], iter[q])
  BY <1>3, <1>7 DEF StageOK, Pos
<1>10. /\ y \in Receives
       /\ StageOK(y, iter[q], Payload(q, iter[q]))
       /\ Pos(q, y, iter[q]) + y.avail = Pos(q, x, iter[q]) + x.avail
       /\ y.stage = "done" <=> x.stage = "done"
       /\ Pos(q, x, iter[q]) \in Nat
  <2>1. y = Read(x, Payload(q, iter[q]))
    BY DEF Payload
  <2> HIDE DEF y
  <2> QED
    BY <1>2, <1>3, <1>7, <1>9, <2>1, ReadAligned
<1> HIDE DEF y
<1>11. /\ rx'[q] = y /\ wire'[r] = wire[r] - n
       /\ \A p \in Ranks \ {q} : rx'[p] = rx[p]
       /\ \A p \in Ranks \ {r} : wire'[p] = wire[p]
  BY <1>1, <1>2, <1>3, <1>4, <1>8 DEF Types
<1>12. Types'
  <2>1. wire[r] - n \in Nat
    BY <1>6
  <2>2. wire' \in [Ranks -> Nat]
    BY <1>1, <1>4, <2>1 DEF Types
  <2>3. rx' \in [Ranks -> Receives]
    BY <1>3, <1>8, <1>10
  <2> QED
    BY <1>1, <1>5, <2>2, <2>3 DEF Types
<1>13. StageInv'
  <2> SUFFICES ASSUME NEW p \in Ranks
               PROVE  /\ StageOK(rx'[p], iter'[p], PartitionSize(ReceivePartition(p, iter'[p])))
                      /\ iter'[p] = -1 => sendLeft'[p] = 0
    BY DEF StageInv
  <2>1. StageOK(rx[p], iter[p], PartitionSize(ReceivePartition(p, iter[p]))) /\ (iter[p] = -1 => sendLeft[p] = 0)
    BY <1>1 DEF StageInv
  <2>2. CASE p = q
    BY <1>5, <1>10, <1>11, <2>1, <2>2 DEF Payload
  <2>3. CASE p # q
    BY <1>5, <1>11, <2>1, <2>3
  <2> QED
    BY <2>2, <2>3
<1>14. MailInv'
  BY <1>1, <1>5 DEF MailInv
<1>15. DataInv'
  <2> SUFFICES ASSUME NEW p \in Ranks, NEW k \in Ranks
               PROVE  data'[p][k] = Holds(p, Completed(rx'[p], iter'[p]), k)
    BY DEF DataInv
  <2>1. Completed(rx'[p], iter'[p]) = Completed(rx[p], iter[p])
    <3>1. CASE p = q
      BY <1>5, <1>7, <1>10, <1>11, <3>1 DEF Completed
    <3>2. CASE p # q
      BY <1>5, <1>11, <3>2
    <3> QED
      BY <3>1, <3>2
  <2> QED
    BY <1>1, <1>5, <2>1 DEF DataInv
<1>16. Aligned'
  <2> SUFFICES ASSUME NEW p \in Ranks
               PROVE  Eq(p, rx'[p], iter'[p], wire'[ReceiveTarget(p)], sendLeft'[ReceiveTarget(p)], iter'[ReceiveTarget(p)])
    BY DEF Aligned
  <2>1. Eq(p, rx[p], iter[p], wire[ReceiveTarget(p)], sendLeft[ReceiveTarget(p)], iter[ReceiveTarget(p)])
    BY <1>1 DEF Aligned
  <2>2. CASE p = q
    <3>1. Pos(q, rx[q], iter[q]) + rx[q].avail + wire[r] + sendLeft[r] = Bytes(r, iter[r] + 1)
      BY <1>2, <2>1, <2>2 DEF Eq
    <3>2. sendLeft[r] \in Nat /\ y.avail \in Nat
      BY <1>1, <1>10 DEF Types, Receives
    <3>3. Pos(q, y, iter[q]) \in Nat
      <4>1. x.avail \in Nat /\ StageOK(y, iter[q], Payload(q, iter[q])) /\ y \in Receives
        BY <1>7, <1>10 DEF Receives
      <4> QED
        BY <1>2, <1>3, <4>1, ReadAligned
    <3>4. Pos(q, y, iter[q]) + y.avail + (wire[r] - n) + sendLeft[r] = Bytes(r, iter[r] + 1)
      BY <1>6, <1>7, <1>9, <1>10, <3>1, <3>2, <3>3
    <3> QED
      BY <1>2, <1>5, <1>11, <2>2, <3>4 DEF Eq
  <2>3. CASE p # q
    <3>1. ReceiveTarget(p) \in Ranks \ {r}
      BY <1>2, <2>3, TargetProps
    <3> QED
      BY <1>5, <1>11, <2>1, <2>3, <3>1
  <2> QED
    BY <2>2, <2>3
<1> QED
  BY <1>12, <1>13, <1>14, <1>15, <1>16, AlignedNext DEF IInv

LEMMA NextIInv == NonEmpty /\ IInv /\ [Next]_vars => IInv'
<1> SUFFICES ASSUME NonEmpty, IInv, [Next]_vars PROVE IInv'
  OBVIOUS
<1>1. ASSUME NEW r \in Ranks, Call(r) \/ Accept(r) \/ Arrive(r) \/ Iterate(r) PROVE IInv'
  BY <1>1, CallIInv, AcceptIInv, ArriveIInv, IterateIInv
<1>2. ASSUME UNCHANGED vars PROVE IInv'
  <2>1. UNCHANGED <<iter, sendLeft, wire, rx, data, mail>> /\ Types /\ StageInv /\ MailInv /\ DataInv /\ Aligned
    BY <1>2, AlignedForm DEF vars, IInv
  <2>2. Types' /\ StageInv' /\ MailInv' /\ DataInv'
    BY <2>1 DEF Types, StageInv, MailInv, DataInv
  <2>3. Aligned'
    BY <2>1 DEF Aligned
  <2> QED
    BY <2>2, <2>3, AlignedNext DEF IInv
<1> QED
  BY <1>1, <1>2 DEF Next, Terminated

LEMMA Invariance == NonEmpty /\ Spec => []IInv
<1>1. NonEmpty /\ Init => IInv
  BY InitIInv
<1>2. NonEmpty /\ IInv /\ [Next]_vars => IInv'
  BY NextIInv
<1>3. NonEmpty => []NonEmpty
  <2>1. NonEmpty => NonEmpty'
    BY DEF NonEmpty
  <2> QED
    BY <2>1, PTL
<1> QED
  BY <1>1, <1>2, <1>3, PTL DEF Spec
-----------------------------------------------------------------------------
(* The theorems.                                                           *)

\* If no partition is empty, no receive of any rank ever takes bytes that are not there, and all
\* counters stay natural numbers (coroutine-socket.cpp 216-281, mpi-communicator.h 386-426).
THEOREM TypeCorrect == NonEmpty /\ Spec => []TypeOK
<1>1. IInv => TypeOK
  BY DEF IInv, Types, TypeOK, Receives, Stages
<1> QED
  BY <1>1, Invariance, PTL

\* If no partition is empty, the receives of all ranks stay aligned with the messages in the
\* streams, however the streams are fragmented and the ranks drift apart
\* (mpi-communicator.h 400-425).
THEOREM StreamsAreAligned == NonEmpty /\ Spec => []StreamAligned
<1>1. IInv => StreamAligned
  BY DEF IInv
<1> QED
  BY <1>1, Invariance, PTL

\* If no partition is empty, every rank that returns from RingAllReduce has the contributions of
\* all ranks to all partitions, for every number of ranks (mpi-communicator.h 397-425).
THEOREM ReturnsReduced == NonEmpty /\ Spec => []AllReduced
<1>1. IInv => AllReduced
  <2> SUFFICES ASSUME IInv, NEW r \in Ranks, rx[r].stage = "done", NEW k \in Ranks PROVE data[r][k] = Ranks
    BY DEF AllReduced
  <2>1. Completed(rx[r], iter[r]) = 2 * Half
    BY DEF Completed
  <2> QED
    BY <2>1, HoldsAll DEF IInv, DataInv
<1> QED
  BY <1>1, Invariance, PTL
=============================================================================
