----------------------------- MODULE RingAllReduce -----------------------------
(***************************************************************************)
(* MPICommunicator::RingAllReduce over the byte streams of CoroutineSocket *)
(* (mpi-communicator.h, mpi-protocol.h, coroutine-socket.cpp).             *)
(*                                                                         *)
(* The data is cut into GroupSize partitions.  In each of 2(GroupSize - 1) *)
(* iterations a rank sends one partition to its predecessor in the ring    *)
(* and receives one from its successor: in the first half it adds up       *)
(* partial sums, in the second it collects the results.  A message is a    *)
(* header (the count) and the payload; nothing in the stream separates     *)
(* messages, a receive just takes the number of bytes it was asked for,    *)
(* and when asked for 0 bytes it takes all there are.                      *)
(*                                                                         *)
(* The program simulates traffic, so payloads have no content.  data and   *)
(* mail record which contributions a partition would hold.                 *)
(***************************************************************************)
EXTENDS Integers, Sequences, FiniteSetsExt, Functions

CONSTANTS
  GroupSize,  \* number of ranks
  Size,       \* size of the data, in elements of one byte
  Header      \* bytes of the count that precedes the payload

ASSUME GroupAssumption == GroupSize \in Nat /\ GroupSize >= 2
ASSUME SizeAssumption == Size \in Nat /\ Header \in Nat \ {0}

Ranks == 0 .. (GroupSize - 1)
Half == GroupSize - 1
Iterations == 0 .. (2 * Half - 1)

VARIABLES
  iter,      \* iter[r]: the iteration of rank r, -1 before the call
  sendLeft,  \* sendLeft[r]: bytes of its message TCP has not accepted yet
  wire,      \* wire[r]: bytes from r on their way to its predecessor
  rx,        \* rx[r]: unread bytes, stage of the receive, bytes of it read
  data,      \* data[r][k]: whose contributions partition k holds at rank r
  mail       \* mail[r]: contents of the messages r has sent, in order

vars == <<iter, sendLeft, wire, rx, data, mail>>
-----------------------------------------------------------------------------
SendTarget(r) == (r + GroupSize - 1) % GroupSize
ReceiveTarget(r) == (r + 1) % GroupSize

\* ceil(size / GroupSize), and the size of partition k.
PartitionLength == (Size + GroupSize - 1) \div GroupSize
PartitionSize(k) == Min({PartitionLength, Size - PartitionLength * k})

\* Faulty variant: the all-gather half starts with the partition received first.
SendPartitionShifted(r, i) == (r + (IF i < Half THEN i ELSE i - Half)) % GroupSize

\* The partitions of iteration i, counted through both halves.
SendPartition(r, i) ==
  (r + (IF i < Half THEN i ELSE i - Half + GroupSize - 1)) % GroupSize

\* Faulty variant: the partition that is sent is also expected.
ReceivePartitionSame(r, i) == SendPartition(r, i)

ReceivePartition(r, i) ==
  (r + (IF i < Half THEN i + 1 ELSE i - Half)) % GroupSize

MessageSize(r, i) == Header + PartitionSize(SendPartition(r, i))
-----------------------------------------------------------------------------
(* The receive of one message: the count, then the payload of n bytes.     *)

ReadHeader(x) ==
  LET t == Min({x.avail, Header - x.part}) IN
  IF x.part + t = Header
  THEN [avail |-> x.avail - t, stage |-> "payload", part |-> 0]
  ELSE [x EXCEPT !.avail = @ - t, !.part = @ + t]

\* Faulty variant: takes the bytes it needs whether they are there or not.
ReadPayloadBlindly(x, n) ==
  IF x.avail > 0 THEN [avail |-> x.avail - n, stage |-> "read", part |-> 0] ELSE x

\* A receive waits while nothing is there, also a receive of 0 bytes.
ReadPayload(x, n) ==
  LET t == IF n = 0 THEN x.avail ELSE Min({x.avail, n - x.part}) IN
  IF x.avail > 0 /\ x.part + t >= n
  THEN [avail |-> x.avail - t, stage |-> "read", part |-> 0]
  ELSE [x EXCEPT !.avail = @ - t, !.part = @ + t]

Read(x, n) ==
  LET h == IF x.stage = "header" THEN ReadHeader(x) ELSE x
  IN IF h.stage = "payload" THEN ReadPayload(h, n) ELSE h
-----------------------------------------------------------------------------
Init ==
  /\ iter = [r \in Ranks |-> -1]
  /\ sendLeft = [r \in Ranks |-> 0]
  /\ wire = [r \in Ranks |-> 0]
  /\ rx = [r \in Ranks |-> [avail |-> 0, stage |-> "idle", part |-> 0]]
  /\ data = [r \in Ranks |-> [k \in Ranks |-> {r}]]
  /\ mail = [r \in Ranks |-> <<>>]

\* Rank r starts send and receive of iteration i; known is what it holds.
Begin(r, i, known) ==
  /\ iter' = [iter EXCEPT ![r] = i]
  /\ sendLeft' = [sendLeft EXCEPT ![r] = MessageSize(r, i)]
  /\ rx' = [rx EXCEPT ![r] =
       Read([@ EXCEPT !.stage = "header"], PartitionSize(ReceivePartition(r, i)))]
  /\ mail' = [mail EXCEPT ![r] = Append(@, known[SendPartition(r, i)])]

\* Rank r calls RingAllReduce; a smaller size throws.
Call(r) ==
  /\ iter[r] = -1
  /\ Size >= GroupSize
  /\ Begin(r, 0, data[r])
  /\ UNCHANGED <<wire, data>>

\* The socket accepts some bytes of the message; the rest waits in pendingSend.
Accept(r) ==
  /\ \E n \in 1 .. sendLeft[r] :
       /\ sendLeft' = [sendLeft EXCEPT ![r] = @ - n]
       /\ wire' = [wire EXCEPT ![r] = @ + n]
  /\ UNCHANGED <<iter, rx, data, mail>>

\* Some bytes from rank r arrive; onReceive resumes the pending receive, if any.
Arrive(r) ==
  LET q == SendTarget(r) IN
  /\ \E n \in 1 .. wire[r] :
       /\ wire' = [wire EXCEPT ![r] = @ - n]
       /\ rx' = [rx EXCEPT ![q] =
            Read([rx[q] EXCEPT !.avail = @ + n], PartitionSize(ReceivePartition(q, iter[q])))]
  /\ UNCHANGED <<iter, sendLeft, data, mail>>

\* The message received in iteration i of rank r.
Received(r, i) == mail[ReceiveTarget(r)][i + 1]

\* What rank r holds once it has received the message of its iteration.
Merge(r) ==
  [data[r] EXCEPT ![ReceivePartition(r, iter[r])] =
     IF iter[r] < Half THEN @ \cup Received(r, iter[r]) ELSE Received(r, iter[r])]

\* Both operations of an iteration are complete: the next one, or the end.
Iterate(r) ==
  /\ rx[r].stage = "read"
  /\ sendLeft[r] = 0
  /\ data' = [data EXCEPT ![r] = Merge(r)]
  /\ \/ /\ iter[r] + 1 \in Iterations
        /\ Begin(r, iter[r] + 1, data'[r])
     \/ /\ iter[r] + 1 \notin Iterations
        /\ rx' = [rx EXCEPT ![r].stage = "done"]
        /\ UNCHANGED <<iter, sendLeft, mail>>
  /\ UNCHANGED wire

Done == \A r \in Ranks : rx[r].stage = "done"

\* After the last rank has returned, nothing happens any more.
Terminated == Done /\ UNCHANGED vars

Next ==
  \/ \E r \in Ranks : Call(r) \/ Accept(r) \/ Arrive(r) \/ Iterate(r)
  \/ Terminated

Spec == Init /\ [][Next]_vars
FairSpec == Spec /\ WF_vars(Next)
-----------------------------------------------------------------------------
(* Properties.                                                             *)

\* Type invariant; no receive takes bytes that are not there.
TypeOK ==
  /\ iter \in [Ranks -> Iterations \cup {-1}]
  /\ sendLeft \in [Ranks -> Nat]
  /\ wire \in [Ranks -> Nat]
  /\ rx \in [Ranks -> [avail : Nat, stage : {"idle", "header", "payload", "read", "done"},
                       part : Nat]]
  /\ data \in [Ranks -> [Ranks -> SUBSET Ranks]]
  /\ \A r \in Ranks : \A j \in DOMAIN mail[r] : mail[r][j] \subseteq Ranks

\* Bytes of the first n messages of rank r.
Bytes(r, n) == SumFunctionOnSet([i \in 0 .. (n - 1) |-> MessageSize(r, i)], 0 .. (n - 1))

\* Where rank r is in the stream of its successor.
Position(r) ==
  CASE rx[r].stage = "idle" -> 0
    [] rx[r].stage = "header" -> Bytes(ReceiveTarget(r), iter[r]) + rx[r].part
    [] rx[r].stage = "payload" -> Bytes(ReceiveTarget(r), iter[r]) + Header + rx[r].part
    [] OTHER -> Bytes(ReceiveTarget(r), iter[r] + 1)

\* The receives stay aligned with the messages (mpi-communicator.h 400-425): what
\* lies between the position of a rank in the stream and the end of the stream is
\* what its successor has sent and the rank has not read, even when the
\* successor is several iterations ahead.
StreamAligned ==
  \A r \in Ranks :
    LET q == ReceiveTarget(r) IN
    Position(r) + rx[r].avail + wire[q] + sendLeft[q] = Bytes(q, iter[q] + 1)

\* When a rank returns, it has every rank's contribution to every partition
\* (mpi-communicator.h 397-425).
AllReduced ==
  \A r \in Ranks : rx[r].stage = "done" => \A k \in Ranks : data[r][k] = Ranks

\* Every rank returns from RingAllReduce, however the streams are fragmented and
\* the ranks drift apart.  For a size that is allowed but leaves a partition empty
\* this is what the guard "ring all reduce size must be no less than group size"
\* (mpi-communicator.h 391) says is enough.
RingCompletes == <>Done
=============================================================================
