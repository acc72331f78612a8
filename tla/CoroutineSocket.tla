---------------------------- MODULE CoroutineSocket ----------------------------
(***************************************************************************)
(* One direction of a stream between two CoroutineSockets, or of a         *)
(* loopback CoroutineSocket, used by several coroutines at once            *)
(* (coroutine-socket.cpp).                                                 *)
(*                                                                         *)
(* send and receive first try the operation; if it cannot be completed     *)
(* they push it on pendingSend or pendingReceive.  onSend and onReceive    *)
(* resume the pending operations from the front until one does not         *)
(* complete.  A completed operation resumes the coroutine that awaits it,  *)
(* inside that loop: it removes the front of the queue and goes on with    *)
(* the caller's program, which may call the next operation at once.  TCP   *)
(* runs the loops when it has room or data; on the loopback socket each    *)
(* transfer schedules the loop of the other side as an event.              *)
(*                                                                         *)
(* The loops are range-based for loops over a std::deque that is pushed to *)
(* and popped from meanwhile, which the C++ standard leaves undefined.     *)
(* The model follows libstdc++, where the end of the loop is fixed at its  *)
(* start and an iterator survives as long as the queue is shorter than a   *)
(* block of the deque (512 bytes, dozens of operations).                   *)
(***************************************************************************)
EXTENDS Naturals, SequencesExt, FiniteSetsExt

CONSTANTS
  Callers,     \* the coroutines that use the socket
  None,        \* no coroutine
  Side,        \* Side[c]: "send" or "receive"
  Program,     \* Program[c]: the sizes of the operations c performs in turn
  BufferSize,  \* TCP's send buffer, or cacheLimit
  MaxBlocks    \* bound on the number of calls of block()

Sides == {"send", "receive"}

ASSUME SideAssumption == Side \in [Callers -> Sides]
ASSUME ProgramAssumption == \A c \in Callers : Program[c] \in Seq(Nat) /\ Program[c] # <<>>
ASSUME BufferAssumption == BufferSize \in Nat \ {0}
ASSUME CallersAssumption == None \notin Callers
ASSUME BlocksAssumption == MaxBlocks \in Nat

VARIABLES
  loopback,   \* there is no ns-3 socket
  queue,      \* queue["send"], queue["receive"]: whose operations are pending
  left,       \* left[c]: the bytes the pending operation of c has still to move
  done,       \* done[c]: how many operations of c are over
  failed,     \* the callers whose operation ended with an error
  moved,      \* moved[s]: for each byte moved, the caller and its operation
  delivered,  \* bytes that have reached the receiver's TCP
  acked,      \* bytes that have left the sender's TCP buffer
  blocked,    \* blocked[s]: the socket on side s is blocked
  blocks,     \* number of calls of block() so far
  closeOnEmpty, \* close() was called: the sender's TCP closes when its data is out
  refuses,    \* the sender's TCP has sent its FIN and takes no more data
  closed,     \* closed[s]: the socket on side s has seen onClose
  wakes,      \* wakes[s]: scheduled calls of onSend, onReceive (loopback)
  loop,       \* the loop of onSend, onReceive or onClose that is running
  turn,       \* the coroutine that a completed operation has resumed
  calls       \* calls[s]: the callers in the order of their first operation

netVars == <<delivered, acked, closeOnEmpty, refuses>>
flowVars == <<blocked, blocks, closed>>
opVars == <<queue, left, done, failed, moved, wakes, turn>>
vars == <<loopback, opVars, netVars, flowVars, loop, calls>>

Other(s) == IF s = "send" THEN "receive" ELSE "send"

\* No loop is running: the simulator may execute the next event.
Idle == loop.left = 0 /\ ~loop.again /\ turn = None

\* A loop over the queue of side s; its end is fixed at its start.
Loop(s) == [side |-> s, left |-> Len(queue[s]), closing |-> FALSE, again |-> FALSE]
-----------------------------------------------------------------------------
(* The condition of an operation.                                          *)

\* Bytes that can be sent, or received, now.
Room(s) ==
  CASE s = "send" -> BufferSize - (Len(moved["send"]) - (IF loopback THEN Len(moved["receive"]) ELSE acked))
    [] s = "receive" -> (IF loopback THEN Len(moved["send"]) ELSE delivered) - Len(moved["receive"])

OpSize(c) == Program[c][done[c] + 1]

\* The socket does not let the operation begin to move bytes.
Waits(s) == ~closed[s] /\ (blocked[s] \/ Room(s) = 0)

\* The operation ends without moving bytes.
Errs(s) == closed[s] \/ (s = "send" /\ refuses /\ ~Waits(s))

\* Faulty variant: a receive ends with the bytes that are there.
CompletesShort(c, l) == ~Waits(Side[c])

\* The condition holds for the operation of c that has l bytes to go.
Completes(c, l) ==
  /\ ~Waits(Side[c])
  /\ Errs(Side[c]) \/ l <= Room(Side[c])

\* Faulty variant: moves all its bytes if it moves any.
AmountBlindly(c, l) == IF Waits(Side[c]) \/ Errs(Side[c]) THEN 0 ELSE l

\* The bytes it moves.  A receive of 0 bytes takes all there are.
Amount(c, l) ==
  CASE Waits(Side[c]) \/ Errs(Side[c]) -> 0
    [] ~Waits(Side[c]) /\ ~Errs(Side[c]) ->
         IF Side[c] = "receive" /\ OpSize(c) = 0
         THEN Room("receive")
         ELSE Min({l, Room(Side[c])})

\* The operation of c, with l bytes to go, runs its condition.  If it is over its
\* caller goes on, with its next operation or with the exception.
RunOperation(c, l) ==
  LET s == Side[c]
      n == Amount(c, l)
  IN /\ moved' = [moved EXCEPT ![s] = @ \o [i \in 1 .. n |-> <<c, done[c] + 1>>]]
     /\ left' = [left EXCEPT ![c] = IF Completes(c, l) THEN 0 ELSE l - n]
     /\ wakes' = IF loopback /\ ~Waits(s) THEN [wakes EXCEPT ![Other(s)] = @ + 1] ELSE wakes
     /\ IF Completes(c, l)
        THEN /\ done' = [done EXCEPT ![c] = IF Errs(s) THEN @ ELSE @ + 1]
             /\ failed' = failed \cup {x \in {c} : Errs(s)}
             /\ turn' = IF Errs(s) \/ done[c] + 1 = Len(Program[c]) THEN None ELSE c
        ELSE /\ turn' = None
             /\ UNCHANGED <<done, failed>>
-----------------------------------------------------------------------------
Init ==
  /\ loopback \in BOOLEAN
  /\ queue = [s \in Sides |-> <<>>]
  /\ left = [c \in Callers |-> 0]
  /\ done = [c \in Callers |-> 0]
  /\ failed = {}
  /\ moved = [s \in Sides |-> <<>>]
  /\ delivered = 0
  /\ acked = 0
  /\ blocked = [s \in Sides |-> FALSE]
  /\ blocks = 0
  /\ closeOnEmpty = FALSE
  /\ refuses = FALSE
  /\ closed = [s \in Sides |-> FALSE]
  /\ wakes = [s \in Sides |-> 0]
  /\ loop = [side |-> "send", left |-> 0, closing |-> FALSE, again |-> FALSE]
  /\ turn = None
  /\ calls = [s \in Sides |-> <<>>]

\* Faulty variant: a new operation is queued before the others.
QueueAfterFront(c) ==
  IF Completes(c, OpSize(c)) THEN queue ELSE [queue EXCEPT ![Side[c]] = <<c>> \o @]

QueueAfter(c) ==
  IF Completes(c, OpSize(c)) THEN queue ELSE [queue EXCEPT ![Side[c]] = Append(@, c)]

\* c calls send or receive: its first operation at any time, the others as soon
\* as the one before is over.
Call(c) ==
  /\ turn = c \/ (Idle /\ ~Contains(calls[Side[c]], c))
  /\ RunOperation(c, OpSize(c))
  /\ queue' = QueueAfter(c)
  /\ calls' = IF turn = c THEN calls ELSE [calls EXCEPT ![Side[c]] = Append(@, c)]
  /\ UNCHANGED <<loopback, netVars, flowVars, loop>>

\* Faulty variant: pop_back.
PoppedBack(s) == [queue EXCEPT ![s] = SubSeq(@, 1, Len(@) - 1)]

\* The coroutine of a completed operation removes the front of the queue.
Popped(s) == [queue EXCEPT ![s] = Tail(@)]

\* The loop ends at an operation that does not complete.  onClose calls terminate,
\* which resumes the operation until it completes.
Break == IF loop.closing THEN loop ELSE [loop EXCEPT !.left = 0]

\* The loop resumes the operation at its iterator.  If it completes, the front is
\* removed and the iterator moves on, so that it stands on the front again.
Visit ==
  /\ turn = None
  /\ loop.left > 0
  /\ LET s == loop.side
         c == Head(queue[s])
     IN /\ RunOperation(c, left[c])
        /\ IF Completes(c, left[c])
           THEN /\ queue' = Popped(s)
                /\ loop' = [loop EXCEPT !.left = @ - 1]
           ELSE /\ loop' = Break
                /\ UNCHANGED queue
  /\ UNCHANGED <<loopback, netVars, flowVars, calls>>

\* unblock() of the loopback socket goes on with onReceive.
VisitAgain ==
  /\ turn = None
  /\ loop.left = 0
  /\ loop.again
  /\ loop' = Loop("receive")
  /\ UNCHANGED <<loopback, opVars, netVars, flowVars, calls>>

\* TCP frees buffer space and calls onSend.
Ack ==
  /\ Idle
  /\ acked' \in (acked + 1) .. delivered
  /\ loop' = Loop("send")
  /\ UNCHANGED <<loopback, opVars, flowVars, delivered, closeOnEmpty, refuses, calls>>

\* Data arrives and TCP calls onReceive.
Deliver ==
  /\ Idle
  /\ ~closed["receive"]
  /\ ~loopback
  /\ delivered' \in (delivered + 1) .. Len(moved["send"])
  /\ loop' = Loop("receive")
  /\ UNCHANGED <<loopback, opVars, flowVars, acked, closeOnEmpty, refuses, calls>>

\* The loop that a transfer on the loopback socket has scheduled.
Wake(s) ==
  /\ Idle
  /\ wakes[s] > 0
  /\ wakes' = [wakes EXCEPT ![s] = @ - 1]
  /\ loop' = Loop(s)
  /\ UNCHANGED <<loopback, queue, left, done, failed, moved, turn, netVars, flowVars, calls>>

\* The sides of the socket that side s belongs to.
SocketOf(s) == IF loopback THEN Sides ELSE {s}

Block(s) ==
  /\ Idle
  /\ ~blocked[s]
  /\ blocks < MaxBlocks
  /\ blocks' = blocks + 1
  /\ blocked' = [x \in Sides |-> x \in SocketOf(s) \/ blocked[x]]
  /\ UNCHANGED <<loopback, opVars, netVars, closed, loop, calls>>

\* Faulty variant: unblock does not resume what is pending.
UnblockLoopNone(s) == loop

UnblockLoop(s) ==
  IF loopback THEN [Loop("send") EXCEPT !.again = TRUE] ELSE Loop(s)

Unblock(s) ==
  /\ Idle
  /\ blocked[s]
  /\ blocked' = [x \in Sides |-> x \notin SocketOf(s) /\ blocked[x]]
  /\ loop' = UnblockLoop(s)
  /\ UNCHANGED <<loopback, opVars, netVars, blocks, closed, calls>>

\* close() on the sending socket.  TCP sends its FIN at once only if no data is left
\* to be transmitted; how much of what has not arrived is transmitted is left open.
Close ==
  /\ Idle
  /\ ~loopback
  /\ ~closeOnEmpty
  /\ ~closed["send"]
  /\ closeOnEmpty' = TRUE
  /\ \/ refuses' = TRUE
     \/ delivered < Len(moved["send"]) /\ UNCHANGED refuses
  /\ UNCHANGED <<loopback, opVars, flowVars, delivered, acked, loop, calls>>

\* The FIN goes out with the last data; until then TCP has accepted more.
Fin ==
  /\ Idle
  /\ closeOnEmpty
  /\ ~refuses
  /\ refuses' = TRUE
  /\ UNCHANGED <<loopback, opVars, flowVars, delivered, acked, closeOnEmpty, loop, calls>>

\* Faulty variant: the pending operations are ended before closed is set.
OnCloseLate(s) ==
  /\ Idle
  /\ ~loopback
  /\ ~closed[s]
  /\ loop' = [Loop(s) EXCEPT !.closing = TRUE]
  /\ closed' = [closed EXCEPT ![s] = queue[s] = <<>>]
  /\ UNCHANGED <<loopback, opVars, netVars, blocked, blocks, calls>>

\* The connection is closed or reset: onClose ends the pending operations.
OnClose(s) ==
  /\ Idle
  /\ ~loopback
  /\ ~closed[s]
  /\ closed' = [closed EXCEPT ![s] = TRUE]
  /\ loop' = [Loop(s) EXCEPT !.closing = TRUE]
  /\ UNCHANGED <<loopback, opVars, netVars, blocked, blocks, calls>>

\* The FIN reaches the receiver behind all data.
FinArrives == refuses /\ delivered = Len(moved["send"]) /\ OnClose("receive")

\* Data for a socket that has been closed is answered by a reset.
Reset == closed["receive"] /\ delivered < Len(moved["send"]) /\ OnClose("send")

\* What happens by itself: callers, loops, TCP and events.  A blocked socket is
\* unblocked some time.  Nobody closes in answer to a close: close() does nothing on
\* an accepted socket, nor on one that has seen onClose.
Progress ==
  \/ \E c \in Callers : Call(c)
  \/ Visit \/ VisitAgain
  \/ Ack \/ Deliver
  \/ Fin \/ FinArrives \/ Reset
  \/ \E s \in Sides : Wake(s) \/ Unblock(s)

Next == Progress \/ Close \/ \E s \in Sides : Block(s) \/ OnClose(s)

Spec == Init /\ [][Next]_vars
FairSpec == Spec /\ WF_vars(Progress)
-----------------------------------------------------------------------------
(* Properties.                                                             *)

\* Type invariant.
TypeOK ==
  /\ loopback \in BOOLEAN
  /\ queue \in [Sides -> Seq(Callers)]
  /\ left \in [Callers -> Nat]
  /\ done \in [Callers -> Nat]
  /\ failed \subseteq Callers
  /\ moved \in [Sides -> Seq(Callers \X Nat)]
  /\ acked \in 0 .. delivered
  /\ delivered \in 0 .. Len(moved["send"])
  /\ Len(moved["receive"]) <= Len(moved["send"])
  /\ blocked \in [Sides -> BOOLEAN]
  /\ blocks \in 0 .. MaxBlocks
  /\ closeOnEmpty \in BOOLEAN
  /\ refuses \in BOOLEAN
  /\ closed \in [Sides -> BOOLEAN]
  /\ wakes \in [Sides -> Nat]
  /\ loop \in [side : Sides, left : Nat, closing : BOOLEAN, again : BOOLEAN]
  /\ turn \in Callers \cup {None}
  /\ calls \in [Sides -> Seq(Callers)]

Ended(c) == c \in failed \/ done[c] = Len(Program[c])

\* Every pop_front (coroutine-socket.cpp 212, 279) removes the operation that has
\* just completed, also when its caller calls again inside the loop of onSend or
\* onReceive: between events the queues hold exactly the operations that have
\* begun and are not over, each of them once.
NoOperationLost ==
  Idle => \A s \in Sides :
    /\ IsInjective(queue[s])
    /\ ToSet(queue[s]) = {c \in Callers : Side[c] = s /\ Contains(calls[s], c) /\ ~Ended(c)}

\* No operation waits for nothing: if one is pending there is no room (no data), or
\* the socket is blocked, or a call of the loop is scheduled.  The loops stop at the
\* first operation that does not complete (69-83) and do not reach operations
\* pushed while they run.
NoLostWakeup ==
  Idle => \A s \in Sides :
    queue[s] # <<>> => Waits(s) \/ wakes[s] > 0

\* The first operations of the callers of side s that have bytes to move, and the others.
Firsts(s) == {<<c, 1>> : c \in {x \in Callers : Side[x] = s /\ Program[x][1] > 0}}
OtherOps(s) ==
  (UNION {{<<c, k>> : k \in DOMAIN Program[c]} : c \in {x \in Callers : Side[x] = s}}) \ Firsts(s)

\* What happened on a TCP socket.
FirstCalls(s) == IF loopback THEN <<>> ELSE [i \in DOMAIN calls[s] |-> <<calls[s][i], 1>>]
TcpBytes(s) == IF loopback THEN <<>> ELSE moved[s]

Sends == INSTANCE OrderedStream WITH
  Ops <- Firsts("send"),
  Others <- OtherOps("send"),
  Size <- [op \in Firsts("send") |-> Program[op[1]][1]],
  called <- FirstCalls("send"),
  bytes <- TcpBytes("send")

Receives == INSTANCE OrderedStream WITH
  Ops <- Firsts("receive"),
  Others <- OtherOps("receive"),
  Size <- [op \in Firsts("receive") |-> Program[op[1]][1]],
  called <- FirstCalls("receive"),
  bytes <- TcpBytes("receive")

\* Operations on a TCP socket that are not called from inside the completion of
\* another one move their bytes one after the other in the order of the calls
\* (send, 148-214; receive, 216-281): a new send never overtakes one in pendingSend,
\* nor a new receive one in pendingReceive, whatever is blocked, full or closed in
\* between.
StreamOrder == Sends!Spec /\ Receives!Spec

\* A receive of 0 bytes is over: it has taken whatever was there.
TookAll == \E x \in Callers : \E k \in 1 .. done[x] : Side[x] = "receive" /\ Program[x][k] = 0

\* A receive waits for bytes that nobody will send, since a send has failed or a
\* receive of 0 bytes took them.
Starved(c) ==
  /\ Side[c] = "receive"
  /\ \A x \in Callers : Side[x] = "send" => Ended(x)
  /\ Len(moved["receive"]) = Len(moved["send"])
  /\ TookAll \/ \E x \in failed : Side[x] = "send"

\* Every operation ends: it moves its bytes or, once the connection is closed, ends
\* with an error (onClose, 85-102), whatever the order of calls and completions.
\* With programs that ask for no more than is sent, a receive can be left over only
\* when all that was sent has been read, and then only because a send has failed or
\* a receive(0) (232, 255) took more than one message.
AllEnd == <>(\A c \in Callers : Ended(c) \/ Starved(c))
=============================================================================
