------------------------------ MODULE MpiBarrier ------------------------------
(***************************************************************************)
(* MPICommunicator::Barrier, called again and again by every rank, and the *)
(* completion function with which MoeJITApplicationHelper::Install ends    *)
(* the program of each rank: a last barrier, Finalize, StopApplication,    *)
(* and Simulator::Stop on rank 0.                                          *)
(*                                                                         *)
(* Barrier starts a Gather to every rank before it awaits any of them.  So *)
(* on entry a rank sends one token on each of its sockets and posts one    *)
(* receive on each.  Tokens carry nothing that tells one barrier from the  *)
(* next.  A send is over when the token is in the TCP buffer; if there is  *)
(* no room it waits in pendingSend.  The loopback socket of a rank hands   *)
(* its token over at once.                                                 *)
(***************************************************************************)
EXTENDS Naturals

CONSTANTS
  Ranks,      \* numbers: a rank connects to the ranks above it
  Root,       \* rank 0, which stops the simulator
  LastRound   \* number of barriers of a program, the completion barrier included

ASSUME RanksAssumption == Ranks \subseteq Nat
ASSUME RootAssumption == Root \in Ranks
ASSUME RoundAssumption == LastRound \in Nat \ {0}

VARIABLES
  entered,  \* entered[r]: barriers rank r has entered
  left,     \* left[r]: barriers rank r has left
  unsent,   \* unsent[r]: the ranks whose socket at r has a pending send
  flying,   \* flying[q][r]: tokens from q to r in TCP
  arrived,  \* arrived[q][r]: tokens from q that r could read but has not
  got,      \* got[r]: the ranks whose token r has read in its current barrier
  closed,   \* the ranks that have run Finalize and StopApplication
  shut,     \* shut[r]: the peers whose close rank r has seen (onClose)
  failed,   \* the ranks whose Barrier has thrown
  stopped   \* Simulator::Stop has been called

netVars == <<unsent, flying, arrived>>
endVars == <<closed, stopped>>
vars == <<entered, left, netVars, got, endVars, shut, failed>>

Peers(r) == Ranks \ {r}
InBarrier(r) == left[r] < entered[r]

\* Nothing happens after Simulator::Stop, nor in a rank whose run() has thrown.
Alive(r) == ~stopped /\ r \notin failed
-----------------------------------------------------------------------------
Init ==
  /\ entered = [r \in Ranks |-> 0]
  /\ left = [r \in Ranks |-> 0]
  /\ unsent = [r \in Ranks |-> {}]
  /\ flying = [q \in Ranks |-> [r \in Ranks |-> 0]]
  /\ arrived = [q \in Ranks |-> [r \in Ranks |-> 0]]
  /\ got = [r \in Ranks |-> {}]
  /\ closed = {}
  /\ shut = [r \in Ranks |-> {}]
  /\ failed = {}
  /\ stopped = FALSE

\* Faulty variant: a receive is over before its token is there.
ReadAtOnceAll(r) == Peers(r)

\* The peers whose token a receive that rank r posts finds in the socket.
ReadAtOnce(r) == {q \in Peers(r) : arrived[q][r] > 0}

\* Barrier starts all sends, those to the ranks in full being left pending, and
\* all receives, which read the tokens that are already there.  A send or a
\* receive on a socket the peer has closed throws.
Enter(r) ==
  /\ Alive(r)
  /\ ~InBarrier(r)
  /\ entered[r] < LastRound
  /\ entered' = [entered EXCEPT ![r] = @ + 1]
  /\ \E full \in SUBSET Peers(r) :
       /\ unsent' = [unsent EXCEPT ![r] = full]
       /\ flying' = [flying EXCEPT ![r] =
            [q \in Ranks |-> IF q \in Peers(r) \ full THEN flying[r][q] + 1 ELSE flying[r][q]]]
  /\ got' = [got EXCEPT ![r] = {r} \cup ReadAtOnce(r)]
  /\ arrived' = [q \in Ranks |->
       IF q \in ReadAtOnce(r) THEN [arrived[q] EXCEPT ![r] = @ - 1] ELSE arrived[q]]
  /\ failed' = failed \cup {x \in {r} : shut[r] # {}}
  /\ UNCHANGED <<left, endVars, shut>>

\* Faulty variant: the send to a peer waits for the receives.
SendResumesLate(r, q) ==
  /\ Alive(r)
  /\ q \in unsent[r]
  /\ got[r] = Ranks
  /\ unsent' = [unsent EXCEPT ![r] = @ \ {q}]
  /\ flying' = [flying EXCEPT ![r][q] = @ + 1]
  /\ UNCHANGED <<entered, left, arrived, got, endVars, shut, failed>>

\* onSend: there is room in the TCP buffer for the pending token.
SendResumes(r, q) ==
  /\ Alive(r)
  /\ q \in unsent[r]
  /\ unsent' = [unsent EXCEPT ![r] = @ \ {q}]
  /\ flying' = [flying EXCEPT ![r][q] = @ + 1]
  /\ UNCHANGED <<entered, left, arrived, got, endVars, shut, failed>>

\* A receive from q is pending at rank r.
Takes(r, q) == InBarrier(r) /\ q \notin got[r]

\* onReceive: a token from q arrives at r, where a pending receive reads it.
Deliver(q, r) ==
  /\ Alive(r)
  /\ flying[q][r] > 0
  /\ flying' = [flying EXCEPT ![q][r] = @ - 1]
  /\ \/ /\ Takes(r, q)
        /\ got' = [got EXCEPT ![r] = @ \cup {q}]
        /\ UNCHANGED arrived
     \/ /\ ~Takes(r, q)
        /\ arrived' = [arrived EXCEPT ![q][r] = @ + 1]
        /\ UNCHANGED got
  /\ UNCHANGED <<entered, left, unsent, endVars, shut, failed>>

\* Faulty variant: the Gather to the own rank is not awaited.
CanLeaveSent(r) == unsent[r] = {}

\* Faulty variant: the sends are not awaited.
CanLeaveReceived(r) == got[r] = Ranks

\* Every Gather of the barrier is complete: the own one has read all tokens,
\* each of the others has sent its token.
CanLeave(r) == got[r] = Ranks /\ unsent[r] = {}

\* Barrier returns and the program goes on.
Leave(r) ==
  /\ Alive(r)
  /\ InBarrier(r)
  /\ entered[r] < LastRound
  /\ CanLeave(r)
  /\ left' = [left EXCEPT ![r] = @ + 1]
  /\ got' = [got EXCEPT ![r] = {}]
  /\ UNCHANGED <<entered, netVars, endVars, shut, failed>>

\* The completion barrier returns: Finalize, StopApplication, and, on rank 0,
\* Simulator::Stop, without a delay.
Complete(r) ==
  /\ Alive(r)
  /\ InBarrier(r)
  /\ entered[r] = LastRound
  /\ CanLeave(r)
  /\ left' = [left EXCEPT ![r] = @ + 1]
  /\ got' = [got EXCEPT ![r] = {}]
  /\ closed' = closed \cup {r}
  /\ stopped' = (r = Root)
  /\ UNCHANGED <<entered, netVars, shut, failed>>

\* Rank r waits in Barrier for an operation on its socket to q.
WaitsOn(r, q) == InBarrier(r) /\ (q \in unsent[r] \/ q \notin got[r])

\* Finalize closes the sockets with which q connected to the ranks above it; an
\* accepted socket is neither connected nor listening, and its close() does nothing.
Closes(q, r) == q \in closed /\ q < r

\* onClose: rank r sees that q has closed, after the data q had sent.  The
\* operations pending on that socket end with an error, and Barrier throws.
PeerCloses(q, r) ==
  /\ Alive(r)
  /\ Closes(q, r)
  /\ q \notin shut[r]
  /\ flying[q][r] = 0
  /\ shut' = [shut EXCEPT ![r] = @ \cup {q}]
  /\ failed' = failed \cup {x \in {r} : WaitsOn(r, q)}
  /\ UNCHANGED <<entered, left, netVars, got, endVars>>

Next ==
  \E r \in Ranks :
    \/ Enter(r)
    \/ Leave(r)
    \/ Complete(r)
    \/ \E q \in Ranks : SendResumes(r, q) \/ Deliver(q, r) \/ PeerCloses(q, r)

Spec == Init /\ [][Next]_vars
FairSpec == Spec /\ WF_vars(Next)
-----------------------------------------------------------------------------
(* Properties.                                                             *)

\* Type invariant.
TypeOK ==
  /\ entered \in [Ranks -> 0 .. LastRound]
  /\ left \in [Ranks -> 0 .. LastRound]
  /\ unsent \in [Ranks -> SUBSET Ranks]
  /\ flying \in [Ranks -> [Ranks -> Nat]]
  /\ arrived \in [Ranks -> [Ranks -> Nat]]
  /\ got \in [Ranks -> SUBSET Ranks]
  /\ closed \subseteq Ranks
  /\ shut \in [Ranks -> SUBSET Ranks]
  /\ failed \subseteq Ranks
  /\ stopped \in BOOLEAN

B == INSTANCE Barrier WITH Ranks <- Ranks, entered <- entered, left <- left

\* Barrier (mpi-communicator.cpp 136-145) implements the abstract barrier: however
\* tokens of consecutive barriers overlap on the sockets, nobody leaves its k-th
\* barrier before everybody has entered theirs.
BarrierSpec == B!Spec

\* Closing the sockets right after the completion barrier (moe-jit.h 498-500)
\* never makes a barrier throw in a rank that is still waiting in it, since each
\* rank has sent its tokens before it closes (coroutine-socket.cpp 85-102).
NoneFails == failed = {}

\* Every program ends: rank 0 leaves the completion barrier and stops the
\* simulator, in whatever order the sends find room and the ranks arrive.
ProgramEnds == <>stopped

\* Stated by the comment "Provide a 1us grace period for other ranks to cleanly
\* print their remaining functions: 0 logs at this exact tick" (moe-jit.h 503):
\* every rank has finished its program when the simulator stops.
GracefulStop == stopped => closed = Ranks
=============================================================================
