------------------------------ MODULE MpiConnect ------------------------------
(***************************************************************************)
(* MPIApplication::Initialize: how the ranks of a program get a socket to  *)
(* each other.  A rank posts one accept for every rank below it and starts *)
(* one connect to every rank above it, and then awaits these operations in *)
(* rank order, the accepts first.  An operation that fails throws when it  *)
(* is awaited; that ends run() of the rank, and nobody is told.            *)
(*                                                                         *)
(* A SYN that finds no listener is answered by a RST.  The ranks are       *)
(* started by one event each: all of them at one instant, before any       *)
(* packet arrives, or, when together is FALSE, at any time.  TCP is        *)
(* reduced to its handshake; it repeats lost packets.                      *)
(***************************************************************************)
EXTENDS Naturals, FiniteSets

CONSTANT N   \* the number of ranks

ASSUME NAssumption == N \in Nat \ {0}

WorldRanks == 0 .. N - 1
Lower(r) == {q \in WorldRanks : q < r}

\* Faulty variant: a rank also connects to itself.
HigherOrSelf(r) == {q \in WorldRanks : r <= q}

Higher(r) == {q \in WorldRanks : r < q}

VARIABLES
  together,   \* all ranks start at one instant
  status,     \* status[r]: "NEW", then as MPIApplication::status, or "DEAD" if run() has thrown
  listener,   \* listener[r]: "none", "listening", "orphan" (its CoroutineSocket is gone), "closed"
  accepts,    \* accepts[r]: the length of pendingAccept of the listener
  link,       \* link[q][r]: the connection that rank q makes to rank r above it
  sockets     \* sockets[r]: the ranks r has a socket to

connectVars == <<together, status, listener, accepts, link, sockets>>

\* "syn", "synack", "ack", "rst" name the packet on its way.
Links == {"none", "syn", "synack", "ack", "open", "rst", "refused"}

ConnectInit ==
  /\ together \in BOOLEAN
  /\ status = [r \in WorldRanks |-> "NEW"]
  /\ listener = [r \in WorldRanks |-> "none"]
  /\ accepts = [r \in WorldRanks |-> 0]
  /\ link = [q \in WorldRanks |-> [r \in WorldRanks |-> "none"]]
  /\ sockets = [r \in WorldRanks |-> {}]

\* Packets travel once the ranks that start together have started: each is started by
\* an event at its start time, and a packet takes time.
PacketsTravel == together => \A r \in WorldRanks : status[r] # "NEW"
-----------------------------------------------------------------------------
\* Faulty variant: the accepts are not awaited.
OutcomeUnaccepted(pending, out) ==
  IF \E p \in DOMAIN out : out[p] \in {"syn", "synack", "rst"} THEN "INITIAL" ELSE "WORKING"

\* Where the loop over the operations of connect() stands when pending accepts are
\* open and out[p] is the connection to each rank p above: it waits for the accepts,
\* then for the connections in order, up to the first that has failed.
Outcome(pending, out) ==
  LET Open(p) == out[p] \in {"syn", "synack", "rst"}
      Failed(p) == out[p] = "refused"
      Reached(p) == \A q \in DOMAIN out : q < p => ~Open(q)
  IN  IF pending > 0 THEN "INITIAL"
      ELSE IF \E p \in DOMAIN out : Failed(p) /\ Reached(p) THEN "DEAD"
      ELSE IF \E p \in DOMAIN out : Open(p) THEN "INITIAL"
      ELSE "WORKING"

\* What the resumed connect() does to rank r, with pending accepts open and the
\* connections out: at its end it closes the listener; when it throws, the listener
\* and the sockets are destroyed, but TCP goes on listening without callbacks.
Resume(r, pending, out) ==
  LET outcome == Outcome(pending, [p \in Higher(r) |-> out[p]])
  IN  /\ status' = [status EXCEPT ![r] = outcome]
      /\ listener' = [listener EXCEPT ![r] =
           CASE Lower(r) = {} -> "none"
             [] OTHER -> [INITIAL |-> "listening", DEAD |-> "orphan", WORKING |-> "closed"][outcome]]

\* Faulty variant: one accept for every other rank.
AcceptsPostedAll(r) == N - 1

\* Faulty variant: only the first accept is posted before connections come in.
AcceptsPostedOne(r) == IF Lower(r) = {} THEN 0 ELSE 1

\* One accept for every rank below.
AcceptsPosted(r) == Cardinality(Lower(r))

\* StartApplication, run, Initialize and connect() up to the first operation it waits for.
Start(r) ==
  /\ status[r] = "NEW"
  /\ accepts' = [accepts EXCEPT ![r] = AcceptsPosted(r)]
  /\ link' = [link EXCEPT ![r] = [p \in WorldRanks |-> IF p \in Higher(r) THEN "syn" ELSE link[r][p]]]
  /\ sockets' = [sockets EXCEPT ![r] = Higher(r)]
  /\ Resume(r, accepts'[r], link'[r])
  /\ UNCHANGED together

\* TCP at r answers the SYN of q: the listening socket forks, and where there is none
\* TcpL4Protocol::NoEndPointsFound sends a RST.
SynArrives(q, r) ==
  /\ PacketsTravel
  /\ link[q][r] = "syn"
  /\ link' = [link EXCEPT ![q][r] = IF listener[r] \in {"listening", "orphan"} THEN "synack" ELSE "rst"]
  /\ UNCHANGED <<together, status, listener, accepts, sockets>>

\* onConnect at q, or onClose with an error when the connection is refused.  A rank
\* whose run() has ended has no callbacks.
ConnectEnds(q, r) ==
  /\ link[q][r] \in {"synack", "rst"}
  /\ link' = [link EXCEPT ![q][r] = IF @ = "synack" THEN "ack" ELSE "refused"]
  /\ \/ status[q] = "INITIAL" /\ Resume(q, accepts[q], link'[q])
     \/ status[q] # "INITIAL" /\ UNCHANGED <<status, listener>>
  /\ UNCHANGED <<together, accepts, sockets>>

\* onAccept at r: the first pending accept ends with the socket to q.  onAccept throws
\* when there is none; a rank whose run() has ended had accepted all ranks below it.
Accept(q, r) ==
  /\ link[q][r] = "ack"
  /\ listener[r] = "listening"
  /\ accepts[r] > 0
  /\ link' = [link EXCEPT ![q][r] = "open"]
  /\ accepts' = [accepts EXCEPT ![r] = @ - 1]
  /\ sockets' = [sockets EXCEPT ![r] = @ \cup {q}]
  /\ Resume(r, accepts'[r], link[r])
  /\ UNCHANGED together

Packet(q, r) == SynArrives(q, r) \/ ConnectEnds(q, r) \/ Accept(q, r)

ConnectNext ==
  \/ \E r \in WorldRanks : Start(r)
  \/ \E q, r \in WorldRanks : Packet(q, r)

ConnectSpec == ConnectInit /\ [][ConnectNext]_connectVars

\* Every rank is started, and TCP gets its packets through.
FairConnect == ConnectSpec /\ WF_connectVars(ConnectNext)
-----------------------------------------------------------------------------
(* Properties.                                                             *)

\* Type invariant.
ConnectTypeOK ==
  /\ together \in BOOLEAN
  /\ status \in [WorldRanks -> {"NEW", "INITIAL", "WORKING", "DEAD"}]
  /\ listener \in [WorldRanks -> {"none", "listening", "orphan", "closed"}]
  /\ accepts \in [WorldRanks -> 0 .. N - 1]
  /\ link \in [WorldRanks -> [WorldRanks -> Links]]
  /\ \A r \in WorldRanks : sockets[r] \subseteq WorldRanks \ {r}

\* Every connection that reaches a listener finds a pending accept, so that onAccept
\* (coroutine-socket.cpp 53-59) never throws into the simulator's event loop, also
\* when the ranks below start late or are refused elsewhere.
NoSurplusAccept ==
  \A q, r \in WorldRanks :
    link[q][r] \in {"synack", "ack"} /\ listener[r] = "listening" => accepts[r] > 0

\* A rank that is WORKING has one socket to each of its peers (the assertion of
\* Initialize, mpi-application.cpp 202), each of them connected: its connects and
\* the accepts of its peers have met although both sides await them in their own order.
PeersComplete ==
  \A r \in WorldRanks : status[r] = "WORKING" =>
    /\ sockets[r] = WorldRanks \ {r}
    /\ \A q \in Lower(r) : link[q][r] = "open"
    /\ \A q \in Higher(r) : link[r][q] \in {"ack", "open"}

\* WorldRanks that start at one instant all get through Initialize: every rank listens
\* before the first SYN can arrive, and nobody waits for a rank that waits for it
\* (mpi-application.cpp 140-186).
AllInitialized == together ~> \A r \in WorldRanks : status[r] = "WORKING"
=============================================================================
