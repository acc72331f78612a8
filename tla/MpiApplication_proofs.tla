------------------------- MODULE MpiApplication_proofs -------------------------
(***************************************************************************)
(* Proofs about the two protocols in which all ranks of a program take     *)
(* part: the connections that MPIApplication::Initialize sets up           *)
(* (MpiConnect) and the barriers of MPICommunicator (MpiBarrier).          *)
(*                                                                         *)
(* Part 1, MpiBarrier, for every set of ranks, finite or infinite, and     *)
(* every number of barriers.  The argument counts tokens: what rank q has  *)
(* sent to rank r is what is on its way, what waits to be read, and what   *)
(* the barriers of r have read (TokenInv).                                 *)
(*                                                                         *)
(* Part 2, MpiConnect, for every number of ranks, whether they start       *)
(* together or not.  A rank that has started has as many pending accepts   *)
(* as there are ranks below it whose connection is not open yet, and a     *)
(* socket to each of the others (AcceptInv); that every connection finds   *)
(* a pending accept, and that a rank which is through connect() has all    *)
(* its sockets, follows from that count.                                   *)
(***************************************************************************)
EXTENDS MpiBarrier, MpiConnect, FiniteSetTheorems, TLAPS
-----------------------------------------------------------------------------
(* Part 1: the barrier.                                                    *)

\* Tokens q has put on its socket to r.
Sent(q, r) == IF r \in unsent[q] THEN entered[q] - 1 ELSE entered[q]

\* Tokens from q that the barriers of r have read.
Read(q, r) == IF Takes(r, q) THEN left[r] ELSE entered[r]

\* A rank is in at most one barrier, and outside of it has no pending send.
RoundInv ==
  \A r \in Ranks :
    /\ left[r] <= entered[r]
    /\ entered[r] <= left[r] + 1
    /\ r \notin unsent[r]
    /\ ~InBarrier(r) => unsent[r] = {}
    /\ InBarrier(r) => r \in got[r]

\* Tokens are neither lost nor duplicated, and none waits while a receive is pending.
TokenInv ==
  \A q, r \in Ranks : q # r =>
    /\ flying[q][r] + arrived[q][r] + Read(q, r) = Sent(q, r)
    /\ Takes(r, q) => arrived[q][r] = 0

\* A rank closes its sockets after its last barrier.
CloseInv ==
  /\ \A r \in closed : left[r] = LastRound
  /\ \A r \in Ranks : shut[r] \subseteq closed /\ r \notin shut[r]

IInv == TypeOK /\ RoundInv /\ TokenInv /\ CloseInv /\ NoneFails

\* Two facts that follow from the count of tokens: a rank that has read all tokens
\* of a barrier has every peer at least in the same barrier, ...
LEMMA LeaveAfterAllEntered ==
  ASSUME IInv, NEW r \in Ranks, InBarrier(r), got[r] = Ranks
  PROVE  \A q \in Ranks : entered[q] >= entered[r]
<1>0. entered[r] \in 0 .. LastRound /\ entered[r] >= entered[r]
  <2>1. entered[r] \in 0 .. LastRound
    BY DEF IInv, TypeOK
  <2> QED
    BY <2>1, RoundAssumption
<1> TAKE q \in Ranks
<1> SUFFICES ASSUME q # r PROVE entered[q] >= entered[r]
  BY <1>0
<1>1. Read(q, r) = entered[r]
  BY DEF Read, Takes
<1>2. /\ flying[q][r] + arrived[q][r] + Read(q, r) = Sent(q, r)
      /\ flying[q][r] \in Nat /\ arrived[q][r] \in Nat
      /\ entered[q] \in 0 .. LastRound /\ entered[r] \in 0 .. LastRound
  BY DEF IInv, TypeOK, TokenInv
<1>3. Sent(q, r) <= entered[q]
  BY <1>2, RoundAssumption DEF Sent
<1> QED
  BY <1>1, <1>2, <1>3, RoundAssumption

\* ... and a rank whose peer has closed has no operation left on that socket, and
\* no barrier left to enter.
LEMMA ClosedPeer ==
  ASSUME IInv, NEW r \in Ranks, NEW q \in closed, q # r
  PROVE  /\ entered[r] = LastRound
         /\ r \notin unsent[q] /\ q \notin unsent[r]
         /\ flying[q][r] = 0 => ~WaitsOn(r, q)
<1> USE RoundAssumption
<1>1. q \in Ranks /\ left[q] = LastRound /\ entered[q] = LastRound /\ ~InBarrier(q)
  BY DEF IInv, TypeOK, RoundInv, CloseInv, InBarrier
<1>2. unsent[q] = {} /\ Read(r, q) = LastRound
  BY <1>1 DEF IInv, RoundInv, Read, Takes
<1>3. /\ flying[r][q] + arrived[r][q] + Read(r, q) = Sent(r, q)
      /\ flying[r][q] \in Nat /\ arrived[r][q] \in Nat /\ entered[r] \in 0 .. LastRound
  BY <1>1 DEF IInv, TypeOK, TokenInv
<1>4. entered[r] = LastRound /\ q \notin unsent[r]
  BY <1>2, <1>3 DEF Sent
<1>5. ASSUME flying[q][r] = 0, Takes(r, q)
      PROVE  FALSE
  <2>1. arrived[q][r] = 0 /\ flying[q][r] + arrived[q][r] + Read(q, r) = Sent(q, r)
    BY <1>1, <1>5 DEF IInv, TokenInv
  <2>2. Read(q, r) = left[r] /\ Sent(q, r) = LastRound
    BY <1>1, <1>2, <1>5 DEF Read, Sent
  <2>3. left[r] \in 0 .. LastRound /\ left[r] < entered[r]
    BY <1>5 DEF IInv, TypeOK, Takes, InBarrier
  <2> QED
    BY <1>4, <1>5, <2>1, <2>2, <2>3
<1> QED
  BY <1>2, <1>4, <1>5 DEF WaitsOn, Takes

\* Outside of a barrier, a rank has left as many barriers as it has entered.
LEMMA OutsideBarrier ==
  ASSUME IInv, NEW r \in Ranks, ~InBarrier(r)
  PROVE  entered[r] = left[r]
<1>1. entered[r] \in 0 .. LastRound /\ left[r] \in 0 .. LastRound
  BY DEF IInv, TypeOK
<1>2. left[r] <= entered[r] /\ ~(left[r] < entered[r])
  BY DEF IInv, RoundInv, InBarrier
<1> QED
  BY <1>1, <1>2, RoundAssumption

\* The invariant holds initially.
LEMMA InitInv == Init => IInv
<1> USE RoundAssumption
<1> SUFFICES ASSUME Init PROVE IInv
  OBVIOUS
<1>1. TypeOK
  <2>1. entered \in [Ranks -> 0 .. LastRound] /\ left \in [Ranks -> 0 .. LastRound]
    BY DEF Init
  <2>2. unsent \in [Ranks -> SUBSET Ranks] /\ got \in [Ranks -> SUBSET Ranks]
    BY DEF Init
  <2>3. flying \in [Ranks -> [Ranks -> Nat]] /\ arrived \in [Ranks -> [Ranks -> Nat]]
    BY DEF Init
  <2>4. shut \in [Ranks -> SUBSET Ranks]
    BY DEF Init
  <2>5. closed \subseteq Ranks /\ failed \subseteq Ranks /\ stopped \in BOOLEAN
    BY DEF Init
  <2> QED
    BY <2>1, <2>2, <2>3, <2>4, <2>5 DEF TypeOK
<1>2. \A r \in Ranks : entered[r] = 0 /\ left[r] = 0 /\ unsent[r] = {}
  BY DEF Init
<1>3. RoundInv
  <2>1. ASSUME NEW r \in Ranks
        PROVE  /\ left[r] <= entered[r] /\ entered[r] <= left[r] + 1 /\ ~InBarrier(r)
               /\ unsent[r] = {}
    <3>1. entered[r] = 0 /\ left[r] = 0 /\ unsent[r] = {}
      BY <1>2
    <3> QED
      BY <3>1 DEF InBarrier
  <2> QED
    BY <2>1 DEF RoundInv
<1>4. TokenInv
  <2>1. \A q, r \in Ranks : flying[q][r] = 0 /\ arrived[q][r] = 0
    BY DEF Init
  <2> QED
    BY <1>2, <2>1 DEF TokenInv, Takes, InBarrier, Sent, Read
<1>5. CloseInv /\ NoneFails
  BY DEF Init, CloseInv, NoneFails
<1> QED
  BY <1>1, <1>3, <1>4, <1>5 DEF IInv

\* Entering a barrier counts one token more as sent or pending on each socket.
LEMMA EnterInv == ASSUME IInv, NEW r \in Ranks, Enter(r) PROVE IInv'
<1> USE RoundAssumption
<1>1. PICK full \in SUBSET Peers(r) :
        /\ unsent' = [unsent EXCEPT ![r] = full]
        /\ flying' = [flying EXCEPT ![r] =
             [q \in Ranks |-> IF q \in Peers(r) \ full THEN flying[r][q] + 1 ELSE flying[r][q]]]
  BY DEF Enter
<1>2. TypeOK'
  <2>1. entered' \in [Ranks -> 0 .. LastRound] /\ left' \in [Ranks -> 0 .. LastRound]
    BY DEF IInv, TypeOK, Enter
  <2>2. unsent' \in [Ranks -> SUBSET Ranks] /\ flying' \in [Ranks -> [Ranks -> Nat]]
    BY <1>1 DEF IInv, TypeOK, Peers
  <2>3. arrived' \in [Ranks -> [Ranks -> Nat]] /\ got' \in [Ranks -> SUBSET Ranks]
    BY DEF IInv, TypeOK, Enter, ReadAtOnce, Peers
  <2>4. closed' \subseteq Ranks /\ shut' \in [Ranks -> SUBSET Ranks] /\ stopped' \in BOOLEAN
    BY DEF IInv, TypeOK, Enter, endVars
  <2>5. failed' \subseteq Ranks
    BY DEF IInv, TypeOK, Enter
  <2> QED
    BY <2>1, <2>2, <2>3, <2>4, <2>5 DEF TypeOK
<1>3. RoundInv'
  BY <1>1 DEF IInv, TypeOK, RoundInv, Enter, InBarrier, Peers, ReadAtOnce
<1>4. TokenInv'
  <2> SUFFICES ASSUME NEW q \in Ranks, NEW p \in Ranks, q # p
               PROVE  /\ flying'[q][p] + arrived'[q][p] + Read(q, p)' = Sent(q, p)'
                      /\ Takes(p, q)' => arrived'[q][p] = 0
    BY DEF TokenInv
  <2>0. /\ flying[q][p] + arrived[q][p] + Read(q, p) = Sent(q, p)
        /\ Takes(p, q) => arrived[q][p] = 0
        /\ flying[q][p] \in Nat /\ arrived[q][p] \in Nat
        /\ entered[p] \in Nat /\ entered[q] \in Nat /\ left[p] \in Nat
    BY DEF IInv, TypeOK, TokenInv
  <2>1. CASE p = r
    <3>1. flying'[q][p] = flying[q][p] /\ Sent(q, p)' = Sent(q, p)
      BY <1>1, <2>1 DEF IInv, TypeOK, Enter, Sent
    <3>2. Read(q, p) = entered[r] /\ entered[r] = left[r]
      <4>1. ~InBarrier(r)
        BY DEF Enter
      <4> QED
        BY <2>1, <4>1, OutsideBarrier DEF Read, Takes
    <3>3. entered'[r] = entered[r] + 1 /\ left'[r] = left[r]
      BY DEF IInv, TypeOK, Enter
    <3>4. q \in got'[r] <=> arrived[q][r] > 0
      BY <2>1 DEF IInv, TypeOK, Enter, ReadAtOnce, Peers
    <3>5. arrived'[q][r] = IF arrived[q][r] > 0 THEN arrived[q][r] - 1 ELSE arrived[q][r]
      BY <2>1 DEF IInv, TypeOK, Enter, ReadAtOnce, Peers
    <3>6. Takes(p, q)' <=> arrived[q][r] = 0
      BY <2>0, <2>1, <3>2, <3>3, <3>4 DEF Takes, InBarrier
    <3> QED
      BY <2>0, <2>1, <3>1, <3>2, <3>3, <3>5, <3>6 DEF Read
  <2>2. CASE p # r
    <3>1. /\ arrived'[q][p] = arrived[q][p]
          /\ Takes(p, q)' = Takes(p, q) /\ Read(q, p)' = Read(q, p)
      BY <2>2 DEF IInv, TypeOK, Enter, ReadAtOnce, Peers, Takes, InBarrier, Read
    <3>2. CASE q = r
      <4>1. unsent[r] = {} /\ Sent(q, p) = entered[r]
        BY <3>2 DEF IInv, RoundInv, Enter, Sent
      <4>2. entered'[r] = entered[r] + 1 /\ unsent'[r] = full
        BY <1>1 DEF IInv, TypeOK, Enter
      <4>3. flying'[q][p] = IF p \in full THEN flying[q][p] ELSE flying[q][p] + 1
        BY <1>1, <2>2, <3>2 DEF IInv, TypeOK, Peers
      <4>4. Sent(q, p)' = IF p \in full THEN entered[r] ELSE entered[r] + 1
        BY <2>0, <3>2, <4>2 DEF Sent
      <4>5. Read(q, p) \in Nat
        BY <2>0 DEF Read
      <4> QED
        BY <2>0, <3>1, <3>2, <4>1, <4>3, <4>4, <4>5
    <3>3. CASE q # r
      BY <1>1, <2>0, <3>1, <3>3 DEF IInv, TypeOK, Enter, Sent
    <3> QED
      BY <3>2, <3>3
  <2> QED
    BY <2>1, <2>2
<1>5. CloseInv'
  BY DEF IInv, CloseInv, Enter, endVars
<1>6. NoneFails'
  <2>1. shut[r] = {}
    <3> SUFFICES ASSUME NEW q \in shut[r] PROVE FALSE
      OBVIOUS
    <3>1. q \in closed /\ q # r
      BY DEF IInv, CloseInv
    <3>2. entered[r] = LastRound
      BY <3>1, ClosedPeer
    <3> QED
      BY <3>2 DEF Enter
  <2> QED
    BY <2>1 DEF IInv, NoneFails, Enter
<1> QED
  BY <1>2, <1>3, <1>4, <1>5, <1>6 DEF IInv

\* A pending send moves its token from pending to flying.
LEMMA SendInv ==
  ASSUME IInv, NEW r \in Ranks, NEW q \in Ranks, SendResumes(r, q)
  PROVE  IInv'
<1> USE RoundAssumption
<1>1. TypeOK'
  BY DEF IInv, TypeOK, SendResumes, endVars
<1>2. RoundInv'
  BY DEF IInv, TypeOK, RoundInv, SendResumes, InBarrier
<1>3. TokenInv'
  <2> SUFFICES ASSUME NEW a \in Ranks, NEW b \in Ranks, a # b
               PROVE  /\ flying'[a][b] + arrived'[a][b] + Read(a, b)' = Sent(a, b)'
                      /\ Takes(b, a)' => arrived'[a][b] = 0
    BY DEF TokenInv
  <2>0. /\ flying[a][b] + arrived[a][b] + Read(a, b) = Sent(a, b)
        /\ Takes(b, a) => arrived[a][b] = 0
        /\ flying[a][b] \in Nat /\ arrived[a][b] \in Nat
        /\ entered[a] \in Nat /\ entered[b] \in Nat /\ left[b] \in Nat
    BY DEF IInv, TypeOK, TokenInv
  <2>1. /\ arrived'[a][b] = arrived[a][b]
        /\ Takes(b, a)' = Takes(b, a) /\ Read(a, b)' = Read(a, b)
    BY DEF SendResumes, Takes, InBarrier, Read
  <2>2. CASE a = r /\ b = q
    <3>1. Sent(a, b) = entered[a] - 1 /\ Sent(a, b)' = entered[a]
      BY <2>2 DEF IInv, TypeOK, SendResumes, Sent
    <3>2. flying'[a][b] = flying[a][b] + 1
      BY <2>2 DEF IInv, TypeOK, SendResumes
    <3>3. Read(a, b) \in Nat
      BY <2>0 DEF Read
    <3> QED
      BY <2>0, <2>1, <3>1, <3>2, <3>3
  <2>3. CASE ~(a = r /\ b = q)
    <3>1. flying'[a][b] = flying[a][b] /\ Sent(a, b)' = Sent(a, b)
      BY <2>3 DEF IInv, TypeOK, SendResumes, Sent
    <3> QED
      BY <2>0, <2>1, <3>1
  <2> QED
    BY <2>2, <2>3
<1>4. CloseInv' /\ NoneFails'
  BY DEF IInv, CloseInv, NoneFails, SendResumes, endVars
<1> QED
  BY <1>1, <1>2, <1>3, <1>4 DEF IInv

\* An arriving token is read by the pending receive, or waits.
LEMMA DeliverInv ==
  ASSUME IInv, NEW q \in Ranks, NEW r \in Ranks, Deliver(q, r)
  PROVE  IInv'
<1> USE RoundAssumption
<1>1. TypeOK'
  <2>1. flying' \in [Ranks -> [Ranks -> Nat]]
    BY DEF IInv, TypeOK, Deliver
  <2>2. arrived' \in [Ranks -> [Ranks -> Nat]]
    BY DEF IInv, TypeOK, Deliver
  <2>3. got' \in [Ranks -> SUBSET Ranks]
    BY DEF IInv, TypeOK, Deliver
  <2>4. UNCHANGED <<entered, left, unsent, closed, stopped, shut, failed>>
    BY DEF Deliver, endVars
  <2> QED
    BY <2>1, <2>2, <2>3, <2>4 DEF IInv, TypeOK
<1>2. RoundInv'
  <2>1. \A p \in Ranks : got[p] \subseteq got'[p]
    BY DEF IInv, TypeOK, Deliver
  <2>2. UNCHANGED <<entered, left, unsent>>
    BY DEF Deliver
  <2> QED
    BY <2>1, <2>2 DEF IInv, RoundInv, InBarrier
<1>3. TokenInv'
  <2> SUFFICES ASSUME NEW a \in Ranks, NEW b \in Ranks, a # b
               PROVE  /\ flying'[a][b] + arrived'[a][b] + Read(a, b)' = Sent(a, b)'
                      /\ Takes(b, a)' => arrived'[a][b] = 0
    BY DEF TokenInv
  <2>0. /\ flying[a][b] + arrived[a][b] + Read(a, b) = Sent(a, b)
        /\ Takes(b, a) => arrived[a][b] = 0
        /\ flying[a][b] \in Nat /\ arrived[a][b] \in Nat
        /\ entered[a] \in Nat /\ entered[b] \in Nat /\ left[b] \in Nat
        /\ left[b] <= entered[b] /\ entered[b] <= left[b] + 1
    BY DEF IInv, TypeOK, TokenInv, RoundInv
  <2>1. Sent(a, b)' = Sent(a, b) /\ entered' = entered /\ left' = left
    BY DEF Deliver, Sent
  <2>2. CASE a = q /\ b = r /\ Takes(r, q)
    <3>1. flying'[a][b] = flying[a][b] - 1 /\ arrived'[a][b] = arrived[a][b] /\ a \in got'[b]
      BY <2>2 DEF IInv, TypeOK, Deliver
    <3>2. ~Takes(b, a)' /\ Read(a, b)' = entered[b]
      BY <2>1, <3>1 DEF Takes, Read
    <3>3. Read(a, b) = left[b] /\ entered[b] = left[b] + 1
      BY <2>0, <2>2 DEF Read, Takes, InBarrier
    <3> QED
      BY <2>0, <2>1, <3>1, <3>2, <3>3
  <2>3. CASE a = q /\ b = r /\ ~Takes(r, q)
    <3>1. flying'[a][b] = flying[a][b] - 1 /\ arrived'[a][b] = arrived[a][b] + 1 /\ got' = got
      BY <2>3 DEF IInv, TypeOK, Deliver
    <3>2. Takes(b, a)' = Takes(b, a) /\ Read(a, b)' = Read(a, b)
      BY <2>1, <3>1 DEF Takes, InBarrier, Read
    <3>3. Read(a, b) \in Nat
      BY <2>0 DEF Read
    <3> QED
      BY <2>0, <2>1, <2>3, <3>1, <3>2, <3>3
  <2>4. CASE ~(a = q /\ b = r)
    <3>1. flying'[a][b] = flying[a][b] /\ arrived'[a][b] = arrived[a][b]
      BY <2>4 DEF IInv, TypeOK, Deliver
    <3>2. a \in got'[b] <=> a \in got[b]
      BY <2>4 DEF IInv, TypeOK, Deliver
    <3>3. Takes(b, a)' = Takes(b, a) /\ Read(a, b)' = Read(a, b)
      BY <2>1, <3>2 DEF Takes, InBarrier, Read
    <3> QED
      BY <2>0, <2>1, <3>1, <3>3
  <2> QED
    BY <2>2, <2>3, <2>4
<1>4. CloseInv' /\ NoneFails'
  BY DEF IInv, CloseInv, NoneFails, Deliver, endVars
<1> QED
  BY <1>1, <1>2, <1>3, <1>4 DEF IInv

\* Leaving a barrier, also the last one, leaves the count of tokens as it is.
LEMMA LeaveInv ==
  ASSUME IInv, NEW r \in Ranks, Leave(r) \/ Complete(r)
  PROVE  IInv'
<1> USE RoundAssumption
<1>0. /\ entered' = entered /\ unsent' = unsent /\ flying' = flying /\ arrived' = arrived
      /\ shut' = shut /\ failed' = failed
      /\ left' = [left EXCEPT ![r] = @ + 1] /\ got' = [got EXCEPT ![r] = {}]
      /\ InBarrier(r) /\ CanLeave(r)
      /\ closed' = closed \/ (closed' = closed \cup {r} /\ entered[r] = LastRound)
      /\ stopped' \in BOOLEAN
  BY DEF IInv, TypeOK, Leave, Complete, netVars, endVars
<1>1. left[r] + 1 = entered[r] /\ left'[r] = entered[r]
  BY <1>0 DEF IInv, TypeOK, RoundInv, InBarrier
<1>2. TypeOK'
  BY <1>0, <1>1 DEF IInv, TypeOK
<1>3. RoundInv'
  BY <1>0, <1>1 DEF IInv, TypeOK, RoundInv, InBarrier, CanLeave
<1>4. TokenInv'
  <2> SUFFICES ASSUME NEW a \in Ranks, NEW b \in Ranks, a # b
               PROVE  /\ flying'[a][b] + arrived'[a][b] + Read(a, b)' = Sent(a, b)'
                      /\ Takes(b, a)' => arrived'[a][b] = 0
    BY DEF TokenInv
  <2>1. Sent(a, b)' = Sent(a, b)
    BY <1>0 DEF Sent
  <2>2. CASE b = r
    <3>1. ~Takes(b, a) /\ ~Takes(b, a)'
      <4>1. a \in got[b]
        BY <1>0, <2>2 DEF CanLeave
      <4>2. ~(left'[r] < entered'[r])
        <5>1. entered[r] \in 0 .. LastRound
          BY DEF IInv, TypeOK
        <5> QED
          BY <1>0, <1>1, <5>1
      <4> QED
        BY <2>2, <4>1, <4>2 DEF Takes, InBarrier
    <3> QED
      BY <1>0, <2>1, <3>1 DEF IInv, TokenInv, Read
  <2>3. CASE b # r
    <3>1. Takes(b, a)' = Takes(b, a) /\ Read(a, b)' = Read(a, b)
      BY <1>0, <2>3 DEF IInv, TypeOK, Takes, InBarrier, Read
    <3> QED
      BY <1>0, <2>1, <3>1 DEF IInv, TokenInv
  <2> QED
    BY <2>2, <2>3
<1>5. CloseInv'
  BY <1>0, <1>1 DEF IInv, TypeOK, CloseInv
<1>6. NoneFails'
  BY <1>0 DEF IInv, NoneFails
<1> QED
  BY <1>2, <1>3, <1>4, <1>5, <1>6 DEF IInv

\* The close of a peer finds no pending operation.
LEMMA CloseStepInv ==
  ASSUME IInv, NEW q \in Ranks, NEW r \in Ranks, PeerCloses(q, r)
  PROVE  IInv'
<1>0. q \in closed /\ q # r
  BY RanksAssumption DEF PeerCloses, Closes
<1>1. TypeOK'
  BY DEF IInv, TypeOK, PeerCloses, netVars, endVars
<1>2. RoundInv'
  BY DEF IInv, RoundInv, PeerCloses, netVars, InBarrier
<1>3. TokenInv'
  BY DEF IInv, TokenInv, PeerCloses, netVars, InBarrier, Takes, Sent, Read
<1>4. CloseInv'
  BY <1>0 DEF IInv, TypeOK, CloseInv, PeerCloses, endVars
<1>5. NoneFails'
  <2>1. ~WaitsOn(r, q)
    BY <1>0, ClosedPeer DEF PeerCloses
  <2> QED
    BY <2>1 DEF IInv, NoneFails, PeerCloses
<1> QED
  BY <1>1, <1>2, <1>3, <1>4, <1>5 DEF IInv

\* The count of tokens is an invariant of the barrier.
THEOREM Invariance == Spec => []IInv
<1>1. ASSUME IInv, [Next]_vars PROVE IInv'
  <2>1. CASE Next
    BY <1>1, <2>1, EnterInv, SendInv, DeliverInv, LeaveInv, CloseStepInv DEF Next
  <2>2. CASE UNCHANGED vars
    BY <1>1, <2>2 DEF vars, netVars, endVars, IInv, TypeOK, RoundInv, TokenInv, CloseInv,
       NoneFails, InBarrier, Takes, Sent, Read
  <2> QED
    BY <1>1, <2>1, <2>2
<1> QED
  BY <1>1, InitInv, PTL DEF Spec

\* Type correctness of the barrier's state.
THEOREM TypeCorrectness == Spec => []TypeOK
BY Invariance, PTL DEF IInv

\* No rank's barrier is made to throw by a peer that finalizes early
\* (moe-jit.h 498-500, coroutine-socket.cpp 85-102).
THEOREM NoneFailsHolds == Spec => []NoneFails
BY Invariance, PTL DEF IInv

\* MPICommunicator::Barrier implements the abstract barrier, for any number of
\* ranks and of consecutive barriers (mpi-communicator.cpp 136-145).
THEOREM Refinement == Spec => BarrierSpec
<1>1. Init => B!Init
  BY DEF Init, B!Init
<1>2. ASSUME IInv, [Next]_vars PROVE [B!Next]_<<entered, left>>
  <2>1. CASE UNCHANGED vars
    BY <2>1 DEF vars
  <2>2. ASSUME NEW r \in Ranks, Enter(r) PROVE B!Next
    <3>1. entered[r] = left[r]
      BY <1>2, <2>2, OutsideBarrier DEF Enter
    <3> QED
      BY <2>2, <3>1 DEF Enter, B!Next, B!Enter
  <2>3. ASSUME NEW r \in Ranks, Leave(r) \/ Complete(r) PROVE B!Next
    <3>1. InBarrier(r) /\ got[r] = Ranks
      BY <2>3 DEF Leave, Complete, CanLeave
    <3>2. \A q \in Ranks : entered[q] >= entered[r]
      BY <1>2, <3>1, LeaveAfterAllEntered
    <3> QED
      BY <2>3, <3>1, <3>2 DEF Leave, Complete, InBarrier, B!Next, B!Leave
  <2>4. ASSUME NEW r \in Ranks, NEW q \in Ranks,
               SendResumes(r, q) \/ Deliver(q, r) \/ PeerCloses(q, r)
        PROVE  UNCHANGED <<entered, left>>
    BY <2>4 DEF SendResumes, Deliver, PeerCloses
  <2> QED
    BY <1>2, <2>1, <2>2, <2>3, <2>4 DEF Next
<1> QED
  BY <1>1, <1>2, Invariance, PTL DEF Spec, BarrierSpec, B!Spec
-----------------------------------------------------------------------------
(* Part 2: the connections.                                                *)

\* The ranks below r whose connection to r is not open.
Pending(r) == {q \in Lower(r) : link[q][r] # "open"}

\* The ranks below r whose connection has been accepted.
Accepted(r) == {q \in Lower(r) : link[q][r] = "open"}

\* The type of the variables, and connections only from a rank to one above it.
StateInv ==
  /\ together \in BOOLEAN
  /\ status \in [WorldRanks -> {"NEW", "INITIAL", "WORKING", "DEAD"}]
  /\ listener \in [WorldRanks -> {"none", "listening", "orphan", "closed"}]
  /\ accepts \in [WorldRanks -> Nat]
  /\ link \in [WorldRanks -> [WorldRanks -> Links]]
  /\ sockets \in [WorldRanks -> SUBSET WorldRanks]
  /\ \A q, r \in WorldRanks : link[q][r] # "none" => q < r /\ status[q] # "NEW"

\* Before its start a rank has nothing, and TCP refuses the connections to it.
NewInv ==
  \A r \in WorldRanks : status[r] = "NEW" =>
    /\ accepts[r] = 0 /\ listener[r] = "none" /\ sockets[r] = {}
    /\ \A q \in WorldRanks : link[q][r] \in {"none", "syn", "rst", "refused"}

\* Afterwards the pending accepts are those of the connections not yet open.
AcceptInv ==
  \A r \in WorldRanks : status[r] # "NEW" =>
    /\ accepts[r] = Cardinality(Pending(r))
    /\ sockets[r] = Higher(r) \cup Accepted(r)
    /\ \A p \in Higher(r) : link[r][p] # "none"

\* The listener exists while connect() runs; connect() ends when nothing is pending.
EndInv ==
  \A r \in WorldRanks :
    /\ listener[r] = "listening" => status[r] = "INITIAL"
    /\ status[r] = "WORKING" =>
         /\ accepts[r] = 0
         /\ \A p \in Higher(r) : link[r][p] \in {"ack", "open"}

ConnectInv == StateInv /\ NewInv /\ AcceptInv /\ EndInv
-----------------------------------------------------------------------------
(* Operators.                                                              *)

\* A rank has finitely many ranks below it, and fewer than N.
LEMMA LowerFinite ==
  ASSUME NEW r \in WorldRanks
  PROVE  IsFiniteSet(Lower(r)) /\ Cardinality(Lower(r)) \in 0 .. N - 1
<1>1. r \in Nat /\ r < N /\ N \in Nat
  BY NAssumption DEF WorldRanks
<1>2. Lower(r) = 0 .. r - 1
  BY <1>1 DEF Lower, WorldRanks
<1>3. /\ IsFiniteSet(0 .. r - 1)
      /\ Cardinality(0 .. r - 1) = IF 0 > r - 1 THEN 0 ELSE (r - 1) - 0 + 1
  BY <1>1, FS_Interval
<1> QED
  BY <1>1, <1>2, <1>3

\* So are the ranks it still waits for.
LEMMA PendingFinite ==
  ASSUME NEW r \in WorldRanks
  PROVE  IsFiniteSet(Pending(r)) /\ Cardinality(Pending(r)) \in 0 .. N - 1
<1>1. Pending(r) \in SUBSET Lower(r)
  BY DEF Pending
<1>2. IsFiniteSet(Pending(r)) /\ Cardinality(Pending(r)) <= Cardinality(Lower(r))
  BY <1>1, LowerFinite, FS_Subset
<1>3. Cardinality(Pending(r)) \in Nat
  BY <1>2, FS_CardinalityType
<1> QED
  BY <1>2, <1>3, LowerFinite, NAssumption

\* The loop of connect() gets to its end only with no accept pending and no
\* connection on its way or refused.
LEMMA OutcomeWorking ==
  ASSUME NEW pending \in Nat, NEW S \in SUBSET WorldRanks, NEW out \in [S -> Links]
  PROVE  /\ Outcome(pending, out) \in {"INITIAL", "WORKING", "DEAD"}
         /\ Outcome(pending, out) = "WORKING" =>
              /\ pending = 0
              /\ \A p \in S : out[p] \in {"none", "ack", "open"}
  BY DEF Outcome, Links

\* What a resumed connect() leaves behind.
LEMMA ResumeEffect ==
  ASSUME StateInv, NEW r \in WorldRanks, NEW pending \in Nat, NEW out \in [WorldRanks -> Links],
         Resume(r, pending, out)
  PROVE  /\ status' \in [WorldRanks -> {"NEW", "INITIAL", "WORKING", "DEAD"}]
         /\ listener' \in [WorldRanks -> {"none", "listening", "orphan", "closed"}]
         /\ \A q \in WorldRanks \ {r} : status'[q] = status[q] /\ listener'[q] = listener[q]
         /\ status'[r] # "NEW"
         /\ listener'[r] = "listening" => status'[r] = "INITIAL"
         /\ status'[r] = "WORKING" =>
              pending = 0 /\ \A p \in Higher(r) : out[p] \in {"none", "ack", "open"}
<1> DEFINE result == [p \in Higher(r) |-> out[p]]
           outcome == Outcome(pending, result)
<1>1. Higher(r) \in SUBSET WorldRanks /\ result \in [Higher(r) -> Links]
  BY DEF Higher
<1>2. /\ outcome \in {"INITIAL", "WORKING", "DEAD"}
      /\ outcome = "WORKING" =>
           pending = 0 /\ \A p \in Higher(r) : result[p] \in {"none", "ack", "open"}
  <2> HIDE DEF result
  <2> QED
    BY <1>1, OutcomeWorking
<1>3. /\ status' = [status EXCEPT ![r] = outcome]
      /\ listener' = [listener EXCEPT ![r] =
           CASE Lower(r) = {} -> "none"
             [] OTHER -> [INITIAL |-> "listening", DEAD |-> "orphan", WORKING |-> "closed"][outcome]]
  BY DEF Resume
<1> HIDE DEF outcome
<1>4. /\ listener' \in [WorldRanks -> {"none", "listening", "orphan", "closed"}]
      /\ \A q \in WorldRanks \ {r} : listener'[q] = listener[q]
      /\ listener'[r] = "listening" => outcome = "INITIAL"
  BY <1>2, <1>3 DEF StateInv
<1>5. /\ status' \in [WorldRanks -> {"NEW", "INITIAL", "WORKING", "DEAD"}]
      /\ \A q \in WorldRanks \ {r} : status'[q] = status[q]
      /\ status'[r] = outcome
  BY <1>2, <1>3 DEF StateInv
<1> QED
  BY <1>2, <1>4, <1>5
-----------------------------------------------------------------------------
(* The inductive invariant.                                                *)

LEMMA InitConnectInv == ConnectInit => ConnectInv
<1> SUFFICES ASSUME ConnectInit PROVE ConnectInv
  OBVIOUS
<1>1. StateInv
  BY NAssumption DEF ConnectInit, StateInv, Links
<1>2. NewInv /\ AcceptInv /\ EndInv
  BY DEF ConnectInit, NewInv, AcceptInv, EndInv
<1> QED
  BY <1>1, <1>2 DEF ConnectInv

\* Starting a rank posts an accept for every connection to it, none of which is open.
LEMMA StartConnectInv ==
  ASSUME ConnectInv, NEW r \in WorldRanks, Start(r)
  PROVE  ConnectInv'
<1>1. accepts[r] = 0 /\ status[r] = "NEW" /\ StateInv
      /\ \A q \in WorldRanks : link[q][r] \in {"none", "syn", "rst", "refused"}
  BY DEF ConnectInv, NewInv, Start
<1>2. /\ accepts' \in [WorldRanks -> Nat]
      /\ accepts'[r] = Cardinality(Lower(r))
      /\ \A q \in WorldRanks \ {r} : accepts'[q] = accepts[q]
  BY <1>1, LowerFinite, NAssumption DEF Start, AcceptsPosted, StateInv
<1>3. /\ link' \in [WorldRanks -> [WorldRanks -> Links]]
      /\ \A p \in Higher(r) : link'[r][p] = "syn"
      /\ \A p \in WorldRanks \ Higher(r) : link'[r][p] = link[r][p]
      /\ \A q \in WorldRanks \ {r} : link'[q] = link[q]
  BY <1>1 DEF Start, StateInv, Links, Higher
<1>4. /\ sockets' \in [WorldRanks -> SUBSET WorldRanks]
      /\ sockets'[r] = Higher(r)
      /\ \A q \in WorldRanks \ {r} : sockets'[q] = sockets[q]
  BY <1>1 DEF Start, StateInv, Higher
<1>5. /\ status' \in [WorldRanks -> {"NEW", "INITIAL", "WORKING", "DEAD"}]
      /\ listener' \in [WorldRanks -> {"none", "listening", "orphan", "closed"}]
      /\ \A q \in WorldRanks \ {r} : status'[q] = status[q] /\ listener'[q] = listener[q]
      /\ status'[r] # "NEW"
      /\ listener'[r] = "listening" => status'[r] = "INITIAL"
      /\ status'[r] = "WORKING" =>
           accepts'[r] = 0 /\ \A p \in Higher(r) : link'[r][p] \in {"none", "ack", "open"}
  <2>1. Resume(r, accepts'[r], link'[r]) /\ accepts'[r] \in Nat /\ link'[r] \in [WorldRanks -> Links]
    BY <1>2, <1>3 DEF Start
  <2> QED
    BY <1>1, <2>1, ResumeEffect
<1>6. r \notin Higher(r) /\ Higher(r) \subseteq WorldRanks /\ \A p \in Higher(r) : r < p
  BY NAssumption DEF Higher, WorldRanks
<1>7. \A p, q \in WorldRanks :
        \/ link'[q][p] = link[q][p]
        \/ q = r /\ p \in Higher(r) /\ link'[q][p] = "syn" /\ link[q][p] = "none"
  BY <1>1, <1>3 DEF StateInv
<1>8. StateInv'
  <2>1. \A q, p \in WorldRanks : link'[q][p] # "none" => q < p /\ status'[q] # "NEW"
    <3> TAKE q, p \in WorldRanks
    <3>1. link[q][p] # "none" => q < p /\ status[q] # "NEW"
      BY <1>1 DEF StateInv
    <3>2. CASE q = r
      BY <1>5, <1>6, <1>7, <3>1, <3>2
    <3>3. CASE q # r
      BY <1>5, <1>7, <3>1, <3>3
    <3> QED
      BY <3>2, <3>3
  <2>2. together' \in BOOLEAN
    BY <1>1 DEF StateInv, Start
  <2> QED
    BY <1>2, <1>3, <1>4, <1>5, <2>1, <2>2 DEF StateInv
<1>9. NewInv'
  BY <1>2, <1>4, <1>5, <1>7 DEF ConnectInv, NewInv
<1>10. \A p \in WorldRanks : Pending(p)' = Pending(p) /\ Accepted(p)' = Accepted(p)
  BY <1>7 DEF Pending, Accepted, Lower
<1>11. Pending(r) = Lower(r) /\ Accepted(r) = {}
  BY <1>1 DEF Pending, Accepted, Lower
<1>12. AcceptInv'
  BY <1>2, <1>3, <1>4, <1>5, <1>6, <1>7, <1>10, <1>11 DEF ConnectInv, AcceptInv
<1>13. EndInv'
  BY <1>1, <1>2, <1>3, <1>5, <1>6 DEF ConnectInv, EndInv
<1> QED
  BY <1>8, <1>9, <1>12, <1>13 DEF ConnectInv

\* The answer to a SYN: only a rank that has started sends a SYN-ACK.
LEMMA SynArrivesConnectInv ==
  ASSUME ConnectInv, NEW q \in WorldRanks, NEW r \in WorldRanks, SynArrives(q, r)
  PROVE  ConnectInv'
<1>1. StateInv /\ link[q][r] = "syn" /\ UNCHANGED <<together, status, listener, accepts, sockets>>
  BY DEF ConnectInv, SynArrives
<1>2. /\ link' \in [WorldRanks -> [WorldRanks -> Links]]
      /\ link'[q][r] \in {"synack", "rst"}
      /\ link'[q][r] = "synack" => listener[r] # "none"
      /\ \A a, b \in WorldRanks : <<a, b>> # <<q, r>> => link'[a][b] = link[a][b]
  BY <1>1 DEF SynArrives, StateInv, Links
<1>3. StateInv'
  BY <1>1, <1>2 DEF StateInv
<1>4. NewInv'
  BY <1>1, <1>2 DEF ConnectInv, NewInv
<1>5. \A p \in WorldRanks : Pending(p)' = Pending(p) /\ Accepted(p)' = Accepted(p)
  BY <1>1, <1>2 DEF Pending, Accepted, Lower
<1>6. AcceptInv'
  BY <1>1, <1>2, <1>5 DEF ConnectInv, AcceptInv, Higher
<1>7. EndInv'
  BY <1>1, <1>2 DEF ConnectInv, EndInv, StateInv, Higher
<1> QED
  BY <1>3, <1>4, <1>6, <1>7 DEF ConnectInv

\* The answer reaches the rank that connects: it goes on, or its run() has ended.
LEMMA ConnectEndsConnectInv ==
  ASSUME ConnectInv, NEW q \in WorldRanks, NEW r \in WorldRanks, ConnectEnds(q, r)
  PROVE  ConnectInv'
<1>1. StateInv /\ link[q][r] \in {"synack", "rst"} /\ UNCHANGED <<together, accepts, sockets>>
  BY DEF ConnectInv, ConnectEnds
<1>2. /\ link' \in [WorldRanks -> [WorldRanks -> Links]]
      /\ link'[q][r] = IF link[q][r] = "synack" THEN "ack" ELSE "refused"
      /\ \A a, b \in WorldRanks : <<a, b>> # <<q, r>> => link'[a][b] = link[a][b]
  BY <1>1 DEF ConnectEnds, StateInv, Links
<1>3. /\ status[q] # "NEW" /\ r \in Higher(q) /\ status[q] # "WORKING"
  <2>1. status[q] # "NEW" /\ q < r
    BY <1>1 DEF StateInv
  <2>2. r \in Higher(q)
    BY <2>1 DEF Higher
  <2> QED
    BY <1>1, <2>1, <2>2 DEF ConnectInv, EndInv
<1>4. /\ status' \in [WorldRanks -> {"NEW", "INITIAL", "WORKING", "DEAD"}]
      /\ listener' \in [WorldRanks -> {"none", "listening", "orphan", "closed"}]
      /\ \A p \in WorldRanks \ {q} : status'[p] = status[p] /\ listener'[p] = listener[p]
      /\ status'[q] # "NEW"
      /\ listener'[q] = "listening" => status'[q] = "INITIAL"
      /\ status'[q] = "WORKING" =>
           accepts[q] = 0 /\ \A p \in Higher(q) : link'[q][p] \in {"none", "ack", "open"}
  <2>1. accepts[q] \in Nat /\ link'[q] \in [WorldRanks -> Links]
    BY <1>1, <1>2 DEF StateInv
  <2>2. CASE Resume(q, accepts[q], link'[q])
    BY <1>1, <2>1, <2>2, ResumeEffect
  <2>3. CASE UNCHANGED <<status, listener>>
    BY <1>1, <1>3, <2>3 DEF ConnectInv, StateInv, EndInv
  <2> QED
    BY <2>2, <2>3 DEF ConnectEnds
<1>5. \A p \in WorldRanks : status'[p] = "NEW" <=> status[p] = "NEW"
  BY <1>3, <1>4
<1>6. \A a, b \in WorldRanks : link'[a][b] = "none" <=> link[a][b] = "none"
  BY <1>1, <1>2
<1>7. StateInv'
  BY <1>1, <1>2, <1>4, <1>5, <1>6 DEF StateInv
<1>8. NewInv'
  <2>1. \A p \in WorldRanks : status[p] = "NEW" => p # q
    BY <1>3
  <2>2. \A p \in WorldRanks : status[p] = "NEW" =>
          \A a \in WorldRanks : link'[a][p] \in {"none", "syn", "rst", "refused"}
    BY <1>1, <1>2 DEF ConnectInv, NewInv
  <2> QED
    BY <1>1, <1>4, <1>5, <2>1, <2>2 DEF ConnectInv, NewInv
<1>9. \A p \in WorldRanks : Pending(p)' = Pending(p) /\ Accepted(p)' = Accepted(p)
  BY <1>1, <1>2 DEF Pending, Accepted, Lower
<1>10. AcceptInv'
  BY <1>1, <1>5, <1>6, <1>9 DEF ConnectInv, AcceptInv, Higher
<1>11. EndInv'
  <2> SUFFICES ASSUME NEW p \in WorldRanks
               PROVE  /\ listener'[p] = "listening" => status'[p] = "INITIAL"
                      /\ status'[p] = "WORKING" =>
                           /\ accepts'[p] = 0
                           /\ \A a \in Higher(p) : link'[p][a] \in {"ack", "open"}
    BY DEF EndInv
  <2>1. CASE p = q
    BY <1>1, <1>3, <1>4, <1>6, <2>1 DEF ConnectInv, AcceptInv, Higher
  <2>2. CASE p # q
    <3>1. \A a \in Higher(p) : link'[p][a] = link[p][a]
      BY <1>2, <2>2 DEF Higher
    <3>2. listener'[p] = listener[p] /\ status'[p] = status[p] /\ accepts'[p] = accepts[p]
      BY <1>1, <1>4, <2>2
    <3> QED
      BY <3>1, <3>2 DEF ConnectInv, EndInv
  <2> QED
    BY <2>1, <2>2
<1> QED
  BY <1>7, <1>8, <1>10, <1>11 DEF ConnectInv

\* An accepted connection takes one pending accept and becomes a socket.
LEMMA AcceptConnectInv ==
  ASSUME ConnectInv, NEW q \in WorldRanks, NEW r \in WorldRanks, Accept(q, r)
  PROVE  ConnectInv'
<1>1. /\ StateInv /\ together' = together
      /\ link[q][r] = "ack" /\ listener[r] = "listening" /\ accepts[r] > 0
      /\ status[r] = "INITIAL"
  BY DEF ConnectInv, EndInv, Accept
<1>2. /\ link' \in [WorldRanks -> [WorldRanks -> Links]]
      /\ link'[q][r] = "open"
      /\ \A a, b \in WorldRanks : <<a, b>> # <<q, r>> => link'[a][b] = link[a][b]
  BY <1>1 DEF Accept, StateInv, Links
<1>3. /\ accepts' \in [WorldRanks -> Nat]
      /\ accepts'[r] = accepts[r] - 1
      /\ \A p \in WorldRanks \ {r} : accepts'[p] = accepts[p]
  BY <1>1 DEF Accept, StateInv
<1>4. /\ sockets' \in [WorldRanks -> SUBSET WorldRanks]
      /\ sockets'[r] = sockets[r] \cup {q}
      /\ \A p \in WorldRanks \ {r} : sockets'[p] = sockets[p]
  BY <1>1 DEF Accept, StateInv
<1>5. q # r /\ q \in Lower(r)
  BY <1>1, NAssumption DEF StateInv, Lower, WorldRanks
<1>6. /\ status' \in [WorldRanks -> {"NEW", "INITIAL", "WORKING", "DEAD"}]
      /\ listener' \in [WorldRanks -> {"none", "listening", "orphan", "closed"}]
      /\ \A p \in WorldRanks \ {r} : status'[p] = status[p] /\ listener'[p] = listener[p]
      /\ status'[r] # "NEW"
      /\ listener'[r] = "listening" => status'[r] = "INITIAL"
      /\ status'[r] = "WORKING" =>
           accepts'[r] = 0 /\ \A p \in Higher(r) : link[r][p] \in {"none", "ack", "open"}
  <2>1. Resume(r, accepts'[r], link[r]) /\ accepts'[r] \in Nat /\ link[r] \in [WorldRanks -> Links]
    BY <1>1, <1>3 DEF Accept, StateInv
  <2> QED
    BY <1>1, <2>1, ResumeEffect
<1>7. \A p \in WorldRanks : status'[p] = "NEW" <=> status[p] = "NEW"
  BY <1>1, <1>6
<1>8. \A a, b \in WorldRanks : link'[a][b] = "none" <=> link[a][b] = "none"
  BY <1>1, <1>2
<1>9. StateInv'
  BY <1>1, <1>2, <1>3, <1>4, <1>6, <1>7, <1>8 DEF StateInv
<1>10. NewInv'
  <2>1. \A p \in WorldRanks : status[p] = "NEW" => p # r
    BY <1>1
  <2>2. \A p \in WorldRanks : status[p] = "NEW" =>
          \A a \in WorldRanks : link'[a][p] \in {"none", "syn", "rst", "refused"}
    BY <1>2, <2>1 DEF ConnectInv, NewInv
  <2> QED
    BY <1>3, <1>4, <1>6, <1>7, <2>1, <2>2 DEF ConnectInv, NewInv
<1>11. \A p \in WorldRanks \ {r} : Pending(p)' = Pending(p) /\ Accepted(p)' = Accepted(p)
  BY <1>2 DEF Pending, Accepted, Lower
<1>12. /\ q \in Pending(r) /\ Pending(r)' = Pending(r) \ {q}
       /\ Accepted(r)' = Accepted(r) \cup {q}
  BY <1>1, <1>2, <1>5 DEF Pending, Accepted, Lower
<1>13. Cardinality(Pending(r)') = Cardinality(Pending(r)) - 1
  BY <1>12, PendingFinite, FS_RemoveElement
<1>14. AcceptInv'
  <2> SUFFICES ASSUME NEW p \in WorldRanks, status'[p] # "NEW"
               PROVE  /\ accepts'[p] = Cardinality(Pending(p)')
                      /\ sockets'[p] = Higher(p) \cup Accepted(p)'
                      /\ \A a \in Higher(p) : link'[p][a] # "none"
    BY DEF AcceptInv
  <2>1. /\ accepts[p] = Cardinality(Pending(p))
        /\ sockets[p] = Higher(p) \cup Accepted(p)
        /\ \A a \in Higher(p) : link[p][a] # "none"
    BY <1>7 DEF ConnectInv, AcceptInv
  <2>2. \A a \in Higher(p) : link'[p][a] # "none"
    BY <1>8, <2>1 DEF Higher
  <2>3. CASE p = r
    BY <1>3, <1>4, <1>12, <1>13, <2>1, <2>2, <2>3
  <2>4. CASE p # r
    BY <1>3, <1>4, <1>11, <2>1, <2>2, <2>4
  <2> QED
    BY <2>3, <2>4
<1>15. EndInv'
  <2> SUFFICES ASSUME NEW p \in WorldRanks
               PROVE  /\ listener'[p] = "listening" => status'[p] = "INITIAL"
                      /\ status'[p] = "WORKING" =>
                           /\ accepts'[p] = 0
                           /\ \A a \in Higher(p) : link'[p][a] \in {"ack", "open"}
    BY DEF EndInv
  <2>1. CASE p = r
    BY <1>1, <1>2, <1>5, <1>6, <2>1 DEF ConnectInv, AcceptInv, Higher
  <2>2. CASE p # r
    <3>1. \A a \in Higher(p) : link'[p][a] = link[p][a] \/ link'[p][a] = "open"
      BY <1>2, <2>2 DEF Higher
    <3>2. listener'[p] = listener[p] /\ status'[p] = status[p] /\ accepts'[p] = accepts[p]
      BY <1>3, <1>6, <2>2
    <3> QED
      BY <3>1, <3>2 DEF ConnectInv, EndInv
  <2> QED
    BY <2>1, <2>2
<1> QED
  BY <1>9, <1>10, <1>14, <1>15 DEF ConnectInv

\* A step that changes nothing.
LEMMA StutterConnectInv ==
  ASSUME ConnectInv, UNCHANGED connectVars
  PROVE  ConnectInv'
<1>1. UNCHANGED <<together, status, listener, accepts, link, sockets>>
  BY DEF connectVars
<1>2. StateInv' /\ NewInv'
  BY <1>1 DEF ConnectInv, StateInv, NewInv
<1>3. AcceptInv' /\ EndInv'
  BY <1>1 DEF ConnectInv, AcceptInv, EndInv, Pending, Accepted
<1> QED
  BY <1>2, <1>3 DEF ConnectInv

LEMMA NextConnectInv == ConnectInv /\ [ConnectNext]_connectVars => ConnectInv'
<1> SUFFICES ASSUME ConnectInv, [ConnectNext]_connectVars PROVE ConnectInv'
  OBVIOUS
<1>1. ASSUME NEW r \in WorldRanks, Start(r) PROVE ConnectInv'
  BY <1>1, StartConnectInv
<1>2. ASSUME NEW q \in WorldRanks, NEW r \in WorldRanks, Packet(q, r) PROVE ConnectInv'
  BY <1>2, SynArrivesConnectInv, ConnectEndsConnectInv, AcceptConnectInv DEF Packet
<1>3. CASE UNCHANGED connectVars
  BY <1>3, StutterConnectInv
<1> QED
  BY <1>1, <1>2, <1>3 DEF ConnectNext

LEMMA ConnectInvariance == ConnectSpec => []ConnectInv
  BY InitConnectInv, NextConnectInv, PTL DEF ConnectSpec
-----------------------------------------------------------------------------
(* Results.                                                                *)

\* The variables keep their types in every behaviour; in particular accepts[r], the
\* length of pendingAccept, stays within 0 .. N - 1, and no rank has a socket to
\* itself (mpi-application.cpp 140-186).
THEOREM ConnectTypeCorrect == ConnectSpec => []ConnectTypeOK
<1>1. ConnectInv => ConnectTypeOK
  <2> SUFFICES ASSUME ConnectInv PROVE ConnectTypeOK
    OBVIOUS
  <2>1. \A r \in WorldRanks : accepts[r] \in 0 .. N - 1
    BY PendingFinite, NAssumption DEF ConnectInv, NewInv, AcceptInv
  <2>2. accepts \in [WorldRanks -> 0 .. N - 1]
    BY <2>1 DEF ConnectInv, StateInv
  <2>3. \A r \in WorldRanks : sockets[r] \subseteq WorldRanks \ {r}
    <3>1. \A r \in WorldRanks : r \notin Higher(r) /\ r \notin Accepted(r)
      BY NAssumption DEF Higher, Accepted, Lower, WorldRanks
    <3>2. \A r \in WorldRanks : r \notin sockets[r]
      BY <3>1 DEF ConnectInv, NewInv, AcceptInv
    <3> QED
      BY <3>2 DEF ConnectInv, StateInv
  <2> QED
    BY <2>2, <2>3 DEF ConnectInv, StateInv, ConnectTypeOK
<1> QED
  BY <1>1, ConnectInvariance, PTL

\* A connection that reaches a listener always finds a pending accept: onAccept
\* (coroutine-socket.cpp 53-59) never throws, for any number of ranks and any order
\* of their starts.
THEOREM AcceptsSuffice == ConnectSpec => []NoSurplusAccept
<1>1. ConnectInv => NoSurplusAccept
  <2> SUFFICES ASSUME ConnectInv, NEW q \in WorldRanks, NEW r \in WorldRanks,
                      link[q][r] \in {"synack", "ack"}, listener[r] = "listening"
               PROVE  accepts[r] > 0
    BY DEF NoSurplusAccept
  <2>1. q < r
    BY DEF ConnectInv, StateInv
  <2>2. q \in Pending(r)
    BY <2>1 DEF Pending, Lower
  <2>3. accepts[r] = Cardinality(Pending(r))
    BY DEF ConnectInv, AcceptInv, EndInv
  <2> QED
    BY <2>2, <2>3, PendingFinite, FS_EmptySet
<1> QED
  BY <1>1, ConnectInvariance, PTL

\* A rank that is through connect() has a connected socket to every other rank, as
\* Initialize asserts (mpi-application.cpp 199-200), for any number of ranks.
THEOREM WorkingHasPeers == ConnectSpec => []PeersComplete
<1>1. ConnectInv => PeersComplete
  <2> SUFFICES ASSUME ConnectInv, NEW r \in WorldRanks, status[r] = "WORKING"
               PROVE  /\ sockets[r] = WorldRanks \ {r}
                      /\ \A q \in Lower(r) : link[q][r] = "open"
                      /\ \A q \in Higher(r) : link[r][q] \in {"ack", "open"}
    BY DEF PeersComplete
  <2>1. /\ accepts[r] = 0 /\ \A q \in Higher(r) : link[r][q] \in {"ack", "open"}
        /\ accepts[r] = Cardinality(Pending(r)) /\ sockets[r] = Higher(r) \cup Accepted(r)
    BY DEF ConnectInv, EndInv, AcceptInv
  <2>2. Pending(r) = {}
    BY <2>1, PendingFinite, FS_EmptySet
  <2>3. Accepted(r) = Lower(r) /\ \A q \in Lower(r) : link[q][r] = "open"
    BY <2>2 DEF Pending, Accepted
  <2>4. Higher(r) \cup Lower(r) = WorldRanks \ {r}
    BY NAssumption DEF Higher, Lower, WorldRanks
  <2> QED
    BY <2>1, <2>3, <2>4
<1> QED
  BY <1>1, ConnectInvariance, PTL
=============================================================================
