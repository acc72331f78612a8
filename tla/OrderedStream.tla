----------------------------- MODULE OrderedStream -----------------------------
(***************************************************************************)
(* What callers expect of one direction of a stream socket: operations     *)
(* move their bytes in the order in which they were called, one operation  *)
(* after the other.  Operations called while another one completes are no  *)
(* part of this promise; they may slip in anywhere.                        *)
(***************************************************************************)
EXTENDS Naturals, FiniteSets, SequencesExt

CONSTANTS
  Ops,     \* the operations
  Others,  \* the operations that may slip in
  Size     \* Size[op]: the bytes operation op has to move

VARIABLES
  called,  \* operations, in the order of their calls
  bytes    \* for each byte that has been moved, the operation it belongs to

Moved(op) == Cardinality({i \in DOMAIN bytes : bytes[i] = op})

\* The operations called before op, op being called now if it has not been.
Earlier(op) ==
  {p \in Ops : \E i \in DOMAIN called : called[i] = p /\ \A k \in 1 .. i : called[k] # op}

Init ==
  /\ called = <<>>
  /\ bytes = <<>>

\* Operation op is called, or has been, and moves n bytes.
Move(op, n) ==
  /\ Moved(op) + n <= Size[op]
  /\ n > 0 => \A p \in Earlier(op) : Moved(p) = Size[p]
  /\ called' = IF Contains(called, op) THEN called ELSE Append(called, op)
  /\ bytes' = bytes \o [i \in 1 .. n |-> op]

\* An operation called elsewhere moves bytes.
Slip(op) ==
  /\ called' \in {called, Append(called, op)}
  /\ Len(bytes') >= Len(bytes)
  /\ bytes' = bytes \o [i \in 1 .. (Len(bytes') - Len(bytes)) |-> op]

Next ==
  \/ \E op \in Ops : \E n \in 0 .. Size[op] : Move(op, n)
  \/ \E op \in Others : Slip(op)

Spec == Init /\ [][Next]_<<called, bytes>>
=============================================================================
