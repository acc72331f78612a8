-------------------------------- MODULE Barrier --------------------------------
(***************************************************************************)
(* What MPICommunicator::Barrier promises: the k-th barrier of a rank ends *)
(* only after every rank has entered its k-th barrier.                     *)
(***************************************************************************)
EXTENDS Naturals

CONSTANT Ranks

VARIABLES
  entered,  \* entered[r]: the number of barriers rank r has entered
  left      \* left[r]: the number of barriers rank r has left

Init ==
  /\ entered = [r \in Ranks |-> 0]
  /\ left = [r \in Ranks |-> 0]

Enter(r) ==
  /\ entered[r] = left[r]
  /\ entered' = [entered EXCEPT ![r] = @ + 1]
  /\ UNCHANGED left

Leave(r) ==
  /\ left[r] < entered[r]
  /\ \A q \in Ranks : entered[q] >= entered[r]
  /\ left' = [left EXCEPT ![r] = @ + 1]
  /\ UNCHANGED entered

Next == \E r \in Ranks : Enter(r) \/ Leave(r)

Spec == Init /\ [][Next]_<<entered, left>>
=============================================================================
