------------------------ MODULE MCCentralizedAdmission ------------------------
(***************************************************************************)
(* Two jobs: ranks 0 and 1 run tasks a1 and a2, ranks 2 and 3 run task b1. *)
(***************************************************************************)
EXTENDS CentralizedAdmission

MCRanks == 0 .. 3
MCEvents == <<"a1", "b1", "a2">>
MCTasks == {"a1", "b1", "a2"}
MCGroup == [t \in MCTasks |-> IF t = "b1" THEN {2, 3} ELSE {0, 1}]
MCGroupSize == [t \in MCTasks |-> 2]

\* Bytes on the listed pairs of ranks, nothing elsewhere.
Matrix(f) ==
  [s \in MCRanks |-> [d \in MCRanks |-> IF <<s, d>> \in DOMAIN f THEN f[<<s, d>>] ELSE 0]]
MCFlow ==
  [t \in MCTasks |->
     CASE t = "a1" -> Matrix([p \in {<<0, 1>>, <<1, 0>>} |-> IF p[1] = 0 THEN 5 ELSE 2])
       [] t = "a2" -> Matrix([p \in {<<0, 1>>, <<1, 0>>} |-> 2])
       [] t = "b1" -> Matrix([p \in {<<2, 3>>, <<3, 2>>} |-> 4])]

MCStartTime == [t \in MCTasks |-> IF t = "b1" THEN 2 ELSE 0]
MCComputeTime == [t \in MCTasks |-> 1]
MCReadyTimes == {0, 3}
MCExchangeTimes == {0, 2}
=============================================================================
