-------------------------- MODULE MCDistributedAging --------------------------
(***************************************************************************)
(* Two leaves of two ranks, with the capacities of scale 3e-5.  Events a   *)
(* and b are at leaf 0 and c is at leaf 1; a and b fill the downlink of    *)
(* leaf 1, so that c, which sends to both leaves, may be granted quota by  *)
(* leaf 0 and none by leaf 1.  a is the shorter event and b the earlier,   *)
(* so that the modes order them differently.                               *)
(***************************************************************************)
EXTENDS DistributedAging

MCEvents == {"a", "b", "c"}
MCLeaves == {0, 1}
MCLeafOf == [e \in MCEvents |-> IF e = "c" THEN 1 ELSE 0]
MCBytes ==
  [e \in MCEvents |->
     CASE e = "a" -> [d \in MCLeaves |-> IF d = 1 THEN 6 ELSE 0]
       [] e = "b" -> [d \in MCLeaves |-> IF d = 1 THEN 9 ELSE 0]
       [] e = "c" -> [d \in MCLeaves |-> IF d = 1 THEN 4 ELSE 2]]
MCTPred == [e \in MCEvents |-> IF e = "a" THEN 2 ELSE 0]
=============================================================================
