------------------------- MODULE MCCentralizedQuorum -------------------------
(***************************************************************************)
(* One job on three ranks with the quorum spine-8app gives it, the job's   *)
(* logical_node_count.  Rank 2 has no traffic in task a2, so the loader    *)
(* drops a2 from its list.                                                 *)
(***************************************************************************)
EXTENDS CentralizedAdmission

MCRanks == 0 .. 3
MCEvents == <<"a1", "a2">>
MCTasks == {"a1", "a2"}
MCGroup == [t \in MCTasks |-> {0, 1, 2}]
MCGroupSize == [t \in MCTasks |-> 3]
MCFlow ==
  [t \in MCTasks |-> [s \in MCRanks |-> [d \in MCRanks |->
     IF {s, d} \subseteq (IF t = "a1" THEN 0 .. 2 ELSE 0 .. 1) /\ s # d THEN 1 ELSE 0]]]
MCStartTime == [t \in MCTasks |-> 0]
MCComputeTime == [t \in MCTasks |-> 1]
MCReadyTimes == {0, 3}
MCExchangeTimes == {0, 2}
=============================================================================
