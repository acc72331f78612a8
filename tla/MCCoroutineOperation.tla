------------------------- MODULE MCCoroutineOperation -------------------------
(* A chain of two coroutines on an operation, and a third that awaits it too. *)
EXTENDS CoroutineOperation

CONSTANTS inner, outer, other

MCChild == inner :> Leaf @@ outer :> inner @@ other :> Leaf
=============================================================================
