--------------------------- MODULE MCCoroutineSocket ---------------------------
(* Two senders and two receivers.  The second receive of r2 takes whatever  *)
(* has arrived; so one receive may be left without data.                    *)
EXTENDS CoroutineSocket

CONSTANTS s1, s2, r1, r2

MCSide == s1 :> "send" @@ s2 :> "send" @@ r1 :> "receive" @@ r2 :> "receive"
MCProgram == s1 :> <<1, 2, 0>> @@ s2 :> <<2>> @@ r1 :> <<1, 1>> @@ r2 :> <<2, 0>>
=============================================================================
