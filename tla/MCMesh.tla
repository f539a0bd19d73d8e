-------------------------------- MODULE MCMesh --------------------------------
(* Mesh for TLC: two peers that advertise one gateway in two spellings, which is
   a public default too; one of them also has a gateway on another port of that
   host, and a third peer advertises an internal host. *)
EXTENDS Mesh, TLC

CONSTANTS p, q, r, main, pub, lan

Web(h, odd) == [web |-> TRUE, host |-> h, user |-> FALSE, port |-> "none", odd |-> odd]
Ported(h) == [Web(h, FALSE) EXCEPT !.port = "other"]

MCGateways == (p :> {Web(pub, TRUE)}) @@ (q :> {Web(pub, FALSE), Ported(pub)})
                @@ (r :> {Web(lan, FALSE)})
MCStatic == <<Web(main, TRUE), Web(main, FALSE), Web(pub, TRUE)>>
=============================================================================
