---------------------------- MODULE MCEmbeddedNode ----------------------------
(* EmbeddedNode for TLC: DAGs that share a block. *)
EXTENDS EmbeddedNode, TLC

CONSTANTS x, y, b1, b2

TinyDag == x :> {b1}
OneDag == x :> {b1, b2}
TwoDags == (x :> {b1}) @@ (y :> {b1, b2})
\* One life of the process in which only Pin, Drain and Close are called, for
\* the liveness properties.
OneLifeNext == \/ \E c \in Callers : \/ \E cidStr \in CIDs \cup {BadCID} : PinGate(c, cidStr)
                                      \/ CallerCancels(c)
                                      \/ Step(c)
               \/ SavesCollide
               \/ DrainGate \/ DrainStep
               \/ CloseSignal \/ CloseInternals
OneLifeSpec == Init /\ [][OneLifeNext]_vars /\ Fairness

\* Those of its behaviours in which no two writes of pins.json overlap.
ApartSpec == Init /\ [][OneLifeNext /\ mixed' = {}]_vars

Perms == Permutations(Callers)
=============================================================================
