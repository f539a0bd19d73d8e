--------------------------- MODULE MCAutoPinRunner ---------------------------
(* AutoPinRunner for TLC: batches of two authors. Discovery and MatchingItems *)
(* list a CID once, so no batch holds a CID twice; different calls may.       *)
EXTENDS AutoPinRunner

CONSTANTS ann, bob, x, y, z

It(a, c) == [author |-> a, cid |-> c]

\* Interleaved authors, one of them over the cap, and an empty batch.
CallBatches == { <<It(ann, x), It(bob, y), It(ann, z)>>, <<>> }
\* One item, the same for both calls.
SameBatches == { <<It(ann, x)>> }

\* Nothing is pinned at first: what one call pins, the other finds pinned.
FreshInit == Init /\ backend = {}
FreshSpec == FreshInit /\ [][Next]_vars /\ Fairness
=============================================================================
