------------------------------- MODULE MCPinner -------------------------------
(* Pinner for TLC: posts that mention CIDs twice, in other posts, and an
   invalid one. *)
EXTENDS Pinner, TLC

CONSTANTS ann, bob, x, y

Post(a, p, s, b) == [author |-> a, paper |-> p, supp |-> s, body |-> b]

Old == Post(ann, x, <<y, BadCID>>, <<x>>)
New == Post(bob, BadCID, <<NoCID, y>>, <<y>>)
MCTables == { <<>>, <<Old>>, <<New, Old>> }
=============================================================================
