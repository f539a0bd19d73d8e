---------------------------- MODULE MCAutoPinRules ----------------------------
(***************************************************************************)
(* AutoPinRules for TLC: two handlers, up to two rules; names that differ  *)
(* in case only, and items on both sides of a rule's midnights.            *)
(***************************************************************************)
EXTENDS AutoPinRules

CONSTANTS ann, Ann, bob

MCTexts == {Empty, ann, Ann, bob}
MCLower == [t \in MCTexts |-> IF t = Ann THEN ann ELSE t]
MCSubstrings == {<<t, t>> : t \in MCTexts} \cup {<<Empty, t>> : t \in MCTexts}

Date(d) == [kind |-> "date", day |-> d]
NoDate == [kind |-> "empty", day |-> 0]

MCAnyFile == [Disciplines |-> {}, Authors |-> {}, CIDTypes |-> {}, TitlePattern |-> Empty,
              CreatedAfter |-> NoDate, CreatedBefore |-> NoDate]

MCFilters == { MCAnyFile,
               [Disciplines |-> {Ann, bob}, Authors |-> {Ann}, CIDTypes |-> {bob},
                TitlePattern |-> Ann, CreatedAfter |-> Date(2), CreatedBefore |-> Date(2)] }

MkItem(a, t) ==
    [Discipline |-> a, Author |-> a, CIDType |-> bob, Title |-> ann, Created |-> t]

MCItems == {MkItem(ann, t) : t \in {47, 48, 71, 72}} \cup {MkItem(bob, 48)}
MCBatches == {<<i, j>> : i \in MCItems, j \in MCItems}

Perms == Permutations(Clients) \cup Permutations(IDs)
=============================================================================
