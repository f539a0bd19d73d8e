----------------------------- MODULE AutoPinMatch -----------------------------
(***************************************************************************)
(* AutoPinRule.Matches and AutoPinManager.MatchingItems (src/autopin.go).  *)
(* MatchingItems runs under mu.RLock, so the rules do not change below it. *)
(*                                                                         *)
(* Strings are model values with strings.ToLower and strings.Contains as   *)
(* constants; times are hours, dates days counted from the same origin.    *)
(***************************************************************************)
EXTENDS Integers, Sequences, FiniteSets, SequencesExt

CONSTANTS Texts,      \* every string that occurs
          Empty,      \* ""
          Lower,      \* strings.ToLower
          Substrings  \* pairs <<s, t>> with strings.Contains(t, s)

ASSUME TextAssumption == Empty \in Texts /\ Lower \in [Texts -> Texts]

Day == 24

\* A bound of a rule: the field is empty, unreadable for time.Parse, or a day.
Bound == [kind : {"empty", "bad", "date"}, day : Int]

\* What a rule filters, and a rule as far as Matches looks at it.
FilterType == [Disciplines : SUBSET Texts, Authors : SUBSET Texts,
               CIDTypes : SUBSET Texts, TitlePattern : Texts,
               CreatedAfter : Bound, CreatedBefore : Bound]
ItemType == [Discipline : Texts, Author : Texts, CIDType : Texts, Title : Texts,
             Created : Int]

containsCI(haystack, needle) == \E s \in haystack : Lower[s] = Lower[needle]

\* The filters of Matches, one by one: each that is set may reject the item.
Passes(f, item) ==
    /\ ~(f.Disciplines # {} /\ ~containsCI(f.Disciplines, item.Discipline))
    /\ ~(f.Authors # {} /\ ~containsCI(f.Authors, item.Author))
    /\ ~(f.CIDTypes # {} /\ ~containsCI(f.CIDTypes, item.CIDType))
    /\ ~(f.TitlePattern # Empty
            /\ <<Lower[f.TitlePattern], Lower[item.Title]>> \notin Substrings)
    /\ ~(f.CreatedAfter.kind = "date" /\ item.Created < f.CreatedAfter.day * Day)
    /\ ~(f.CreatedBefore.kind = "date"
            /\ ~(item.Created < (f.CreatedBefore.day + 1) * Day))

Matches(r, item) == r.enabled /\ Passes(r.filter, item)

\* Fault: no break, the next rule is tried on the same item.
InnerNoBreak(rules, matched, item) ==
    FoldLeft(LAMBDA out, r : IF Matches(r, item) THEN Append(out, item) ELSE out,
             matched, rules)

\* The inner loop: the first rule that matches takes the item and breaks.
Try(item, l, r) == IF ~l.broken /\ Matches(r, item)
                   THEN [out |-> Append(l.out, item), broken |-> TRUE] ELSE l

InnerLoop(rules, matched, item) ==
    FoldLeft(LAMBDA l, r : Try(item, l, r), [out |-> matched, broken |-> FALSE], rules).out

MatchingItems(rules, items) ==
    FoldLeft(LAMBDA matched, item : InnerLoop(rules, matched, item), <<>>, items)

-----------------------------------------------------------------------------
(* What a rule means *)

\* The calendar day of the item lies in the window, both ends included, and a
\* bound that cannot be read is no bound.
InWindow(f, item) ==
    /\ f.CreatedAfter.kind = "date" => f.CreatedAfter.day <= item.Created \div Day
    /\ f.CreatedBefore.kind = "date" => item.Created \div Day <= f.CreatedBefore.day

\* A list that is not empty names the item's value in some spelling; the
\* pattern occurs.
Accepts(r, item) ==
    /\ r.enabled
    /\ InWindow(r.filter, item)
    /\ r.filter.TitlePattern = Empty
       \/ <<Lower[r.filter.TitlePattern], Lower[item.Title]>> \in Substrings
    /\ \A l \in {<<r.filter.Disciplines, item.Discipline>>,
                 <<r.filter.Authors, item.Author>>, <<r.filter.CIDTypes, item.CIDType>>} :
          l[1] = {} \/ Lower[l[2]] \in {Lower[s] : s \in l[1]}

\* The places of the items that some rule accepts.
Wanted(rules, items) ==
    {i \in 1..Len(items) : \E k \in 1..Len(rules) : Accepts(rules[k], items[i])}

\* out has the items at these places, in their order and each once.
Lists(out, items, places) ==
    /\ Len(out) = Cardinality(places)
    /\ \A i \in places : out[Cardinality({j \in places : j <= i})] = items[i]
=============================================================================
