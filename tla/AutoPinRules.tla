----------------------------- MODULE AutoPinRules -----------------------------
(***************************************************************************)
(* AutoPinManager (src/autopin.go): the list of auto-pin rules, edited by  *)
(* concurrent HTTP handlers under the lock mu and saved to autopin.json    *)
(* while mu is held; process death and restart.                            *)
(*                                                                         *)
(* AutoPinMatch models what a rule matches.  autopin.json is the register  *)
(* SavedFile.                                                              *)
(***************************************************************************)
EXTENDS AutoPinMatch

CONSTANTS Clients,          \* goroutines of HTTP handlers
          Main,             \* the goroutine that runs NewAutoPinManager
          NoOne,
          IDs,              \* rule IDs (newID draws 128 random bits)
          Filters, AnyFile, \* what a rule filters; the default rule's filter
          MaxRules,         \* bound: longest list AddRule makes
          Batches,          \* lists of items MatchingItems is called with
          Absent, Damaged

ASSUME GoroutinesDistinct == Main \notin Clients /\ NoOne \notin Clients \cup {Main}
ASSUME FilterAssumption == AnyFile \in Filters /\ Filters \subseteq FilterType
ASSUME BatchAssumption == Batches \subseteq Seq(ItemType)

Rule == [id : IDs, filter : Filters, enabled : BOOLEAN]
RuleList == Seq(Rule)
ASSUME FileMarks == Damaged \notin RuleList \cup {Absent}

Goroutines == Clients \cup {Main}

VARIABLES up,      \* "down", "starting" (in NewAutoPinManager) or "up"
          rules,   \* m.rules
          mu,      \* holder of m.mu
          op,      \* the change its holder is making
          undo,    \* what AddRule and UpdateRule roll back to
          ahead,   \* history: did a change that is not rolled back fail to save?
          file, doc, saving, mixed

RuleFile == INSTANCE SavedFile WITH Writers <- Goroutines, Payloads <- RuleList

fileVars == <<file, doc, saving, mixed>>
vars == <<up, rules, mu, op, undo, ahead, fileVars>>

TypeOK ==
    /\ up \in {"down", "starting", "up"}
    /\ rules \in RuleList /\ undo \in RuleList
    /\ mu \in Goroutines \cup {NoOne}
    /\ op \in {"none", "default", "add", "update", "delete", "enable"}
    /\ ahead \in BOOLEAN
    /\ RuleFile!FileTypeOK

Init == /\ up = "down" /\ rules = <<>> /\ mu = NoOne /\ op = "none" /\ undo = <<>>
        /\ ahead = FALSE
        /\ file = Absent /\ saving = {} /\ mixed = {}
        /\ doc = [g \in Goroutines |-> <<>>]

UsedIDs == {rules[i].id : i \in 1..Len(rules)}

-----------------------------------------------------------------------------
\* Fault: mu is not taken.
ChangeUnlocked(g, kind, new) ==
    /\ mu' = g
    /\ op' = kind
    /\ undo' = rules
    /\ rules' = new
    /\ RuleFile!Open(g, new)
    /\ UNCHANGED ahead

\* Goroutine g takes mu, makes the change and reaches the write in saveLocked.
Change(g, kind, new) ==
    /\ mu = NoOne
    /\ mu' = g
    /\ op' = kind
    /\ undo' = rules
    /\ rules' = new
    /\ RuleFile!Open(g, new)
    /\ UNCHANGED ahead

\* NewAutoPinManager: the saved list, or a saved default rule, or refuse to
\* start.
Load ==
    /\ up = "down"
    /\ file \notin {Absent, Damaged}
    /\ up' = "up"
    /\ rules' = file
    /\ UNCHANGED <<mu, op, undo, ahead, fileVars>>

CreateDefault ==
    /\ up = "down"
    /\ file = Absent
    /\ up' = "starting"
    /\ \E id \in IDs :
          Change(Main, "default", <<[id |-> id, filter |-> AnyFile, enabled |-> TRUE]>>)

AddRule(c) ==
    /\ up = "up"
    /\ Len(rules) < MaxRules
    /\ \E id \in IDs \ UsedIDs, f \in Filters, e \in BOOLEAN :
          Change(c, "add", Append(rules, [id |-> id, filter |-> f, enabled |-> e]))
    /\ UNCHANGED up

\* An unknown ID is an error and changes nothing, here and in DeleteRule.
UpdateRule(c) ==
    /\ up = "up"
    /\ \E i \in 1..Len(rules), f \in Filters, e \in BOOLEAN :
          Change(c, "update", [rules EXCEPT ![i].filter = f, ![i].enabled = e])
    /\ UNCHANGED up

DeleteRule(c) ==
    /\ up = "up"
    /\ \E i \in 1..Len(rules) :
          Change(c, "delete", SubSeq(rules, 1, i - 1) \o SubSeq(rules, i + 1, Len(rules)))
    /\ UNCHANGED up

SetAllEnabled(c) ==
    /\ up = "up"
    /\ \E e \in BOOLEAN :
          Change(c, "enable", [i \in 1..Len(rules) |-> [rules[i] EXCEPT !.enabled = e]])
    /\ UNCHANGED up

\* The write succeeds: the call returns and unlocks.
SaveCommit(g) ==
    /\ g \in saving
    /\ RuleFile!Commit(g)
    /\ mu' = NoOne /\ op' = "none" /\ undo' = <<>>
    /\ ahead' = FALSE
    /\ up' = "up"
    /\ UNCHANGED rules

\* Fault: UpdateRule does not roll back.
FailsHalfRolledBack(c) ==
    /\ c \in saving /\ up = "up"
    /\ RuleFile!Fail(c)
    /\ rules' = IF op = "add" THEN undo ELSE rules
    /\ ahead' = (ahead \/ op \in {"delete", "enable"})
    /\ mu' = NoOne /\ op' = "none" /\ undo' = <<>>
    /\ UNCHANGED up

\* The write fails.  AddRule and UpdateRule roll back; DeleteRule and
\* SetAllEnabled return the error and keep the change.
SaveFails(c) ==
    /\ c \in saving /\ up = "up"
    /\ RuleFile!Fail(c)
    /\ rules' = IF op \in {"add", "update"} THEN undo ELSE rules
    /\ ahead' = (ahead \/ op \in {"delete", "enable"})
    /\ mu' = NoOne /\ op' = "none" /\ undo' = <<>>
    /\ UNCHANGED up

\* Rules and MatchingItems hold mu.RLock while they use the list, so they never
\* meet a change that is being saved.
Readable == up = "up" /\ mu = NoOne

\* The process ends: killed at any point, or because the default rule could
\* not be saved.
Dies ==
    /\ up # "down"
    /\ up' = "down"
    /\ rules' = <<>> /\ mu' = NoOne /\ op' = "none" /\ undo' = <<>>
    /\ ahead' = FALSE
    /\ doc' = [g \in Goroutines |-> <<>>]
    /\ RuleFile!Kill

Next == \/ Load \/ CreateDefault \/ Dies
        \/ \E g \in Goroutines : SaveCommit(g)
        \/ \E c \in Clients : \/ AddRule(c) \/ UpdateRule(c) \/ DeleteRule(c)
                              \/ SetAllEnabled(c) \/ SaveFails(c)

Spec == Init /\ [][Next]_vars

-----------------------------------------------------------------------------
(* Properties *)

\* When the list can be read, autopin.json holds exactly the rules in memory: an
\* acknowledged change survives a restart, a rolled back one leaves no trace, and
\* no reader uses a change that may still be undone.  The exception is a
\* DeleteRule or SetAllEnabled whose write failed, until the next successful one.
Agreement == Readable /\ ~ahead => file = rules

\* autopin.json is always a whole list once it exists, so NewAutoPinManager can
\* parse it: all writers hold mu, although they share one temporary file.
Parseable == file # Damaged

\* MatchingItems returns the items that some enabled rule the user has saved
\* accepts, in their order and each once, however many rules accept it
\* (AutoPinRule: "All non-empty filters must match (AND). Any matching enabled
\* rule triggers a pin").
MatchesMeaning ==
    Readable => \A items \in Batches :
        Lists(MatchingItems(rules, items), items, Wanted(IF ahead THEN rules ELSE file, items))
=============================================================================
