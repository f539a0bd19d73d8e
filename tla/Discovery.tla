------------------------------ MODULE Discovery ------------------------------
(***************************************************************************)
(* Discovery (src/discovery.go): refresh reads the posts from the HAF      *)
(* database, extracts the CIDs they mention and publishes them as one list.*)
(* The first refresh runs in the goroutine that calls Start, later ones in *)
(* the ticker's goroutine.                                                 *)
(*                                                                         *)
(* A row has what extractItemsFromRow looks at.  refresh folds it over the *)
(* rows as it reads them; as the result depends on nothing else, the model *)
(* keeps the rows read and extracts when it publishes.                     *)
(***************************************************************************)
EXTENDS Naturals, Sequences, SequencesExt

CONSTANTS CIDs, BadCID, NoCID, \* valid CIDs; one ValidateCID drops; none given
          Authors,
          Tables,              \* the contents the database may have, newest post first
          MaxVersion,          \* bound: changes of the database
          Main, Ticker         \* the goroutines that refresh

Refreshers == {Main, Ticker}
AnyCID == CIDs \cup {BadCID, NoCID}
\* SuppJSON that does not parse is an empty list; body has the regular
\* expression's matches.
Row == [author : Authors, paper : AnyCID, supp : Seq(AnyCID), body : Seq(AnyCID)]
Item == [author : Authors, cid : CIDs, type : {"paper", "supplementary", "inline_image"}]

ASSUME DiscoveryConstants ==
    /\ BadCID \notin CIDs /\ NoCID \notin CIDs \cup {BadCID}
    /\ Tables \subseteq Seq(Row) /\ MaxVersion \in Nat /\ Main # Ticker

VARIABLES db, version,   \* the database's content and how often it has changed
          dbOpen,        \* is the pool open?
          ctxDone,       \* has Stop cancelled the context of Start?
          refresh,       \* each refresher's place
          rest, read,    \* rows still to come, and rows scanned
          asOf,          \* history: version of the database it is reading
          items,         \* d.items
          itemsRead, itemsAsOf \* history: the rows and version items came from

refreshVars == <<refresh, rest, read, asOf>>
listVars == <<items, itemsRead, itemsAsOf>>
discoveryVars == <<db, version, dbOpen, ctxDone, refreshVars, listVars>>

DiscoveryTypeOK ==
    /\ db \in Tables /\ version \in 0..MaxVersion
    /\ dbOpen \in BOOLEAN /\ ctxDone \in BOOLEAN
    /\ refresh \in [Refreshers -> {"idle", "query", "rows", "callback", "gone"}]
    /\ rest \in [Refreshers -> Seq(Row)] /\ read \in [Refreshers -> Seq(Row)]
    /\ asOf \in [Refreshers -> 0..MaxVersion]
    /\ items \in Seq(Item) /\ itemsRead \in Seq(Row) /\ itemsAsOf \in 0..MaxVersion

\* Start has been called: its goroutine does the first refresh.
DiscoveryInit ==
    /\ db \in Tables /\ version = 0
    /\ dbOpen = TRUE /\ ctxDone = FALSE
    /\ refresh = [g \in Refreshers |-> IF g = Main THEN "query" ELSE "gone"]
    /\ rest = [g \in Refreshers |-> <<>>]
    /\ read = [g \in Refreshers |-> <<>>]
    /\ asOf = [g \in Refreshers |-> 0]
    /\ items = <<>> /\ itemsRead = <<>> /\ itemsAsOf = 0

-----------------------------------------------------------------------------
(* extractItemsFromRow *)

\* The CIDs of a row, in the order of its three branches.
Mentions(row) ==
    LET from(cs, t) == [i \in 1..Len(cs) |-> [author |-> row.author, cid |-> cs[i], type |-> t]]
    IN  from(<<row.paper>>, "paper") \o from(row.supp, "supplementary")
           \o from(row.body, "inline_image")

\* Fault: ValidateCID is not called.
KeepInvalid(out, m) ==
    IF m.cid = NoCID \/ \E i \in 1..Len(out) : out[i].cid = m.cid
    THEN out
    ELSE Append(out, m)

\* One mention: no CID, one already seen and one that is not valid are skipped.
Keep(out, m) ==
    IF m.cid \notin CIDs \/ \E i \in 1..Len(out) : out[i].cid = m.cid
    THEN out
    ELSE Append(out, m)

\* Over all rows, with one map seen.
Extracted(rows) == FoldLeft(Keep, <<>>, FlattenSeq([i \in 1..Len(rows) |-> Mentions(rows[i])]))

-----------------------------------------------------------------------------
(* refresh *)

Goto(g, l) == refresh' = [refresh EXCEPT ![g] = l]

\* QueryContext: the rows are those of one moment.
Query(g) ==
    /\ refresh[g] = "query" /\ dbOpen /\ ~ctxDone
    /\ rest' = [rest EXCEPT ![g] = db]
    /\ read' = [read EXCEPT ![g] = <<>>]
    /\ asOf' = [asOf EXCEPT ![g] = version]
    /\ Goto(g, "rows")
    /\ UNCHANGED <<db, version, dbOpen, ctxDone, listVars>>

\* rows.Next and Scan; a row that cannot be scanned is skipped.
ReadRow(g) ==
    /\ refresh[g] = "rows" /\ rest[g] # <<>>
    /\ rest' = [rest EXCEPT ![g] = Tail(@)]
    /\ read' \in {read, [read EXCEPT ![g] = Append(@, Head(rest[g]))]}
    /\ UNCHANGED <<db, version, dbOpen, ctxDone, refresh, asOf, listVars>>

\* What the goroutine does after refresh: main goes on in Start, the ticker's
\* goroutine to its select.
After(g) == /\ Goto(g, IF g = Main THEN "gone" ELSE "idle")
            /\ rest' = [rest EXCEPT ![g] = <<>>]
            /\ read' = [read EXCEPT ![g] = <<>>]
            /\ asOf' = [asOf EXCEPT ![g] = 0]

\* Fault: the rows read before an error are published.
FailsPublishing(g) ==
    /\ refresh[g] \in {"query", "rows"}
    /\ items' = Extracted(read[g])
    /\ itemsRead' = read[g] \o rest[g]
    /\ UNCHANGED itemsAsOf
    /\ After(g)
    /\ UNCHANGED <<db, version, dbOpen, ctxDone>>

\* The query fails, or rows.Err: the published list stays.
RefreshFails(g) ==
    /\ refresh[g] \in {"query", "rows"}
    /\ After(g)
    /\ UNCHANGED <<db, version, dbOpen, ctxDone, listVars>>

\* All rows are read: publish under mu and call onRefresh.
Publish(g) ==
    /\ refresh[g] = "rows" /\ rest[g] = <<>>
    /\ items' = Extracted(read[g])
    /\ itemsRead' = read[g] /\ itemsAsOf' = asOf[g]
    /\ Goto(g, "callback")
    /\ UNCHANGED <<db, version, dbOpen, ctxDone, rest, read, asOf>>

\* onRefresh has returned.
RefreshEnds(g) ==
    /\ refresh[g] = "callback"
    /\ After(g)
    /\ UNCHANGED <<db, version, dbOpen, ctxDone, listVars>>

-----------------------------------------------------------------------------
(* Start, Stop and the ticker's goroutine *)

\* Fault: the goroutine is started before the first refresh is over.
StartTickerEarly ==
    /\ refresh[Main] # "gone" /\ refresh[Ticker] = "gone" /\ ~ctxDone
    /\ Goto(Ticker, "idle")
    /\ UNCHANGED <<db, version, dbOpen, ctxDone, rest, read, asOf, listVars>>

\* The end of Start.
StartTicker ==
    /\ refresh[Main] = "gone" /\ refresh[Ticker] = "gone" /\ ~ctxDone
    /\ Goto(Ticker, "idle")
    /\ UNCHANGED <<db, version, dbOpen, ctxDone, rest, read, asOf, listVars>>

\* The select may take the tick although ctx is done.
TickRefresh ==
    /\ refresh[Ticker] = "idle"
    /\ Goto(Ticker, "query")
    /\ UNCHANGED <<db, version, dbOpen, ctxDone, rest, read, asOf, listVars>>

TickerExits ==
    /\ refresh[Ticker] = "idle" /\ ctxDone
    /\ Goto(Ticker, "gone")
    /\ UNCHANGED <<db, version, dbOpen, ctxDone, rest, read, asOf, listVars>>

\* Cancels and closes the pool, and waits for nobody.
Stop ==
    /\ ctxDone' = TRUE /\ dbOpen' = FALSE
    /\ UNCHANGED <<db, version, refreshVars, listVars>>

\* A post is made, edited or deleted.
DBChanges ==
    /\ version < MaxVersion
    /\ version' = version + 1
    /\ db' \in Tables \ {db}
    /\ UNCHANGED <<dbOpen, ctxDone, refreshVars, listVars>>

RefreshStep(g) == Query(g) \/ ReadRow(g) \/ RefreshFails(g) \/ Publish(g)
=============================================================================
