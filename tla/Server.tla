-------------------------------- MODULE Server --------------------------------
(***************************************************************************)
(* The handlers of the management server that use the backend directly     *)
(* (src/server.go), over PinataBackend.  The handlers run concurrently, and*)
(* the process may die between any two of their steps: PinataBackend's     *)
(* Drain waits for nothing.                                                *)
(*                                                                         *)
(* handlePapers and handleStatus ask for the CIDs of discovery.Items one by*)
(* one; the first answers with the results and the second with their count.*)
(* PinnedCIDs has no handler; a caller of the interface is modelled as one.*)
(***************************************************************************)
EXTENDS Pinata

CONSTANTS Items,    \* the CIDs of discovery.Items()
          Readers   \* bound: goroutines whose requests may be papers, status and lists

ASSUME ServerConstants == /\ Items \in Seq(CIDs) /\ Items # <<>> /\ Readers \subseteq Callers
                          /\ \A i, j \in 1..Len(Items) : Items[i] = Items[j] => i = j

VARIABLES todo,     \* papers, status: CIDs still to look up
          yes, no,  \* those reported as pinned and as not pinned
          \* histories:
          seen, missed, \* CIDs that were, and were not, pinned at some time of the request
          failed,   \* CIDs whose lookup failed
          disturbed, \* was a change underway that the answer may depend on?
          known     \* what the last answer says of each CID

reportVars == <<todo, yes, no, failed>>
vars == <<pinataVars, reportVars, seen, missed, disturbed, known>>

TypeOK ==
    /\ PinataTypeOK
    /\ todo \in [Callers -> Seq(CIDs)]
    /\ \A set \in {yes, no, failed, seen, missed} : set \in [Callers -> SUBSET CIDs]
    /\ disturbed \in [Callers -> BOOLEAN]
    /\ known \in [CIDs -> {"pinned", "unpinned", "unknown"}]

Init ==
    /\ PinataInit
    /\ todo = [h \in Callers |-> <<>>]
    /\ yes = [h \in Callers |-> {}] /\ no = [h \in Callers |-> {}]
    /\ failed = [h \in Callers |-> {}]
    /\ seen = [h \in Callers |-> {}] /\ missed = [h \in Callers |-> {}]
    /\ disturbed = [h \in Callers |-> FALSE]
    /\ known = [x \in CIDs |-> "unknown"]

-----------------------------------------------------------------------------
(* Histories *)

Busy(h) == at[h] # "idle"
Reading(h) == Busy(h) /\ op[h] \notin Changes

\* Does the answer to o of x depend on the change r?  A list depends on every
\* unpin, a change on the opposite change of its CID.
Conflict(o, x, r) == \/ o = "PinnedCIDs" /\ r[1] = "Unpin"
                     \/ o = "Pin" /\ r = <<"Unpin", x>>
                     \/ o = "Unpin" /\ r = <<"Pin", x>>

\* A request reads the service's list; a list depends on what is underway.
Reads(h, o) ==
    /\ seen' = [seen EXCEPT ![h] = ToSet(remote)]
    /\ missed' = [missed EXCEPT ![h] = CIDs \ ToSet(remote)]
    /\ disturbed' = [disturbed EXCEPT ![h] = \E r \in Underway : Conflict(o, NoCID, r)]

\* Once a change is asked for, nothing is known of its CID until it is answered,
\* and the answers that depend on it are disturbed.
Asks(h, o, x) ==
    /\ known' = IF known[x] = (IF o = "Pin" THEN "unpinned" ELSE "pinned")
                THEN [known EXCEPT ![x] = "unknown"] ELSE known
    /\ disturbed' = [g \in Callers |->
          IF g = h THEN \E r \in Underway : Conflict(o, x, r)
          ELSE disturbed[g] \/ (Busy(g) /\ Conflict(op[g], arg[g], <<o, x>>))]
    /\ UNCHANGED <<seen, missed>>

Closes(h) ==
    /\ todo' = [todo EXCEPT ![h] = <<>>]
    /\ yes' = [yes EXCEPT ![h] = {}] /\ no' = [no EXCEPT ![h] = {}]
    /\ failed' = [failed EXCEPT ![h] = {}]
    /\ seen' = [seen EXCEPT ![h] = {}] /\ missed' = [missed EXCEPT ![h] = {}]
    /\ disturbed' = [disturbed EXCEPT ![h] = FALSE]

\* Every request underway has seen the change of the service's list.
Watch == /\ seen' = [h \in Callers |-> IF Reading(h) THEN seen[h] \cup ToSet(remote') ELSE {}]
         /\ missed' = [h \in Callers |-> IF Reading(h) THEN missed[h] \cup (CIDs \ ToSet(remote')) ELSE {}]

-----------------------------------------------------------------------------
(* Handlers.  A text that is no CID is answered with 400 and nothing else. *)

handlePin(h, x) ==
    /\ ~Busy(h)
    /\ Pin(h, x) /\ Asks(h, "Pin", x)
    /\ UNCHANGED reportVars

handleUnpin(h, x) ==
    /\ ~Busy(h)
    /\ Unpin(h, x) /\ Asks(h, "Unpin", x)
    /\ UNCHANGED reportVars

\* 200 if the backend has returned no error, and 500 if it has.
ChangeAnswered(h) ==
    /\ at[h] = "done" /\ op[h] \in Changes
    /\ known' = IF err[h] \/ disturbed[h] THEN known
                ELSE [known EXCEPT ![arg[h]] = IF op[h] = "Pin" THEN "pinned" ELSE "unpinned"]
    /\ Clear(h) /\ Closes(h)

\* handlePapers, handleStatus: the first item.
Report(h) ==
    /\ ~Busy(h)
    /\ IsPinned(h, Items[1]) /\ Reads(h, "IsPinned")
    /\ todo' = [todo EXCEPT ![h] = Tail(Items)]
    /\ UNCHANGED <<yes, no, failed, known>>

\* Fault: an error leaves the last item's value in pinned.
PinnedKept(h) == IF err[h] THEN yes[h] # {} ELSE rows[h] # <<>>

\* pinned, _ := IsPinned(...): an error is a false.
Pinned(h) == ~err[h] /\ rows[h] # <<>>

NextItem(h) ==
    /\ at[h] = "done" /\ op[h] = "IsPinned" /\ arg[h] \notin yes[h] \cup no[h]
    /\ yes' = [yes EXCEPT ![h] = IF Pinned(h) THEN @ \cup {arg[h]} ELSE @]
    /\ no' = [no EXCEPT ![h] = IF Pinned(h) THEN @ ELSE @ \cup {arg[h]}]
    /\ failed' = [failed EXCEPT ![h] = IF err[h] THEN @ \cup {arg[h]} ELSE @]
    /\ IF todo[h] = <<>>
       THEN UNCHANGED <<pinataVars, todo>>
       ELSE IsPinned(h, Head(todo[h])) /\ todo' = [todo EXCEPT ![h] = Tail(@)]
    /\ UNCHANGED <<seen, missed, disturbed, known>>

\* writeJSON after the last item.
ReportAnswered(h) ==
    /\ at[h] = "done" /\ op[h] = "IsPinned" /\ arg[h] \in yes[h] \cup no[h]
    /\ Clear(h) /\ Closes(h)
    /\ UNCHANGED known

\* A call of PinnedCIDs.
List(h) ==
    /\ ~Busy(h)
    /\ PinnedCIDs(h) /\ Reads(h, "PinnedCIDs")
    /\ UNCHANGED <<reportVars, known>>

ListReturned(h) ==
    /\ at[h] = "done" /\ op[h] = "PinnedCIDs"
    /\ Clear(h) /\ Closes(h)
    /\ UNCHANGED known

-----------------------------------------------------------------------------
(* Steps of the backend and of the service under the handlers *)

Service == /\ \/ \E h \in Callers : Serves(h)
              \/ \E r \in late : LateArrives(r)
           /\ Watch
           /\ UNCHANGED <<reportVars, disturbed, known>>

\* An error page disturbs a list.
ServiceRefuses ==
    \E h \in Callers :
        /\ Refuses(h) /\ Watch
        /\ disturbed' = [disturbed EXCEPT ![h] = @ \/ op[h] = "PinnedCIDs"]
        /\ UNCHANGED <<reportVars, known>>

Client(h) == /\ GivesUp(h) \/ Returns(h) \/ NextPage(h)
             /\ UNCHANGED <<reportVars, seen, missed, disturbed, known>>

\* The process dies and another one is started.
Dies == /\ \E h \in Callers : Busy(h)
        /\ late' \in {r \in SUBSET Underway : Cardinality(r) <= MaxLate}
        /\ at' = [h \in Callers |-> "idle"]
        /\ op' = [h \in Callers |-> "IsPinned"] /\ arg' = [h \in Callers |-> NoCID]
        /\ ok' = [h \in Callers |-> FALSE] /\ err' = [h \in Callers |-> FALSE]
        /\ rows' = [h \in Callers |-> <<>>] /\ got' = [h \in Callers |-> <<>>]
        /\ offset' = [h \in Callers |-> 0] /\ todo' = [h \in Callers |-> <<>>]
        /\ yes' = [h \in Callers |-> {}] /\ no' = [h \in Callers |-> {}]
        /\ failed' = [h \in Callers |-> {}]
        /\ seen' = [h \in Callers |-> {}] /\ missed' = [h \in Callers |-> {}]
        /\ disturbed' = [h \in Callers |-> FALSE]
        /\ UNCHANGED <<remote, known>>

HandlerStep(h) == \/ Client(h)
                  \/ ChangeAnswered(h) \/ NextItem(h) \/ ReportAnswered(h) \/ ListReturned(h)

Next == \/ \E h \in Callers : \/ \E x \in CIDs : handlePin(h, x) \/ handleUnpin(h, x)
                              \/ HandlerStep(h)
        \/ \E h \in Readers : Report(h) \/ List(h)
        \/ Service \/ ServiceRefuses \/ Dies

\* The handlers run and the client's timeout expires; nothing is asked of the
\* service.
Spec == Init /\ [][Next]_vars /\ \A h \in Callers : WF_vars(HandlerStep(h))

-----------------------------------------------------------------------------
(* Properties *)

\* After a 200 for a pin or an unpin the service has done it, and what it has
\* done stays so, through errors, retries, repeated requests and restarts, until
\* the opposite is asked for - provided that no opposite request, not even one
\* that was given up long ago, was underway while the answer came.
KnownStatus ==
    \A x \in CIDs : /\ known[x] = "pinned" => x \in ToSet(remote)
                    /\ known[x] = "unpinned" => x \notin ToSet(remote)

\* papers and status report as pinned only what was pinned at some time of the
\* request and, where every lookup was answered, as not pinned only what was not.
\* It says nothing of what is reported as not pinned once a lookup has failed:
\* the handlers take the error for a false, and ARCHITECTURE.md:175 says
\* "IsPinned errors must not be coerced to false".
ReportsSound ==
    \A h \in Callers : /\ yes[h] \subseteq seen[h]
                       /\ failed[h] = {} => no[h] \subseteq missed[h]

\* PinnedCIDs "returns all currently pinned CIDs": a list has nothing that was
\* never pinned while it was made, and everything that was pinned all the time,
\* if no unpin was underway and no page was refused.
ListMeaning ==
    \A h \in Callers :
        op[h] = "PinnedCIDs" =>
            /\ ToSet(got[h]) \subseteq seen[h]
            /\ at[h] = "done" /\ ~err[h] /\ ~disturbed[h]
                 => CIDs \ missed[h] \subseteq ToSet(got[h])

\* Every request is answered, or dies with the process, although the service may
\* never answer.
RequestsEnd == \A h \in Callers : Busy(h) ~> ~Busy(h)
=============================================================================
