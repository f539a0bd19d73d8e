---------------------------- MODULE AutoPinRunner ----------------------------
(***************************************************************************)
(* AutoPinRunner.Run (src/autopin_runner.go): several calls at once (the   *)
(* discovery callback, the evaluate-rules and the pin-all handlers) push   *)
(* batches of items through one semaphore into the backend.                *)
(*                                                                         *)
(* An item is an author and a CID; a task is a position of a call's batch. *)
(* The backend is known by its interface: a set of pinned CIDs, an         *)
(* IsPinned that may fail and a Pin that takes time and may fail.          *)
(***************************************************************************)
EXTENDS Integers, Sequences, FiniteSets

CONSTANTS Runs,            \* calls of Run
          Authors, CIDs,
          Batches,         \* the batches a call may be given
          MaxBatch,        \* bound: longest batch
          concurrency, authorCap,  \* NewAutoPinRunner's arguments
          Wedgeable        \* authors whose Pin calls may all hang until cancelled

Items == [author : Authors, cid : CIDs]

ASSUME RunsFinite == IsFiniteSet(Runs)
ASSUME BatchAssumption == /\ MaxBatch \in Nat
                          /\ Batches \subseteq Seq(Items)
                          /\ \A b \in Batches : Len(b) <= MaxBatch
ASSUME WedgeAssumption == Wedgeable \subseteq Authors
ASSUME ArgsAssumption == concurrency \in Int /\ authorCap \in Int

VARIABLES phase,      \* each call: "idle", "schedule", "wait", "returned"
          batch,      \* the items it was given
          ctxDone,    \* is its ctx cancelled?
          task,       \* state of the goroutine of each position
          outcome,    \* history: how each goroutine ended
          wg,         \* WaitGroup counter of each call
          sem,        \* number of tokens in the runner's semaphore
          pinned, failed, isPinnedErrors,  \* counters of each call
          res,        \* the AutoPinResult of each call
          backend,    \* CIDs the backend has pinned
          hung        \* the authors whose Pin calls do hang, for good

counters == <<pinned, failed, isPinnedErrors>>
vars == <<phase, batch, ctxDone, task, outcome, wg, sem, counters, res, backend,
          hung>>

Tasks == Runs \X (1..MaxBatch)
TasksOf(r) == {t \in Tasks : t[1] = r}

\* A goroutine holds a token until it takes one off the channel again, and
\* stays in the WaitGroup one step longer.
Holding == {"probe", "pin", "release"}
Running == Holding \cup {"exit"}
Holders == {t \in Tasks : task[t] \in Holding}
RunningOf(r) == {t \in TasksOf(r) : task[t] \in Running}

Results == [Matched : Nat, Pinned : Nat, Failed : Nat, Shed : Nat,
            IsPinnedErrors : Nat]

TypeOK ==
    /\ phase \in [Runs -> {"idle", "schedule", "wait", "returned"}]
    /\ batch \in [Runs -> Seq(Items)]
    /\ ctxDone \in [Runs -> BOOLEAN]
    /\ task \in [Tasks -> {"none", "shed", "queued", "done"} \cup Running]
    /\ outcome \in [Tasks -> {"none", "pinned", "failed", "skipped", "error"}]
    /\ wg \in [Runs -> Nat]
    /\ sem \in Nat
    /\ pinned \in [Runs -> Nat] /\ failed \in [Runs -> Nat]
    /\ isPinnedErrors \in [Runs -> Nat]
    /\ res \in [Runs -> Results]
    /\ backend \subseteq CIDs
    /\ hung \subseteq Authors

Zero == [Matched |-> 0, Pinned |-> 0, Failed |-> 0, Shed |-> 0,
         IsPinnedErrors |-> 0]

Init == /\ phase = [r \in Runs |-> "idle"]
        /\ batch = [r \in Runs |-> <<>>]
        /\ ctxDone = [r \in Runs |-> FALSE]
        /\ task = [t \in Tasks |-> "none"]
        /\ outcome = [t \in Tasks |-> "none"]
        /\ wg = [r \in Runs |-> 0]
        /\ sem = 0
        /\ pinned = [r \in Runs |-> 0]
        /\ failed = [r \in Runs |-> 0]
        /\ isPinnedErrors = [r \in Runs |-> 0]
        /\ res = [r \in Runs |-> Zero]
        /\ backend \in SUBSET CIDs
        /\ hung \in SUBSET Wedgeable

-----------------------------------------------------------------------------
\* NewAutoPinRunner clamps both arguments.
Concurrency == IF concurrency < 1 THEN 1 ELSE concurrency
Cap == IF authorCap < 1 THEN 1 ELSE authorCap

\* Fault: one item too many.
QueuedOneMore(b) ==
    {i \in 1..Len(b) :
        Cardinality({j \in 1..(i - 1) : b[j].author = b[i].author}) <= Cap}

\* The first loop of Run: an item is queued unless authorCount, the number of
\* items already queued for its author, has reached the cap.
Queued(b) ==
    LET queued[i \in 1..Len(b)] ==
          Cardinality({j \in 1..(i - 1) : queued[j] /\ b[j].author = b[i].author}) < Cap
    IN  {i \in 1..Len(b) : queued[i]}

\* Run is called: shed, count, and return at once if nothing is queued.
Start(r) ==
    /\ phase[r] = "idle"
    /\ \E b \in Batches :
          /\ batch' = [batch EXCEPT ![r] = b]
          /\ task' = [t \in Tasks |->
                        IF t[1] # r \/ t[2] > Len(b) THEN task[t]
                        ELSE IF t[2] \in Queued(b) THEN "queued" ELSE "shed"]
          /\ res' = [res EXCEPT ![r].Matched = Len(b),
                                ![r].Shed = Len(b) - Cardinality(Queued(b))]
          /\ phase' = [phase EXCEPT ![r] = IF Queued(b) = {} THEN "returned"
                                                           ELSE "schedule"]
    /\ UNCHANGED <<ctxDone, outcome, wg, sem, counters, backend>>

\* Positions of r still to be scheduled.
Pending(r) == {t \in TasksOf(r) : task[t] = "queued"}

\* Fault: a token more than the channel holds.
ScheduleOneMore(r, t) ==
    /\ phase[r] = "schedule"
    /\ t \in Pending(r) /\ \A u \in Pending(r) : t[2] <= u[2]
    /\ sem <= Concurrency
    /\ sem' = sem + 1
    /\ wg' = [wg EXCEPT ![r] = @ + 1]
    /\ task' = [task EXCEPT ![t] = "probe"]
    /\ UNCHANGED <<phase, batch, ctxDone, outcome, counters, res, backend>>

\* The schedule loop gets a token, in the order of the batch, and starts the
\* goroutine.
Schedule(r, t) ==
    /\ phase[r] = "schedule"
    /\ t \in Pending(r) /\ \A u \in Pending(r) : t[2] <= u[2]
    /\ sem < Concurrency
    /\ sem' = sem + 1
    /\ wg' = [wg EXCEPT ![r] = @ + 1]
    /\ task' = [task EXCEPT ![t] = "probe"]
    /\ UNCHANGED <<phase, batch, ctxDone, outcome, counters, res, backend>>

\* Fault: no ctx.Done case.
StopWhenEmpty(r) ==
    /\ phase[r] = "schedule" /\ Pending(r) = {}
    /\ phase' = [phase EXCEPT ![r] = "wait"]
    /\ UNCHANGED <<batch, ctxDone, task, outcome, wg, sem, counters, res, backend>>

\* The loop ends: nothing is left, or it took the ctx.Done case.
StopScheduling(r) ==
    /\ phase[r] = "schedule"
    /\ Pending(r) = {} \/ ctxDone[r]
    /\ phase' = [phase EXCEPT ![r] = "wait"]
    /\ UNCHANGED <<batch, ctxDone, task, outcome, wg, sem, counters, res, backend>>

\* Fault: no wg.Wait.
ReturnAtOnce(r) ==
    /\ phase[r] = "wait"
    /\ phase' = [phase EXCEPT ![r] = "returned"]
    /\ res' = [res EXCEPT ![r].Pinned = pinned[r], ![r].Failed = failed[r],
                          ![r].IsPinnedErrors = isPinnedErrors[r]]
    /\ UNCHANGED <<batch, ctxDone, task, outcome, wg, sem, counters, backend>>

\* wg.Wait is over: read the counters and return.
Return(r) ==
    /\ phase[r] = "wait" /\ wg[r] = 0
    /\ phase' = [phase EXCEPT ![r] = "returned"]
    /\ res' = [res EXCEPT ![r].Pinned = pinned[r], ![r].Failed = failed[r],
                          ![r].IsPinnedErrors = isPinnedErrors[r]]
    /\ UNCHANGED <<batch, ctxDone, task, outcome, wg, sem, counters, backend>>

-----------------------------------------------------------------------------
(* The goroutine of task t *)

Item(t) == batch[t[1]][t[2]]

End(t, o) == /\ task' = [task EXCEPT ![t] = "release"]
             /\ outcome' = [outcome EXCEPT ![t] = o]

\* Fault: a failed probe is not counted.
ProbeErrorSwallowed(t) ==
    /\ task[t] = "probe"
    /\ End(t, "error")
    /\ UNCHANGED <<phase, batch, ctxDone, wg, sem, counters, res, backend>>

\* An error of backend.IsPinned is counted and ends the task.
ProbeFails(t) ==
    /\ task[t] = "probe"
    /\ End(t, "error")
    /\ isPinnedErrors' = [isPinnedErrors EXCEPT ![t[1]] = @ + 1]
    /\ UNCHANGED <<phase, batch, ctxDone, wg, sem, pinned, failed, res, backend>>

\* backend.IsPinned answers: nothing is left to do for a CID that is pinned.
ProbeAnswers(t) ==
    /\ task[t] = "probe"
    /\ \/ Item(t).cid \in backend /\ End(t, "skipped")
       \/ /\ Item(t).cid \notin backend
          /\ task' = [task EXCEPT ![t] = "pin"]
          /\ UNCHANGED outcome
    /\ UNCHANGED <<phase, batch, ctxDone, wg, sem, counters, res, backend>>

\* backend.Pin returns, if it ever does. An error need not mean that the CID is
\* not pinned: a remote backend may have pinned it and its answer been lost.
PinCanEnd(t) == Item(t).author \notin hung \/ ctxDone[t[1]]

PinFails(t) ==
    /\ task[t] = "pin" /\ PinCanEnd(t)
    /\ End(t, "failed")
    /\ failed' = [failed EXCEPT ![t[1]] = @ + 1]
    /\ backend' \in {backend, backend \cup {Item(t).cid}}
    /\ UNCHANGED <<phase, batch, ctxDone, wg, sem, pinned, isPinnedErrors, res>>

PinSucceeds(t) ==
    /\ task[t] = "pin" /\ PinCanEnd(t)
    /\ End(t, "pinned")
    /\ pinned' = [pinned EXCEPT ![t[1]] = @ + 1]
    /\ backend' = backend \cup {Item(t).cid}
    /\ UNCHANGED <<phase, batch, ctxDone, wg, sem, failed, isPinnedErrors, res>>

\* The deferred functions, last one first: the token, then wg.Done.
ReleaseToken(t) ==
    /\ task[t] = "release"
    /\ sem' = sem - 1
    /\ task' = [task EXCEPT ![t] = "exit"]
    /\ UNCHANGED <<phase, batch, ctxDone, outcome, wg, counters, res, backend>>

\* Fault: no wg.Done where the CID was pinned already.
DoneUnlessSkipped(t) ==
    /\ task[t] = "exit"
    /\ wg' = [wg EXCEPT ![t[1]] = IF outcome[t] = "skipped" THEN @ ELSE @ - 1]
    /\ task' = [task EXCEPT ![t] = "done"]
    /\ UNCHANGED <<phase, batch, ctxDone, outcome, sem, counters, res, backend>>

GoroutineDone(t) ==
    /\ task[t] = "exit"
    /\ wg' = [wg EXCEPT ![t[1]] = @ - 1]
    /\ task' = [task EXCEPT ![t] = "done"]
    /\ UNCHANGED <<phase, batch, ctxDone, outcome, sem, counters, res, backend>>

\* The caller's ctx is cancelled.
Cancel(r) ==
    /\ phase[r] \in {"schedule", "wait"} /\ ~ctxDone[r]
    /\ ctxDone' = [ctxDone EXCEPT ![r] = TRUE]
    /\ UNCHANGED <<phase, batch, task, outcome, wg, sem, counters, res, backend>>

TaskStep(t) == \/ ProbeFails(t) \/ ProbeAnswers(t) \/ PinFails(t) \/ PinSucceeds(t)
               \/ ReleaseToken(t) \/ GoroutineDone(t)

RunStep(r) == (\E t \in Tasks : Schedule(r, t)) \/ StopScheduling(r) \/ Return(r)

Next == /\ \/ \E r \in Runs : Start(r) \/ RunStep(r) \/ Cancel(r)
           \/ \E t \in Tasks : TaskStep(t)
        /\ UNCHANGED hung

Spec == Init /\ [][Next]_vars

\* Goroutines are scheduled; backend calls return unless they hang; a goroutine
\* blocked on the semaphore gets a token that stays free.
Fairness == /\ \A r \in Runs : WF_vars(RunStep(r) /\ UNCHANGED hung)
            /\ \A t \in Tasks : WF_vars(TaskStep(t) /\ UNCHANGED hung)

FairSpec == Spec /\ Fairness

-----------------------------------------------------------------------------
(* Properties *)

Count(r, o) == Cardinality({t \in TasksOf(r) : outcome[t] = o})

\* The semaphore holds one token per goroutine at work, so all callers
\* together have at most Concurrency backend calls in progress.
SharedBound == sem = Cardinality(Holders) /\ sem <= Concurrency

\* The first loop keeps exactly the first Cap items of every author.
FirstOfEachAuthor ==
    \A r \in Runs : Queued(batch[r]) =
        {i \in 1..Len(batch[r]) :
            Cardinality({j \in 1..i : batch[r][j].author = batch[r][i].author}) <= Cap}

\* When Run has returned none of its goroutines is left, so nothing is pinned
\* on its behalf afterwards and its counters are final.
ReturnedQuiet == \A r \in Runs : phase[r] = "returned" => RunningOf(r) = {}

\* A returned result accounts for every item of the batch: shed, a Pin that
\* succeeded, a Pin that failed, probe error, already pinned, or left
\* unscheduled by a cancellation. Pinned is the number of successful Pin
\* calls; whether each was a new pin is CountedOnce's question.
ResultAccounts ==
    \A r \in Runs : phase[r] = "returned" =>
        /\ res[r].Pinned = Count(r, "pinned")
        /\ res[r].Failed = Count(r, "failed")
        /\ res[r].IsPinnedErrors = Count(r, "error")
        /\ res[r].Matched = res[r].Shed + res[r].Pinned + res[r].Failed
               + res[r].IsPinnedErrors + Count(r, "skipped") + Cardinality(Pending(r))
        /\ ~ctxDone[r] => Pending(r) = {}

\* Pinned "counts successful new pins" (src/autopin_runner.go:25): a CID that
\* nobody unpins is new once, so no two goroutines count it. The probe and the
\* Pin are two calls of the backend, and another call of Run pins in between.
CountedOnce ==
    \A t, u \in Tasks :
        (outcome[t] = "pinned" /\ outcome[u] = "pinned" /\ Item(t).cid = Item(u).cid)
            => t = u

\* Every call of Run returns if the backend always answers, whoever else
\* competes for the tokens.
RunReturns ==
    \A r \in Runs : (phase[r] = "schedule" /\ hung = {}) ~> phase[r] = "returned"

\* A cancelled Run returns even if the backend hangs, and even if another
\* call's hanging pins keep every token.
CancelledReturns == \A r \in Runs : ctxDone[r] ~> phase[r] = "returned"
=============================================================================
