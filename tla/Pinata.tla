-------------------------------- MODULE Pinata --------------------------------
(***************************************************************************)
(* PinataBackend (src/pinata.go): every call is one HTTP request to the    *)
(* pinning service, or one per page for PinnedCIDs.  The service may refuse*)
(* a request, answer late or not at all; a request whose answer nobody     *)
(* waits for any more may still take effect.                               *)
(*                                                                         *)
(* The service is modelled from what the code makes of its answers: 200 for*)
(* a pin or an unpin means that it is done, and pinList lists what is      *)
(* pinned in some order that an unpin only closes up.  Nobody else uses the*)
(* account.  Drain and Close do nothing.                                   *)
(***************************************************************************)
EXTENDS Naturals, FiniteSets, Sequences, SequencesExt

CONSTANTS CIDs, NoCID,
          Callers,    \* goroutines that use the backend
          PageSize,   \* pageSize
          MaxLate     \* bound: requests given up that may still arrive

ASSUME PinataConstants == PageSize \in Nat \ {0} /\ MaxLate \in Nat /\ NoCID \notin CIDs

VARIABLES remote,  \* what the service has pinned, in the order of pinList
          late,    \* requests the client has given up, which may still arrive
          at,      \* each caller's place in its call
          op, arg, \* the call and its CID
          ok, rows, \* the service's answer: status 200?  and what it lists
          offset, got, \* PinnedCIDs: offset and allCIDs
          err      \* did the call return an error?

callVars == <<at, op, arg, ok, rows, offset, got, err>>
pinataVars == <<remote, late, callVars>>

Changes == {"Pin", "Unpin"}
Ops == Changes \cup {"IsPinned", "PinnedCIDs"}

PinataTypeOK ==
    /\ remote \in Seq(CIDs) /\ late \subseteq Changes \X CIDs
    /\ at \in [Callers -> {"idle", "sent", "answered", "done"}]
    /\ op \in [Callers -> Ops] /\ arg \in [Callers -> CIDs \cup {NoCID}]
    /\ ok \in [Callers -> BOOLEAN] /\ err \in [Callers -> BOOLEAN]
    /\ rows \in [Callers -> Seq(CIDs)] /\ got \in [Callers -> Seq(CIDs)]
    /\ offset \in [Callers -> Nat]

PinataInit ==
    /\ remote = <<>> /\ late = {}
    /\ at = [c \in Callers |-> "idle"]
    /\ op = [c \in Callers |-> "IsPinned"] /\ arg = [c \in Callers |-> NoCID]
    /\ ok = [c \in Callers |-> FALSE] /\ err = [c \in Callers |-> FALSE]
    /\ rows = [c \in Callers |-> <<>>] /\ got = [c \in Callers |-> <<>>]
    /\ offset = [c \in Callers |-> 0]

\* The locals of a call that are gone when it returns or fails.
Forget(c) ==
    /\ ok' = [ok EXCEPT ![c] = FALSE] /\ rows' = [rows EXCEPT ![c] = <<>>]
    /\ offset' = [offset EXCEPT ![c] = 0] /\ got' = [got EXCEPT ![c] = <<>>]

\* A caller without a call.
Clear(c) ==
    /\ at' = [at EXCEPT ![c] = "idle"]
    /\ op' = [op EXCEPT ![c] = "IsPinned"] /\ arg' = [arg EXCEPT ![c] = NoCID]
    /\ err' = [err EXCEPT ![c] = FALSE]
    /\ Forget(c)
    /\ UNCHANGED <<remote, late>>

\* The call o of x, which is a CID ValidateCID accepts: doRequest sends it.
Begins(c, o, x) ==
    /\ at' = [at EXCEPT ![c] = "sent"]
    /\ op' = [op EXCEPT ![c] = o] /\ arg' = [arg EXCEPT ![c] = x]
    /\ Forget(c)
    /\ err' = [err EXCEPT ![c] = FALSE]
    /\ UNCHANGED <<remote, late>>

Pin(c, x) == Begins(c, "Pin", x)
Unpin(c, x) == Begins(c, "Unpin", x)
IsPinned(c, x) == Begins(c, "IsPinned", x)
PinnedCIDs(c) == Begins(c, "PinnedCIDs", NoCID)

\* Changes that have been asked for and may be done at any time.
Underway == late \cup {<<op[c], arg[c]>> : c \in {c \in Callers : at[c] = "sent" /\ op[c] \in Changes}}

-----------------------------------------------------------------------------
(* The service *)

\* The lists the service may have after it has done o to x.
After(o, x) ==
    CASE o = "Pin" /\ ~Contains(remote, x) ->
           {InsertAt(remote, i, x) : i \in 1..(Len(remote) + 1)}
      [] o = "Unpin" /\ Contains(remote, x) ->
           {RemoveAt(remote, i) : i \in {j \in 1..Len(remote) : remote[j] = x}}
      [] OTHER -> {remote}

\* What a request for the pin list asks for.
Listing(c) ==
    IF op[c] = "IsPinned" THEN IF Contains(remote, arg[c]) THEN <<arg[c]>> ELSE <<>>
    ELSE IF op[c] = "PinnedCIDs"
    THEN SubSeq(remote, offset[c] + 1, IF offset[c] + PageSize < Len(remote)
                                       THEN offset[c] + PageSize ELSE Len(remote))
    ELSE <<>>

\* It does what it is asked for ...
Serves(c) ==
    /\ at[c] = "sent"
    /\ remote' \in After(op[c], arg[c])
    /\ at' = [at EXCEPT ![c] = "answered"]
    /\ ok' = [ok EXCEPT ![c] = TRUE] /\ rows' = [rows EXCEPT ![c] = Listing(c)]
    /\ UNCHANGED <<late, op, arg, offset, got, err>>

\* ... or answers with an error, having perhaps done it nevertheless.
Refuses(c) ==
    /\ at[c] = "sent"
    /\ remote' \in {remote} \cup After(op[c], arg[c])
    /\ at' = [at EXCEPT ![c] = "answered"]
    /\ ok' = [ok EXCEPT ![c] = FALSE] /\ rows' = [rows EXCEPT ![c] = <<>>]
    /\ UNCHANGED <<late, op, arg, offset, got, err>>

\* A request nobody waits for arrives, is lost, or arrives and will again.
LateArrives(r) ==
    /\ r \in late
    /\ remote' \in {remote} \cup After(r[1], r[2])
    /\ late' \in {late, late \ {r}}
    /\ UNCHANGED callVars

-----------------------------------------------------------------------------
(* The client *)

\* Fault: an http.Client without Timeout.
GivesUpAnswered(c) ==
    /\ at[c] = "answered"
    /\ at' = [at EXCEPT ![c] = "done"] /\ err' = [err EXCEPT ![c] = TRUE]
    /\ Forget(c)
    /\ UNCHANGED <<remote, late, op, arg>>

\* An error of client.Do or of reading the answer: no connection, the client's
\* Timeout, or the end of the caller's context.  What has been sent may arrive.
GivesUp(c) ==
    /\ at[c] \in {"sent", "answered"}
    /\ at' = [at EXCEPT ![c] = "done"] /\ err' = [err EXCEPT ![c] = TRUE]
    /\ late' = IF at[c] = "sent" /\ op[c] \in Changes /\ Cardinality(late) < MaxLate
               THEN late \cup {<<op[c], arg[c]>>} ELSE late
    /\ Forget(c)
    /\ UNCHANGED <<remote, op, arg>>

\* Fault: the status is not looked at.
ReturnsAnyway(c) ==
    /\ at[c] = "answered" /\ op[c] # "PinnedCIDs"
    /\ at' = [at EXCEPT ![c] = "done"]
    /\ UNCHANGED <<remote, late, op, arg, ok, rows, offset, got, err>>

\* Pin, Unpin, IsPinned: an error unless the status is 200.
Returns(c) ==
    /\ at[c] = "answered" /\ op[c] # "PinnedCIDs"
    /\ at' = [at EXCEPT ![c] = "done"] /\ err' = [err EXCEPT ![c] = ~ok[c]]
    /\ UNCHANGED <<remote, late, op, arg, ok, rows, offset, got>>

\* Fault: a full page is taken for the last one.
NextPageEarly(c) ==
    /\ at[c] = "answered" /\ op[c] = "PinnedCIDs"
    /\ got' = [got EXCEPT ![c] = @ \o rows[c]]
    /\ at' = [at EXCEPT ![c] = IF Len(rows[c]) <= PageSize THEN "done" ELSE "sent"]
    /\ offset' = [offset EXCEPT ![c] = @ + PageSize]
    /\ UNCHANGED <<remote, late, op, arg, ok, rows, err>>

\* PinnedCIDs does not look at the status: an error page that is a JSON object
\* has no rows and so is the last one.
NextPage(c) ==
    /\ at[c] = "answered" /\ op[c] = "PinnedCIDs"
    /\ got' = [got EXCEPT ![c] = @ \o rows[c]]
    /\ IF Len(rows[c]) < PageSize
       THEN at' = [at EXCEPT ![c] = "done"] /\ UNCHANGED offset
       ELSE at' = [at EXCEPT ![c] = "sent"] /\ offset' = [offset EXCEPT ![c] = @ + PageSize]
    /\ UNCHANGED <<remote, late, op, arg, ok, rows, err>>
=============================================================================
