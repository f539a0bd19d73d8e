-------------------------- MODULE EmbeddedNodeProofs --------------------------
(***************************************************************************)
(* Proofs about the embedded node, for any finite set of callers and any   *)
(* DAGs: the drain gate, the completeness of what is pinned, and what a    *)
(* save of the pin set guarantees.                                         *)
(***************************************************************************)
EXTENDS EmbeddedNode, FiniteSetTheorems, TLAPS

\* Pin steps of c that neither enter nor leave the WaitGroup, and change
\* nothing of the pin set, its file or the gate.
FetchStep(c) == \/ BitswapBlock(c) \/ BitswapDone(c) \/ BitswapFails(c)
                \/ CarFlush(c) \/ CarEnd(c) \/ CarFails(c) \/ CarExhausted(c)
                \/ WalkDone(c) \/ WalkFails(c)
SaveStep(c) == \/ MarkPinned(c) \/ Snapshot(c) \/ SaveOpen(c)
               \/ SaveCommit(c) \/ SaveFails(c)
ShutStep == \/ DrainGate \/ WaiterFinishes \/ DrainCompletes \/ DrainDeadline
            \/ DrainExpires \/ CloseSignal \/ CloseInternals

\* Who holds drainMu is between the gate and Add; behind a gate that Drain has
\* closed nobody is.
GateLock == /\ \A c \in Callers : pc[c] = "register" <=> drainMu = c
            /\ \A c \in Callers : pc[c] \in PinBody \cup {"register"} => op[c] = "pin"
            /\ drain # "idle" => done /\ drainMu = NoCaller

\* The counter, and what Drain concludes from it.
GateCount == /\ WaitGroupExact
             /\ finished => inFlight = 0 /\ drain # "idle"
             /\ drain = "drained" => finished

\* Drain's deadline reaches every Pin.
GateCancel == /\ \A c \in InFlightPins : c \in cancels \/ pc[c] = "finish"
              /\ DeadlineCancelsAll

Gate == GateLock /\ GateCount /\ GateCancel

\* The pin set's file: a caller that raced nobody is the only one between a
\* change of the pin set and the end of its save, so its copy is current.
Saves == /\ saving = {c \in Callers : pc[c] = "write"}
         /\ mixed \subseteq raced
         /\ raced \subseteq Savers
         /\ \A c \in Savers \ raced :
               /\ Savers = {c}
               /\ pc[c] \in {"open", "write"} => snap[c] = pins

\* Past the validation the argument is a CID; in a dead process nobody runs.
Args == \A c \in Callers :
           /\ pc[c] \in {"bitswap", "car", "walk", "mark", "serve"} => cid[c] \in CIDs
           /\ ~up => pc[c] = "idle"

\* Content: what is listed, or about to be listed, is complete.
Content == PinnedComplete /\ GatewayWhole

-----------------------------------------------------------------------------
(* Types *)

\* The ways a step may happen, in the groups the proofs use.
LEMMA StepCases ==
    ASSUME Next
    PROVE  \/ \E c \in Callers :
                \/ \E x \in CIDs \cup {BadCID} :
                      PinGate(c, x) \/ Unpin(c, x) \/ GatewayGuard(c, x)
                \/ CallerCancels(c) \/ PinRegister(c) \/ FetchStep(c) \/ SaveStep(c)
                \/ Unregister(c) \/ PinReturn(c) \/ GatewayServe(c)
           \/ SavesCollide \/ ShutStep \/ Exit \/ PowerLoss \/ Restart
  BY DEF Next, Call, Step, DrainStep, FetchStep, SaveStep, ShutStep

LEMMA TypeInit == Init => TypeOK
  <1> SUFFICES ASSUME Init PROVE TypeOK
    OBVIOUS
  <1>1. left \in [Callers -> 0..MaxChain] /\ inFlight \in Nat
    BY ChainAssumption DEF Init
  <1>2. got \in [Callers -> BOOLEAN] /\ up \in BOOLEAN /\ done \in BOOLEAN /\ finished \in BOOLEAN
    BY DEF Init
  <1> QED BY <1>1, <1>2 DEF Init, TypeOK, Places, PinBody, SaveBody,
                            PinFile!FileTypeOK, PinFile!Contents

\* TypeOK is not inductive alone: the counter stays natural because it counts
\* the Pin calls, and fetched blocks are blocks because the CID is one.
LEMMA TypeStep ==
    ASSUME TypeOK, Args, \A c \in Callers : pc[c] = "finish" => inFlight > 0,
           [Next]_vars
    PROVE  TypeOK'
  <1> USE DEF TypeOK, Places, PinBody, SaveBody, blockVars, gateVars, callVars, shutVars,
              fileVars, PinFile!FileTypeOK, PinFile!Contents, Goto
  <1>1. ASSUME NEW c \in Callers, NEW x \in CIDs \cup {BadCID}, PinGate(c, x)
        PROVE  TypeOK'
    BY <1>1 DEF PinGate
  <1>2. ASSUME NEW c \in Callers, NEW x \in CIDs \cup {BadCID}, Unpin(c, x)
        PROVE  TypeOK'
    BY <1>2 DEF Unpin, Begin, EnterSave, Savers
  <1>3. ASSUME NEW c \in Callers, NEW x \in CIDs \cup {BadCID}, GatewayGuard(c, x)
        PROVE  TypeOK'
    BY <1>3 DEF GatewayGuard, Begin
  <1>4. ASSUME NEW c \in Callers,
               CallerCancels(c) \/ PinRegister(c) \/ Unregister(c) \/ GatewayServe(c)
        PROVE  TypeOK'
    BY <1>4 DEF CallerCancels, PinRegister, Unregister, GatewayServe
  <1>5. ASSUME NEW c \in Callers, PinReturn(c)
        PROVE  TypeOK'
    BY <1>5 DEF PinReturn
  <1>6. ASSUME NEW c \in Callers, FetchStep(c)
        PROVE  TypeOK'
    <2>1. CASE BitswapBlock(c) \/ CarFlush(c)
      <3>1. store' \subseteq Blocks /\ lost' \subseteq Blocks
        BY <2>1, DagAssumption DEF BitswapBlock, CarFlush, Put, Args
      <3>2. got' \in [Callers -> BOOLEAN]
        BY <2>1 DEF BitswapBlock, CarFlush
      <3> QED BY <2>1, <3>1, <3>2 DEF BitswapBlock, CarFlush
    <2>2. CASE BitswapFails(c) \/ CarFails(c)
      <3>1. left' \in [Callers -> 0..MaxChain]
        BY <2>2, ChainAssumption DEF BitswapFails, CarFails
      <3>2. got' \in [Callers -> BOOLEAN]
        BY <2>2 DEF BitswapFails, CarFails
      <3> QED BY <2>2, <3>1, <3>2 DEF BitswapFails, CarFails
    <2>3. CASE BitswapDone(c) \/ CarEnd(c) \/ CarExhausted(c) \/ WalkDone(c) \/ WalkFails(c)
      BY <2>3 DEF BitswapDone, CarEnd, CarExhausted, WalkDone, WalkFails
    <2> QED BY <1>6, <2>1, <2>2, <2>3 DEF FetchStep
  <1>7. ASSUME NEW c \in Callers, SaveStep(c)
        PROVE  TypeOK'
    <2>1. CASE MarkPinned(c)
      BY <2>1 DEF MarkPinned, EnterSave, Savers, Args
    <2>2. CASE Snapshot(c)
      BY <2>2 DEF Snapshot
    <2>3. CASE SaveOpen(c)
      BY <2>3 DEF SaveOpen, PinFile!Open
    <2>4. CASE SaveCommit(c)
      BY <2>4 DEF SaveCommit, SaveEnds, PinFile!Commit, PinFile!Leave, PinFile!Jumble
    <2>5. CASE SaveFails(c)
      BY <2>5 DEF SaveFails, SaveEnds, PinFile!Fail, PinFile!Leave
    <2> QED BY <1>7, <2>1, <2>2, <2>3, <2>4, <2>5 DEF SaveStep
  <1>8. CASE SavesCollide
    BY <1>8 DEF SavesCollide, PinFile!Scramble, PinFile!Jumble
  <1>9. CASE ShutStep
    BY <1>9 DEF ShutStep, DrainGate, WaiterFinishes, DrainCompletes, DrainDeadline,
                DrainExpires, CloseSignal, CloseInternals
  <1>10. CASE Exit \/ PowerLoss
    <2>1. left' \in [Callers -> 0..MaxChain] /\ inFlight' \in Nat
      BY <1>10, ChainAssumption DEF Exit, PowerLoss, Dies
    <2>2. got' \in [Callers -> BOOLEAN]
      BY <1>10 DEF Exit, PowerLoss, Dies
    <2>3. up' = FALSE /\ done' = FALSE /\ finished' = FALSE
      BY <1>10 DEF Exit, PowerLoss, Dies
    <2>4. store' \subseteq Blocks /\ lost' \subseteq Blocks
      BY <1>10 DEF Exit, PowerLoss
    <2>5. Dies
      BY <1>10 DEF Exit, PowerLoss
    <2> QED BY <2>1, <2>2, <2>3, <2>4, <2>5 DEF Dies, PinFile!Kill
  <1>11. CASE Restart
    BY <1>11 DEF Restart, Loadable
  <1>12. CASE UNCHANGED vars
    BY <1>12 DEF vars
  <1> QED BY <1>1, <1>2, <1>3, <1>4, <1>5, <1>6, <1>7, <1>8, <1>9, <1>10,
             <1>11, <1>12, StepCases

-----------------------------------------------------------------------------
(* Arguments *)

LEMMA ArgsStep == TypeOK /\ Args /\ [Next]_vars => Args'
  <1> SUFFICES ASSUME TypeOK, Args, [Next]_vars PROVE Args'
    OBVIOUS
  <1> USE DEF TypeOK, Args, blockVars, gateVars, callVars, shutVars, fileVars, Goto
  <1>1. ASSUME NEW c \in Callers, NEW x \in CIDs \cup {BadCID},
               PinGate(c, x) \/ Unpin(c, x) \/ GatewayGuard(c, x)
        PROVE  Args'
    BY <1>1 DEF PinGate, Unpin, GatewayGuard, Begin, EnterSave
  <1>2. ASSUME NEW c \in Callers,
               CallerCancels(c) \/ PinRegister(c) \/ Unregister(c) \/ PinReturn(c) \/ GatewayServe(c)
        PROVE  Args'
    BY <1>2 DEF CallerCancels, PinRegister, Unregister, PinReturn, GatewayServe
  <1>3. ASSUME NEW c \in Callers, FetchStep(c)
        PROVE  Args'
    BY <1>3 DEF FetchStep, BitswapBlock, BitswapDone, BitswapFails, CarFlush, CarEnd,
                CarFails, CarExhausted, WalkDone, WalkFails
  <1>4. ASSUME NEW c \in Callers, SaveStep(c)
        PROVE  Args'
    BY <1>4 DEF SaveStep, MarkPinned, EnterSave, Snapshot, SaveOpen, SaveCommit,
                SaveFails, SaveEnds
  <1>5. CASE SavesCollide \/ ShutStep \/ Restart \/ UNCHANGED vars
    BY <1>5 DEF SavesCollide, ShutStep, DrainGate, WaiterFinishes, DrainCompletes,
                DrainDeadline, DrainExpires, CloseSignal, CloseInternals, Restart, vars
  <1>6. CASE Exit \/ PowerLoss
    BY <1>6 DEF Exit, PowerLoss, Dies
  <1> QED BY <1>1, <1>2, <1>3, <1>4, <1>5, <1>6, StepCases

-----------------------------------------------------------------------------
(* The drain gate *)

\* The steps that move no caller in or out of the WaitGroup.
LEMMA SameInFlight ==
    ASSUME TypeOK, Gate, NEW c \in Callers,
           \/ FetchStep(c) \/ SaveStep(c) \/ CallerCancels(c) \/ Unregister(c) \/ GatewayServe(c)
           \/ \E x \in CIDs \cup {BadCID} : PinGate(c, x) \/ Unpin(c, x) \/ GatewayGuard(c, x)
    PROVE  InFlightPins' = InFlightPins /\ inFlight' = inFlight
  <1> USE DEF TypeOK, Gate, GateLock, PinBody, SaveBody, InFlightPins, Registered, callVars,
              blockVars, gateVars, Goto
  <1>1. CASE FetchStep(c)
    BY <1>1 DEF FetchStep, BitswapBlock, BitswapDone, BitswapFails, CarFlush, CarEnd,
                CarFails, CarExhausted, WalkDone, WalkFails
  <1>2. CASE SaveStep(c)
    BY <1>2 DEF SaveStep, MarkPinned, EnterSave, Snapshot, SaveOpen, SaveCommit,
                SaveFails, SaveEnds
  <1>3. CASE CallerCancels(c) \/ Unregister(c) \/ GatewayServe(c)
    BY <1>3 DEF CallerCancels, Unregister, GatewayServe
  <1>4. CASE \E x \in CIDs \cup {BadCID} : PinGate(c, x) \/ Unpin(c, x) \/ GatewayGuard(c, x)
    BY <1>4 DEF PinGate, Unpin, GatewayGuard, Begin, EnterSave
  <1> QED BY <1>1, <1>2, <1>3, <1>4

LEMMA FiniteInFlight ==
    /\ IsFiniteSet(InFlightPins)
    /\ Cardinality(InFlightPins) \in Nat
    /\ Cardinality(InFlightPins) = 0 => InFlightPins = {}
  <1>1. IsFiniteSet(InFlightPins)
    BY CallersFinite, FS_Subset DEF InFlightPins
  <1> QED BY <1>1, FS_CardinalityType, FS_EmptySet

LEMMA GateInit == Init => Gate
  <1> SUFFICES ASSUME Init PROVE Gate
    OBVIOUS
  <1>1. InFlightPins = {}
    BY DEF Init, InFlightPins, Registered, PinBody, SaveBody
  <1> QED BY <1>1, FS_EmptySet, CallersFinite
             DEF Init, Gate, GateLock, GateCount, GateCancel, WaitGroupExact,
                 DeadlineCancelsAll, PinBody

LEMMA GateLockStep ==
    ASSUME TypeOK, Gate, [Next]_vars
    PROVE  GateLock'
  <1> USE DEF TypeOK, Gate, GateLock, blockVars, gateVars, callVars, shutVars, fileVars, Goto,
              PinBody, SaveBody
  <1>1. ASSUME NEW c \in Callers, FetchStep(c)
        PROVE  GateLock'
    BY <1>1 DEF FetchStep, BitswapBlock, BitswapDone, BitswapFails, CarFlush,
                CarEnd, CarFails, CarExhausted, WalkDone, WalkFails
  <1>2. ASSUME NEW c \in Callers, SaveStep(c)
        PROVE  GateLock'
    BY <1>2 DEF SaveStep, MarkPinned, EnterSave, Snapshot, SaveOpen, SaveCommit,
                SaveFails, SaveEnds
  <1>3. ASSUME NEW c \in Callers,
               CallerCancels(c) \/ Unregister(c) \/ PinReturn(c) \/ GatewayServe(c)
        PROVE  GateLock'
    BY <1>3 DEF CallerCancels, Unregister, PinReturn, GatewayServe
  <1>4. ASSUME NEW c \in Callers, NEW x \in CIDs \cup {BadCID},
               PinGate(c, x) \/ Unpin(c, x) \/ GatewayGuard(c, x)
        PROVE  GateLock'
    BY <1>4, CallersFinite DEF PinGate, Unpin, GatewayGuard, Begin, EnterSave
  <1>5. ASSUME NEW c \in Callers, PinRegister(c)
        PROVE  GateLock'
    BY <1>5, CallersFinite DEF PinRegister
  <1>6. CASE SavesCollide \/ ShutStep \/ Restart \/ UNCHANGED vars
    BY <1>6 DEF SavesCollide, ShutStep, DrainGate, WaiterFinishes, DrainCompletes,
                DrainDeadline, DrainExpires, CloseSignal, CloseInternals, Restart, vars
  <1>7. CASE Exit \/ PowerLoss
    BY <1>7, CallersFinite DEF Exit, PowerLoss, Dies
  <1> QED BY <1>1, <1>2, <1>3, <1>4, <1>5, <1>6, <1>7, StepCases

\* Who is in flight after a step.
LEMMA InFlightStep ==
    ASSUME TypeOK, Gate, [Next]_vars
    PROVE  \/ InFlightPins' = InFlightPins /\ inFlight' = inFlight
           \/ \E c \in Callers : /\ PinRegister(c) /\ drain = "idle" /\ ~finished
                                 /\ InFlightPins' = InFlightPins \cup {c}
                                 /\ c \notin InFlightPins
           \/ \E c \in Callers : /\ PinReturn(c)
                                 /\ InFlightPins' = InFlightPins \ {c}
                                 /\ c \in InFlightPins
           \/ (Exit \/ PowerLoss) /\ InFlightPins' = {} /\ inFlight' = 0
  <1>1. ASSUME NEW c \in Callers, PinRegister(c)
        PROVE  /\ drain = "idle" /\ ~finished
               /\ InFlightPins' = InFlightPins \cup {c} /\ c \notin InFlightPins
    <2>1. drain = "idle" /\ drainMu = c /\ op[c] = "pin" /\ pc[c] = "register"
      BY <1>1, CallersFinite DEF PinRegister, Gate, GateLock
    <2>2. InFlightPins' = InFlightPins \cup {c} /\ c \notin InFlightPins
      BY <1>1, <2>1 DEF PinRegister, InFlightPins, Registered, PinBody, SaveBody, TypeOK, Goto, callVars
    <2> QED BY <2>1, <2>2 DEF Gate, GateCount
  <1>2. ASSUME NEW c \in Callers, PinReturn(c)
        PROVE  InFlightPins' = InFlightPins \ {c} /\ c \in InFlightPins
    BY <1>2 DEF PinReturn, InFlightPins, Registered, PinBody, SaveBody, TypeOK, Goto, callVars
  <1>3. CASE SavesCollide \/ ShutStep \/ Restart \/ UNCHANGED vars
    <2>1. pc' = pc /\ op' = op /\ inFlight' = inFlight
      BY <1>3 DEF SavesCollide, ShutStep, DrainGate, WaiterFinishes, DrainCompletes,
                  DrainDeadline, DrainExpires, CloseSignal, CloseInternals, Restart,
                  vars, gateVars, callVars
    <2> QED BY <2>1 DEF InFlightPins, Registered
  <1>4. ASSUME Exit \/ PowerLoss
        PROVE  InFlightPins' = {} /\ inFlight' = 0
    BY <1>4 DEF Exit, PowerLoss, Dies, InFlightPins, Registered, PinBody, SaveBody
  <1> QED BY <1>1, <1>2, <1>3, <1>4, SameInFlight, StepCases

LEMMA GateCountStep ==
    ASSUME TypeOK, Gate, [Next]_vars
    PROVE  GateCount' /\ (drain # "idle" => inFlight' <= inFlight)
  <1>1. WaitGroupExact' /\ (drain # "idle" => inFlight' <= inFlight)
        /\ (inFlight' = 0 \/ ~finished \/ inFlight' = inFlight)
    <2>1. CASE InFlightPins' = InFlightPins /\ inFlight' = inFlight
      <3>1. Cardinality(InFlightPins') = Cardinality(InFlightPins)
        BY <2>1
      <3> QED BY <2>1, <3>1 DEF Gate, GateCount, WaitGroupExact, TypeOK
    <2>2. ASSUME NEW c \in Callers, PinRegister(c), drain = "idle", ~finished,
                 InFlightPins' = InFlightPins \cup {c}, c \notin InFlightPins
          PROVE  WaitGroupExact'
      <3>1. Cardinality(InFlightPins') = Cardinality(InFlightPins) + 1
        BY <2>2, FiniteInFlight, FS_AddElement
      <3> QED BY <2>2, <3>1 DEF PinRegister, Gate, GateCount, WaitGroupExact
    <2>3. ASSUME NEW c \in Callers, PinReturn(c),
                 InFlightPins' = InFlightPins \ {c}, c \in InFlightPins
          PROVE  WaitGroupExact' /\ inFlight' <= inFlight /\ ~finished
      <3>1. Cardinality(InFlightPins') = Cardinality(InFlightPins) - 1
        BY <2>3, FiniteInFlight, FS_RemoveElement
      <3>2. Cardinality(InFlightPins) # 0
        BY <2>3, FiniteInFlight
      <3>3. inFlight # 0
        BY <3>2 DEF Gate, GateCount, WaitGroupExact
      <3>4. ~finished
        BY <3>3 DEF Gate, GateCount
      <3> QED BY <2>3, <3>1, <3>4 DEF PinReturn, Gate, GateCount, WaitGroupExact, TypeOK
    <2>4. CASE InFlightPins' = {} /\ inFlight' = 0
      <3>1. Cardinality(InFlightPins') = 0
        BY <2>4, FS_EmptySet
      <3> QED BY <2>4, <3>1 DEF WaitGroupExact, TypeOK
    <2> QED BY <2>1, <2>2, <2>3, <2>4, InFlightStep
  <1>2. /\ finished' => (finished /\ drain' # "idle") \/ (inFlight' = 0 /\ drain' # "idle")
        /\ drain' = "drained" => finished'
        /\ finished' /\ ~finished => inFlight' = 0
    <2>1. CASE UNCHANGED shutVars
      BY <2>1 DEF shutVars, Gate, GateCount
    <2>2. CASE ShutStep
      BY <2>2 DEF ShutStep, DrainGate, WaiterFinishes, DrainCompletes, DrainDeadline,
                  DrainExpires, CloseSignal, CloseInternals, Gate, GateCount, gateVars
    <2>3. CASE Exit \/ PowerLoss
      BY <2>3 DEF Exit, PowerLoss, Dies
    <2>4. UNCHANGED shutVars \/ ShutStep \/ Exit \/ PowerLoss
      BY StepCases DEF vars, PinGate, Unpin, Begin, GatewayGuard, CallerCancels, PinRegister,
           FetchStep, BitswapBlock, BitswapDone, BitswapFails, CarFlush, CarEnd,
           CarFails, CarExhausted, WalkDone, WalkFails, SaveStep, MarkPinned, Snapshot,
           SaveOpen, SaveCommit, SaveFails, SaveEnds, Unregister, PinReturn,
           GatewayServe, SavesCollide, Restart
    <2> QED BY <2>1, <2>2, <2>3, <2>4
  <1>3. finished => inFlight = 0
    BY DEF Gate, GateCount
  <1> QED BY <1>1, <1>2, <1>3 DEF GateCount

LEMMA GateCancelStep ==
    ASSUME TypeOK, Gate, [Next]_vars
    PROVE  GateCancel'
  <1> USE DEF TypeOK, Gate, GateLock, GateCancel, DeadlineCancelsAll, blockVars,
              gateVars, callVars, shutVars, fileVars, Goto
  <1>1. ASSUME NEW c \in Callers, FetchStep(c) \/ SaveStep(c) \/ CallerCancels(c)
                                  \/ Unregister(c) \/ GatewayServe(c)
        PROVE  GateCancel'
    <2>1. InFlightPins' = InFlightPins
      BY <1>1, SameInFlight
    <2>2. /\ drain' = drain /\ cancelled \subseteq cancelled'
          /\ \A d \in Callers : pc[d] = "finish" => pc'[d] = "finish"
          /\ \A d \in Callers : d \in cancels => d \in cancels' \/ pc'[d] = "finish"
      <3>1. CASE FetchStep(c)
        BY <3>1 DEF FetchStep, BitswapBlock, BitswapDone, BitswapFails, CarFlush, CarEnd,
                    CarFails, CarExhausted, WalkDone, WalkFails
      <3>2. CASE SaveStep(c)
        BY <3>2 DEF SaveStep, MarkPinned, EnterSave, Snapshot, SaveOpen, SaveCommit,
                    SaveFails, SaveEnds
      <3>3. CASE CallerCancels(c) \/ Unregister(c) \/ GatewayServe(c)
        BY <3>3 DEF CallerCancels, Unregister, GatewayServe
      <3> QED BY <1>1, <3>1, <3>2, <3>3
    <2>3. \A d \in InFlightPins : d \in Callers
      BY DEF InFlightPins
    <2> QED BY <2>1, <2>2, <2>3
  <1>2. ASSUME NEW c \in Callers, NEW x \in CIDs \cup {BadCID},
               PinGate(c, x) \/ Unpin(c, x) \/ GatewayGuard(c, x)
        PROVE  GateCancel'
    <2>1. InFlightPins' = InFlightPins
      BY <1>2, SameInFlight
    <2>2. /\ drain' = drain /\ cancelled = cancelled' /\ cancels' = cancels
          /\ \A d \in Callers : pc[d] = "finish" => pc'[d] = "finish"
      BY <1>2 DEF PinGate, Unpin, GatewayGuard, Begin, EnterSave
    <2>3. \A d \in InFlightPins : d \in Callers
      BY DEF InFlightPins
    <2> QED BY <2>1, <2>2, <2>3
  <1>3. ASSUME NEW c \in Callers, PinRegister(c), drain = "idle",
               InFlightPins' = InFlightPins \cup {c}
        PROVE  GateCancel'
    <2>1. \A d \in InFlightPins : d \in Callers
      BY DEF InFlightPins
    <2> QED BY <1>3, <2>1 DEF PinRegister
  <1>4. ASSUME NEW c \in Callers, PinReturn(c), InFlightPins' = InFlightPins \ {c}
        PROVE  GateCancel'
    <2>1. \A d \in InFlightPins : d \in Callers
      BY DEF InFlightPins
    <2> QED BY <1>4, <2>1 DEF PinReturn
  <1>5. ASSUME SavesCollide \/ ShutStep \/ Restart \/ UNCHANGED vars
        PROVE  GateCancel'
    <2>1. pc' = pc /\ op' = op /\ cancels' = cancels /\ cancelled \subseteq cancelled'
      BY <1>5 DEF SavesCollide, ShutStep, DrainGate, WaiterFinishes, DrainCompletes,
                  DrainDeadline, DrainExpires, CloseSignal, CloseInternals, Restart, vars
    <2>2. InFlightPins' = InFlightPins
      BY <2>1 DEF InFlightPins, Registered
    <2>3. drain' \in {"grace", "expired"} =>
             drain \in {"grace", "expired"} \/ cancels \subseteq cancelled'
      BY <1>5 DEF SavesCollide, ShutStep, DrainGate, WaiterFinishes, DrainCompletes,
                  DrainDeadline, DrainExpires, CloseSignal, CloseInternals, Restart, vars
    <2> QED BY <2>1, <2>2, <2>3
  <1>6. ASSUME InFlightPins' = {}
        PROVE  GateCancel'
    BY <1>6
  <1>7. ASSUME NEW c \in Callers, PinRegister(c) \/ PinReturn(c)
        PROVE  GateCancel'
    <2>1. CASE PinRegister(c)
      <3>1. drain = "idle" /\ op[c] = "pin"
        BY <2>1, CallersFinite DEF PinRegister
      <3>2. InFlightPins' = InFlightPins \cup {c}
        BY <2>1, <3>1 DEF PinRegister, InFlightPins, Registered, PinBody, SaveBody
      <3> QED BY <1>3, <2>1, <3>1, <3>2
    <2>2. CASE PinReturn(c)
      <3>1. InFlightPins' = InFlightPins \ {c}
        BY <2>2 DEF PinReturn, InFlightPins, Registered, PinBody, SaveBody
      <3> QED BY <1>4, <2>2, <3>1
    <2> QED BY <1>7, <2>1, <2>2
  <1>8. CASE Exit \/ PowerLoss
    <2>1. InFlightPins' = {}
      BY <1>8 DEF Exit, PowerLoss, Dies, InFlightPins, Registered, PinBody, SaveBody
    <2> QED BY <1>6, <2>1
  <1> QED BY <1>1, <1>2, <1>5, <1>7, <1>8, StepCases

-----------------------------------------------------------------------------
(* Theorems about the gate *)

ControlInv == TypeOK /\ Args /\ Gate

LEMMA ControlInductive ==
    /\ Init => ControlInv
    /\ ControlInv /\ [Next]_vars => ControlInv'
  <1>1. Init => ControlInv
    BY TypeInit, GateInit DEF ControlInv, Init, Args
  <1>2. ASSUME ControlInv, [Next]_vars PROVE ControlInv'
    <2>1. ASSUME NEW c \in Callers, pc[c] = "finish" PROVE inFlight > 0
      <3>1. c \in InFlightPins
        BY <2>1 DEF InFlightPins, Registered, PinBody
      <3>2. Cardinality(InFlightPins) # 0
        BY <3>1, FiniteInFlight
      <3> QED BY <1>2, <3>2 DEF ControlInv, Gate, GateCount, WaitGroupExact, TypeOK
    <2>2. TypeOK'
      BY <1>2, <2>1, TypeStep DEF ControlInv
    <2>3. Args'
      BY <1>2, ArgsStep DEF ControlInv
    <2>4. Gate'
      BY <1>2, GateLockStep, GateCountStep, GateCancelStep DEF ControlInv, Gate
    <2> QED BY <2>2, <2>3, <2>4 DEF ControlInv
  <1> QED BY <1>1, <1>2

\* The type invariant of the embedded node; in particular the WaitGroup's
\* counter never becomes negative.
THEOREM TypeCorrect == Spec => []TypeOK
  <1>1. ControlInv => TypeOK
    BY DEF ControlInv
  <1> QED BY <1>1, ControlInductive, PTL DEF Spec

\* The WaitGroup counts exactly the Pin calls in flight.
THEOREM CountsExactly == Spec => []WaitGroupExact
  <1>1. ControlInv => WaitGroupExact
    BY DEF ControlInv, Gate, GateCount
  <1> QED BY <1>1, ControlInductive, PTL DEF Spec

\* After Drain has closed the gate no Pin joins the WaitGroup, even though
\* Close may close done while a Pin is between its check and its Add.
THEOREM GateSound == Spec => GateHolds
  <1>1. ControlInv /\ [Next]_vars => [drain # "idle" => inFlight' <= inFlight]_vars
    BY GateCountStep DEF ControlInv
  <1> QED BY <1>1, ControlInductive, PTL DEF Spec, GateHolds

\* When Drain returns nil no Pin is in flight, then and until the process ends.
THEOREM DrainSound == Spec => []DrainedQuiet
  <1>1. ControlInv => DrainedQuiet
    BY FiniteInFlight DEF ControlInv, Gate, GateCount, WaitGroupExact, DrainedQuiet
  <1> QED BY <1>1, ControlInductive, PTL DEF Spec

\* When Drain gives up, every Pin still running has been cancelled.
THEOREM DeadlineSound == Spec => []DeadlineCancelsAll
  <1>1. ControlInv => DeadlineCancelsAll
    BY DEF ControlInv, Gate, GateCancel
  <1> QED BY <1>1, ControlInductive, PTL DEF Spec

-----------------------------------------------------------------------------
(* What is pinned is complete *)

\* A step that adds to the store, and lists only what was listed or complete.
LEMMA ContentStep ==
    ASSUME TypeOK, Args, Content, [Next]_vars
    PROVE  Content'
  <1> USE DEF TypeOK, Content, PinnedComplete, GatewayWhole, Kept, Loadable, blockVars,
              gateVars, callVars, shutVars, fileVars, Goto
  <1>1. ASSUME NEW c \in Callers, FetchStep(c)
        PROVE  Content'
    <2>1. /\ store \subseteq store' /\ store \cup lost \subseteq store' \cup lost'
          /\ UNCHANGED <<pins, cid, snap, fileVars>>
      BY <1>1 DEF FetchStep, BitswapBlock, BitswapDone, BitswapFails, CarFlush, CarEnd,
                  CarFails, CarExhausted, WalkDone, WalkFails, Put
    <2>2. /\ \A d \in Callers \ {c} : pc'[d] = pc[d]
          /\ pc'[c] # "serve"
          /\ pc'[c] = "mark" => Dag[cid[c]] \subseteq store'
      BY <1>1 DEF FetchStep, BitswapBlock, BitswapDone, BitswapFails, CarFlush, CarEnd,
                  CarFails, CarExhausted, WalkDone, WalkFails, Put
    <2> QED BY <2>1, <2>2
  <1>2. ASSUME NEW c \in Callers, SaveStep(c)
        PROVE  Content'
    <2>1. CASE MarkPinned(c)
      BY <2>1 DEF MarkPinned, EnterSave
    <2>2. CASE Snapshot(c)
      BY <2>2 DEF Snapshot
    <2>3. CASE SaveOpen(c)
      BY <2>3 DEF SaveOpen, PinFile!Open
    <2>4. CASE SaveCommit(c)
      <3>1. file' \in {snap[d] : d \in Callers} \cup {file, Damaged}
        BY <2>4 DEF SaveCommit, PinFile!Commit, PinFile!Jumble, PinFile!FileTypeOK
      <3> QED BY <2>4, <3>1 DEF SaveCommit, SaveEnds
    <2>5. CASE SaveFails(c)
      BY <2>5 DEF SaveFails, SaveEnds, PinFile!Fail
    <2> QED BY <1>2, <2>1, <2>2, <2>3, <2>4, <2>5 DEF SaveStep
  <1>3. ASSUME NEW c \in Callers, CallerCancels(c) \/ PinRegister(c) \/ Unregister(c)
                                  \/ PinReturn(c) \/ GatewayServe(c)
        PROVE  Content'
    BY <1>3 DEF CallerCancels, PinRegister, Unregister, PinReturn, GatewayServe
  <1>4. ASSUME NEW c \in Callers, NEW x \in CIDs \cup {BadCID},
               PinGate(c, x) \/ Unpin(c, x) \/ GatewayGuard(c, x)
        PROVE  Content'
    BY <1>4 DEF PinGate, Unpin, GatewayGuard, Begin, EnterSave
  <1>5. CASE SavesCollide
    <2>1. file' \in {snap[d] : d \in Callers} \cup {file, Damaged}
      BY <1>5 DEF SavesCollide, PinFile!Scramble, PinFile!Jumble, PinFile!FileTypeOK
    <2> QED BY <1>5, <2>1 DEF SavesCollide
  <1>6. CASE ShutStep \/ UNCHANGED vars
    BY <1>6 DEF ShutStep, DrainGate, WaiterFinishes, DrainCompletes, DrainDeadline,
                DrainExpires, CloseSignal, CloseInternals, vars
  <1>7. CASE Exit \/ PowerLoss
    <2>1. store \cup lost \subseteq store' \cup lost'
      BY <1>7 DEF Exit, PowerLoss
    <2>2. /\ pins' = {} /\ file' = file
          /\ \A c \in Callers : pc'[c] = "idle" /\ snap'[c] = {}
      BY <1>7 DEF Exit, PowerLoss, Dies, PinFile!Kill
    <2> QED BY <2>1, <2>2
  <1>8. CASE Restart
    BY <1>8 DEF Restart
  <1> QED BY <1>1, <1>2, <1>3, <1>4, <1>5, <1>6, <1>7, <1>8, StepCases

LEMMA ContentInductive ==
    /\ Init => Content
    /\ ControlInv /\ Content /\ [Next]_vars => Content'
  <1>1. Init => Content
    BY DEF Init, Content, PinnedComplete, GatewayWhole, Loadable
  <1> QED BY <1>1, ContentStep DEF ControlInv

\* Every CID that is pinned, is being saved as pinned or would be loaded as
\* pinned has its whole DAG in the blockstore, but for blocks a power loss
\* took, through any interleaving of pins, unpins, failed fetches, colliding
\* saves, kills, power losses and restarts.
THEOREM CompletePins == Spec => []PinnedComplete
  <1>1. Content => PinnedComplete
    BY DEF Content
  <1> QED BY <1>1, ContentInductive, ControlInductive, PTL DEF Spec

\* A request that gatewayGuard let through finds every block a power loss has
\* not taken, although the CID may be unpinned in between.
THEOREM GatewaySound == Spec => []GatewayWhole
  <1>1. Content => GatewayWhole
    BY DEF Content
  <1> QED BY <1>1, ContentInductive, ControlInductive, PTL DEF Spec

\* While the power holds nothing is lost.
LEMMA NothingLost == ~PowerFails => (Spec => [](lost = {}))
  <1>1. Init => lost = {}
    BY DEF Init
  <1>2. ASSUME ~PowerFails, lost = {}, [Next]_vars PROVE lost' = {}
    <2> USE <1>2 DEF blockVars
    <2>1. ASSUME NEW c \in Callers, FetchStep(c) PROVE lost' = {}
      BY <2>1 DEF FetchStep, BitswapBlock, BitswapDone, BitswapFails, CarFlush, CarEnd,
                  CarFails, CarExhausted, WalkDone, WalkFails, Put
    <2>2. ASSUME NEW c \in Callers, SaveStep(c) PROVE lost' = {}
      BY <2>2 DEF SaveStep, MarkPinned, Snapshot, SaveOpen, SaveCommit, SaveFails, SaveEnds
    <2>3. ASSUME NEW c \in Callers, CallerCancels(c) \/ PinRegister(c) \/ Unregister(c)
                                    \/ PinReturn(c) \/ GatewayServe(c)
          PROVE  lost' = {}
      BY <2>3 DEF CallerCancels, PinRegister, Unregister, PinReturn, GatewayServe
    <2>4. ASSUME NEW c \in Callers, NEW x \in CIDs \cup {BadCID},
                 PinGate(c, x) \/ Unpin(c, x) \/ GatewayGuard(c, x)
          PROVE  lost' = {}
      BY <2>4 DEF PinGate, Unpin, GatewayGuard
    <2>5. CASE SavesCollide \/ ShutStep \/ Restart \/ UNCHANGED vars
      BY <2>5 DEF SavesCollide, ShutStep, DrainGate, WaiterFinishes, DrainCompletes,
                  DrainDeadline, DrainExpires, CloseSignal, CloseInternals, Restart, vars
    <2>6. CASE Exit \/ PowerLoss
      BY <2>6 DEF Exit, PowerLoss
    <2> QED BY <2>1, <2>2, <2>3, <2>4, <2>5, <2>6, StepCases
  <1>3. ASSUME ~PowerFails PROVE Spec => [](lost = {})
    <2>1. lost = {} /\ [Next]_vars => (lost = {})'
      BY <1>2, <1>3
    <2> QED BY <1>1, <2>1, PTL DEF Spec
  <1> QED BY <1>3

\* Unless power fails, every pinned or saved CID has its whole DAG in the
\* blockstore.
COROLLARY WholeUnlessPowerFails ==
    ~PowerFails => (Spec => [](\A x \in pins \cup Loadable : Dag[x] \subseteq store))
  <1>1. PinnedComplete /\ lost = {} => \A x \in pins \cup Loadable : Dag[x] \subseteq store
    BY DEF PinnedComplete, Kept
  <1>2. ASSUME ~PowerFails
        PROVE  Spec => [](\A x \in pins \cup Loadable : Dag[x] \subseteq store)
    BY <1>1, <1>2, CompletePins, NothingLost, PTL
  <1> QED BY <1>2

-----------------------------------------------------------------------------
(* Saves *)

LEMMA SavesStep ==
    ASSUME TypeOK, Args, Saves, [Next]_vars
    PROVE  Saves'
  <1> USE DEF TypeOK, Saves, Savers, SaveBody, blockVars, gateVars, callVars, shutVars, fileVars,
              Goto, PinFile!FileTypeOK
  <1>1. ASSUME NEW c \in Callers, FetchStep(c)
        PROVE  Saves'
    BY <1>1 DEF FetchStep, BitswapBlock, BitswapDone, BitswapFails, CarFlush, CarEnd,
                CarFails, CarExhausted, WalkDone, WalkFails
  <1>2. ASSUME NEW c \in Callers, SaveStep(c)
        PROVE  Saves'
    <2>1. CASE MarkPinned(c)
      <3>1. Savers' = Savers \cup {c} /\ c \notin Savers
        BY <2>1 DEF MarkPinned, EnterSave
      <3> QED BY <2>1, <3>1 DEF MarkPinned, EnterSave
    <2>2. CASE Snapshot(c)
      <3>1. Savers' = Savers
        BY <2>2 DEF Snapshot
      <3> QED BY <2>2, <3>1 DEF Snapshot
    <2>3. CASE SaveOpen(c)
      <3>1. Savers' = Savers /\ c \in Savers
        BY <2>3 DEF SaveOpen
      <3>2. saving' = saving \cup {c} /\ raced' = raced /\ UNCHANGED <<pins, snap>>
        BY <2>3 DEF SaveOpen, PinFile!Open
      <3>3. mixed' \subseteq raced
        <4>1. CASE saving = {}
          BY <2>3, <4>1 DEF SaveOpen, PinFile!Open
        <4>2. CASE saving # {}
          <5>1. PICK d \in saving : d \in Savers /\ d # c
            BY <2>3, <4>2 DEF SaveOpen
          <5>2. \A e \in Savers : e \in raced
            BY <3>1, <5>1
          <5> QED BY <2>3, <3>1, <5>2 DEF SaveOpen, PinFile!Open
        <4> QED BY <4>1, <4>2
      <3> QED BY <2>3, <3>1, <3>2, <3>3 DEF SaveOpen
    <2>4. CASE SaveCommit(c) \/ SaveFails(c)
      <3>1. Savers' = Savers \ {c} /\ c \in Savers
        BY <2>4 DEF SaveCommit, SaveFails, SaveEnds
      <3>2. saving' = saving \ {c} /\ mixed' = mixed \ {c} /\ raced' = raced \ {c}
        BY <2>4 DEF SaveCommit, SaveFails, SaveEnds, PinFile!Commit, PinFile!Fail, PinFile!Leave
      <3> QED BY <2>4, <3>1, <3>2 DEF SaveCommit, SaveFails, SaveEnds
    <2> QED BY <1>2, <2>1, <2>2, <2>3, <2>4 DEF SaveStep
  <1>3. ASSUME NEW c \in Callers, CallerCancels(c) \/ PinRegister(c) \/ Unregister(c)
                                  \/ PinReturn(c) \/ GatewayServe(c)
        PROVE  Saves'
    BY <1>3 DEF CallerCancels, PinRegister, Unregister, PinReturn, GatewayServe
  <1>4. ASSUME NEW c \in Callers, NEW x \in CIDs \cup {BadCID},
               PinGate(c, x) \/ GatewayGuard(c, x)
        PROVE  Saves'
    BY <1>4 DEF PinGate, GatewayGuard, Begin
  <1>5. ASSUME NEW c \in Callers, NEW x \in CIDs \cup {BadCID}, Unpin(c, x)
        PROVE  Saves'
    <2>1. CASE x = BadCID
      BY <1>5, <2>1, DagAssumption DEF Unpin, Begin
    <2>2. CASE x \in CIDs
      <3>1. Savers' = Savers \cup {c} /\ c \notin Savers
        BY <1>5, <2>2, DagAssumption DEF Unpin, Begin, EnterSave
      <3> QED BY <1>5, <2>2, <3>1, DagAssumption DEF Unpin, Begin, EnterSave
    <2> QED BY <2>1, <2>2
  <1>6. CASE SavesCollide \/ ShutStep \/ UNCHANGED vars
    BY <1>6 DEF SavesCollide, PinFile!Scramble, ShutStep, DrainGate, WaiterFinishes,
                DrainCompletes, DrainDeadline, DrainExpires, CloseSignal,
                CloseInternals, vars
  <1>7. CASE Exit \/ PowerLoss
    BY <1>7 DEF Exit, PowerLoss, Dies, PinFile!Kill
  <1>8. CASE Restart
    BY <1>8 DEF Restart, Args
  <1> QED BY <1>1, <1>2, <1>3, <1>4, <1>5, <1>6, <1>7, <1>8, StepCases

\* A successful save by a caller that raced nobody leaves pins.json equal to
\* the pin set.
THEOREM SoloSaveSound == Spec => SoloSavePersists
  <1>1. Init => Saves
    BY DEF Init, Saves, Savers, SaveBody
  <1>2. ControlInv /\ Saves /\ [Next]_vars => Saves'
    BY SavesStep DEF ControlInv
  <1>3. ASSUME ControlInv, Saves, NEW c \in Callers, SaveCommit(c), c \notin raced
        PROVE  file' = pins'
    <2>1. c \in Savers \ raced /\ pc[c] = "write" /\ c \notin mixed
      BY <1>3 DEF SaveCommit, Saves, Savers, SaveBody
    <2>2. snap[c] = pins
      BY <1>3, <2>1 DEF Saves
    <2> QED BY <1>3, <2>1, <2>2 DEF SaveCommit, SaveEnds, PinFile!Commit
  <1>4. ControlInv /\ Saves /\ [Next]_vars =>
          [\A c \in Callers : SaveCommit(c) /\ c \notin raced => file' = pins']_vars
    BY <1>3
  <1> QED BY <1>1, <1>2, <1>4, ControlInductive, PTL DEF Spec, SoloSavePersists
=============================================================================
