# TLA+ models of pevo-pinner

pevo-pinner watches a HAF database for papers published on Hive, decides with
auto-pin rules which of their CIDs to keep, and keeps them: with an embedded
IPFS node or with Pinata. This directory holds TLA+ models of its parts, the TLC
configurations that check them on small instances, and TLAPS proofs of the
properties that matter most, for every value of the constants.

Run things here: `tlc -workers 2 -config X.cfg MCx` for a run,
`tlapm XProofs.tla` for proofs. `PROJECT.json` lists the runs, what every definition was
translated from, the fault each property detects, and the hazards.

## The system

| Part | Source | State | Operations |
|---|---|---|---|
| State files | `atomicfile.go` | `path`, `path.tmp` | `atomicWriteFile` |
| Embedded node | `ipfsnode.go` | pin set under `mu`; `done`, `inFlight`, `cancels` under `drainMu`; `pins.json`; blockstore | `Pin`, `Unpin`, `IsPinned`, `Drain`, `Close` |
| Fetch | `ipfsnode_fetch.go`, `ipfsnode_repo.go` | blocks | bitswap, CAR import from a chain of gateways, offline re-walk |
| Gateway | `ipfsnode_gateway.go` | none | `gatewayGuard`, serve |
| Mesh | `ipfsnode_pubsub.go` | peer cache under `mu`, WaitGroup | `recvLoop`, `evictLoop`, `advertiseLoop`, dials, `Stop` |
| Auto-pin rules | `autopin.go` | rule list under `mu`, `autopin.json` | add, update, delete, enable all, `MatchingItems` |
| Auto-pin runner | `autopin_runner.go` | shared semaphore; per call a WaitGroup and counters | `Run` |
| Discovery | `discovery.go` | item list under `mu`, pool, ticker goroutine | `refresh`, `Start`, `Stop`, `Items` |
| Process | `main.go` | place in start-up and shutdown | start, signal, shutdown sequence |
| Server | `server.go` | none | HTTP handlers over the above |
| Pinata | `pinata.go` | the service's pin list | `Pin`, `Unpin`, `IsPinned`, `PinnedCIDs` over HTTP; `Drain` and `Close` are empty |
| Configuration | `config.go` | none | `loadDotenv`, `ParseConfig` |
| Host | `ipfsnode_libp2p.go` | `peer.key` | `loadOrCreatePeerKey`, `newLibp2pHost` |

How they interact: a refresh publishes the item list and calls back into main,
which filters it with the rules and hands it to the runner; HTTP handlers call
the same runner with the published list, and the node and the rules directly.
The runner calls the backend from many goroutines. The node saves its pin set, the
rules their list, both through `atomicWriteFile`: the rules under their lock, the
node without one. The mesh cache feeds the chain of gateways that a Pin walks.
On a signal main stops the HTTP server, then discovery, then drains and closes
the node; each of these leaves somebody running whom the next one must cope with.
On start main parses the configuration and opens pool, rules and backend in turn,
each of which may fail; the node in turn opens datastore, host, bitswap, gateway
and mesh, and must close again what it has opened.

What is hard: the drain gate against Pins that are just registering; Close,
which signals without the lock Drain uses; saves that share one temporary file;
deaths and power losses between system calls; a runner shared by callers that
are cancelled or hang; dials added to a WaitGroup that Stop waits on; refreshes
that outlive Stop; requests to Pinata that take effect after they were given up; an
identity file written in place; settings with four sources. The list, line by line, is under `hazards` in `PROJECT.json`.

## Modules

| Module | Models | Composed of |
|---|---|---|
| `SavedFile` | the abstract register a state file is | |
| `StateFile` | `atomicWriteFile`, one action per system call | implements `SavedFile` |
| `EmbeddedNode` | node, fetch and gateway | `SavedFile` for `pins.json` |
| `AutoPinMatch` | `Matches`, `MatchingItems` (operators) | |
| `AutoPinRules` | the rule list and `autopin.json` | `AutoPinMatch`, `SavedFile` |
| `AutoPinRunner` | `Run` | the backend by its interface |
| `FallbackChain` | gateway URLs, `assembleFallbackChain` | |
| `Mesh` | the mesh manager | `FallbackChain` |
| `Discovery` | `refresh`, extraction, `Start`, `Stop` | |
| `Pinner` | main from the first refresh to exit, and the handlers that pin | `Discovery`; `Run` and the gate abstractly |
| `Config` | `loadDotenv`, `ParseConfig` (operators) | |
| `Startup` | main up to a listening server, `NewEmbeddedNode`, `peer.key` | `Config` |
| `Pinata` | the Pinata backend and the service behind it | |
| `Server` | the handlers for pins, papers and status | `Pinata` |

`MCx` gives `x` small constants; `xProofs` has its theorems. Operators whose
comment begins with "Fault:" are plausible mistakes in the definition that
follows; nothing uses them but the mutants of `PROJECT.json`, each of which
makes TLC find the property it belongs to violated.

### State files

`StateFile` keeps inodes with content, which of them are durable, and the two
directory entries. A writer goes through open, write, sync, close (then the
three error checks), rename, or remove after an error; every call may fail, and
a write may be cut short. `Kill` loses the writers, `PowerLoss` also what was
not synced. `Serialized` says whether the caller holds a lock around the call
(the rules do, the pin set does not). The register `SavedFile` promises: a save
that met no other one replaces the content or leaves it; overlapping ones may
leave any document being saved, or a damaged file. A failed `os.OpenFile` is
covered as a save that opens and then fails, and the rename is taken to be
durable in the order it was made.

### Embedded node

A DAG is a set of blocks. Every caller is a goroutine inside `Pin`, `Unpin` or a
gateway request. `Pin`'s critical section of `drainMu` is two steps (look at
`done`, register), because `Close` closes `done` without taking `drainMu`.
Bitswap adds blocks one at a time and may fail at any time; the fallback chain
is a number of gateways, each of which flushes batches, ends cleanly after at
least one block, or fails; the re-walk decides. `savePins` takes its copy in one
step and writes it in later ones. `Drain` and `Close` are called once per
process, as `main.go` does. Death empties memory; a restart reads what
`pins.json` then holds, an unreadable file being logged only. A power loss also
takes blocks, none of which is synced; the history `lost` remembers which blocks
went that way and were not stored again, so that completeness can be stated
with power losses: what is listed is in `store` but for what is in `lost`.

### Runner, rules, matching

`AutoPinRunner` has calls, their batches, and a goroutine per queued item with
its deferred steps in order (token, then `wg.Done`). `hung` fixes the authors
whose pins hang until cancelled. `Unpin` is left out of the backend: `Run` never calls it.
`AutoPinRules` has every edit under `mu` with its save; a failed add or update
is rolled back, a failed delete or enable-all is not (`ahead` remembers it).
`newID` is taken to be fresh. `AutoPinMatch` has dates as instants before, at and
after midnights, and texts with a lower-case form and substrings. A rule is an
ID, a filter and whether it is enabled; whenever `mu` is free a reader may call
`MatchingItems` on any of `Batches`.

### Mesh and fallback chain

Entries have ages instead of time stamps, so time is unbounded and the state is
finite. A tick waits in the ticker's channel and carries its age; a heartbeat is stamped
before the lock is taken and ages until it is inserted. `Gateways[p]` is what
peer `p` advertises; messages of its own, malformed ones and ones that claim to
be another peer's are one action, `Ignore`. URLs are records of what the code
looks at; the two normalisations change the spelling only. An explicit port is kept, the
scheme's default port too, as the code does.

### Discovery and process

`Discovery` has two goroutines that may refresh: the one in `Start` and the
ticker's. Rows come from one moment of the database, can be skipped by a scan error,
and the iteration can fail at any row. `Pinner` adds `Run` calls by the callback
and by handlers, the gate, and main's sequence. A signal before `signal.Notify`
kills the process, and so does an error of `ListenAndServe` (`ServerFails`), neither with
a drain. The model is of the embedded backend: Pinata has no gate.

### Configuration and start

`Config` has a text per setting and source; of `LogConfig`, which prints the result, it has
the one text redactURL cannot slice. What `time.ParseDuration`, `strconv` and
`strings.Split` make of a text is a constant. `Startup` is one process after
another, each with inputs of its own, over data directories that outlive them.
`NewEmbeddedNode` goes through its resources one by one, every step may fail, and
`held` is what is open. `os.WriteFile` of `peer.key` is two steps, creation and
writing; what was not written back may be gone, or partly so, after a power loss. A
generated key is one nobody has had. `newBitswap` never returns an error, so its
error branch, which would leave the DHT open, is not modelled. The shutdown is
one step here; `Pinner` has its parts.

### Pinata and the server

A call is sent, answered and returned, or given up: `http.Client` has a timeout of
30 s and the caller's context may end. A request that was given up may arrive
later, more than once or not at all (`late`), also after a restart. The service
keeps an ordered list; a new pin may appear anywhere in it. `handlePapers` and
`handleStatus` are one sequence of lookups. `known`, `seen`, `missed` and
`disturbed` are histories: what the last undisturbed 200 says of a CID, what was and
was not pinned in the course of a request, and whether a change was underway on
which its answer depends. No handler calls `PinnedCIDs`; it is modelled as the interface
offers it. Nobody else uses the account.

## Runs

| Run | Instance | Shows |
|---|---|---|
| `locked_saves` | 2 writers, 2 documents of different length, 3 inodes, power losses | with a lock the file is one whole document at every moment, and the system calls implement `SavedFile` |
| `shared_tmp` (violation) | the same without lock or power loss | a second save truncates the temporary file the first one renames |
| `node_drain` | 2 callers, a DAG of 2 blocks, a chain of 1, failing saves, deaths, power losses and restarts | gate and forced cancellation; pins and served content complete but for lost blocks; a save that met no other is what is in memory |
| `node_live` | one life of the process | every Pin and every Drain returns |
| `lost_pin` (violation) | saves that do not overlap | the older copy of the pin set is written last |
| `runner_calls` | 2 calls, 1 token, a batch with an author over the cap and an empty one, an author whose pins may hang | shared bound, cap, drained pool, accounting; calls return, cancelled ones whatever hangs |
| `double_count` (violation) | 2 calls, 2 tokens, one CID | both calls count the CID as newly pinned |
| `rules_edit` | 2 clients, 2 IDs, lists of up to 2 rules, batches of up to 2 items | memory and file agree; what a reader's `MatchingItems` gives is what the rules mean |
| `mesh_cache` | 3 peers, a cache of 2, late ticks; one gateway in two spellings, another port of its host, an internal host | cap, authenticity, TTL, chain, Stop |
| `pinner_process` | 3 tables, 2 changes, 1 handler | published list, batches apart, late pins rejected, shutdown ends |
| `start` | 12 settings, each with two texts from every combination of flag, environment and `.env` lines; 2 data directories, one with two spellings; 3 keys | precedence, positive bounds, which settings crash an accepted process, the identity, what a failed start leaves open |
| `pinata` | 2 CIDs, 2 handlers of which one also reads, pages of 1, at most 1 late request | what a 200, a report and a list are worth; every request ends |

Why the bounds are enough: every property is about two actors at a time (two
savers, a Pin against Drain, two calls of Run, a heartbeat against a tick), so
two callers, and one peer more than the cache holds, produce each order of
steps; documents of two lengths are needed for a partial overwrite, two blocks
for a partial DAG, two posts for a CID mentioned twice. `TTL = 0` with ages up to
2 keeps both sides of the strict comparison and a tick that is one unit late.
One token is the sharpest bound of the pool, and the one under which calls keep
each other waiting; goroutines side by side are left to `double_count` and to the
theorems, which hold for any number of tokens. Batches hold a CID once, as discovery and
`MatchingItems` give them, and nothing is pinned at first: what one call pins the other
finds pinned. A third key lets each directory have one while another is generated. Pages of one
row put every unpin at a page boundary. `Readers` keeps one of the two handlers to
pins and unpins, since two reports do not affect each other, and `MaxLate = 1`
suffices because a single late request already overtakes a later call; `Inputs`
varies one setting at a time, because `ParseConfig` treats settings
independently but for the Pinata keys, which have inputs of their own.
Symmetry is used over callers, clients and keys in runs without liveness
properties only.

Deadlock is checked in `locked_saves`, `node_*`, `rules_edit`, `start` and
`pinata`. The other runs
end: calls return, the mesh stops, the process exits.

Fairness: goroutines that can run do; every network leg has a timeout, so a
failure step is always possible for it; timers and tickers fire; a select with
`ctx.Done` ready takes it in the end (Go chooses at random, hence strong fairness of
the advertise loop's exit); a Go mutex does not starve a waiter (strong fairness of the
step in which a Pin takes `drainMu` to unregister). Nothing is assumed of
databases, clients, peers or the Pinata service, and of the backend only in
`RunReturns`, that it answers. `RequestsEnd` rests on the handlers' own steps, the
client's timeout among them.

## What the violations show

- `shared_tmp`: `savePins` calls `atomicWriteFile` without a lock and all calls
  use one temporary name, so "cannot leave a partial file at the canonical path"
  (`atomicfile.go:5`) does not hold for two Pins at once.
- `lost_pin`: even with writes apart, the copy taken first may be written last;
  a CID whose Pin returned nil is then missing from `pins.json`.
- `double_count`: two calls of `Run` both find a CID unpinned before either pins it, and
  both count it, although "Pinned counts successful new pins" (`autopin_runner.go:25`).
  `ResultAccounts` says what the counter is: the number of Pin calls that succeeded.

Seen while modelling and not run as violations:

- flatfs is opened with `sync = false` (`ipfsnode_repo.go:23`), so after a power
  loss `pins.json` may list CIDs whose blocks are gone; `PinnedComplete` allows
  for these blocks and for nothing else.
- With `authorCap >= concurrency` (the defaults) one author's hanging pins hold
  every token, against the comment at `autopin_runner.go:58`.
- A failed `DeleteRule` or `SetAllEnabled` is not rolled back, and the handler
  reports a failed save of an update or a delete as 404.
- `normalizeFallbackURL` keeps an explicit default port, while its comment
  (`ipfsnode_fetch.go:142`) and that of `fetch_test.go:276` say that "trailing-slash / case /
  default-port" variants collapse; the test has no URL with a port. `ChainSound` says nothing
  of lists with such a URL: there a gateway may come twice. Without known
  peers the chain is the configured list, not deduplicated.
- The mesh is stopped by `Close` only, not by `Drain` (`ipfsnode_pubsub.go:88`).
- A signal during the first refresh ends the process without a drain.
- `REFRESH_INTERVAL` may be zero or negative; `time.NewTicker` then panics once the
  first refresh is over. A `HAF_DATABASE_URL` of a lone "@" is accepted too, and panics when
  the configuration is printed (`config.go:408`). `PanicsExplained` says that there are no
  other such settings.
- "CLI flags override" (`config.go:106`; also `README.md:70` and
  `agents/docs/ARCHITECTURE.md:167`) is not so for `MESH_ADVERTISE_DISABLED` and
  `MESH_ALLOW_PRIVATE`: where both are given the environment and `.env` decide, as the
  comment at `config.go:256` has it. `Precedence` says nothing of that case.
- `peer.key` is written in place and not synced, although state files "MUST be
  written atomically" (`agents/docs/ARCHITECTURE.md:117`). A kill between creation
  and write leaves a file that makes every later start fail; it never replaces an
  identity that was in use (`IdentityKept`), because the host comes after the write.
- With `PORT` equal to `GATEWAY_PORT` the embedded mode cannot start on the default
  binds: the management server finds the port taken.
- The caps of an author are filled with the same first items on every refresh,
  pinned ones included, so items beyond the cap are not tried while those stay in the list.
- A Pinata `Unpin` that was given up may undo a later successful `Pin` and the
  other way round; `KnownStatus` holds for answers without such a request underway.
- `PinnedCIDs` (pinata) "returns all currently pinned CIDs" (`pinner.go:47`) unless an
  unpin moves rows over a page boundary or a page is refused with a JSON error,
  which it takes for the last page; `ListMeaning` excepts these two.
- papers and status take an `IsPinned` error for "not pinned" (`server.go:113` and 192),
  while `agents/docs/ARCHITECTURE.md:175` says that such errors "must not be coerced to
  `false`" and are "handled at the caller". `ReportsSound` says nothing of what is
  reported as not pinned in a request with a failed lookup.

## Proofs

All theorems hold for every value of the constants that satisfies the named
assumptions (finite sets of goroutines, `Dag` a function into sets of blocks,
natural-number bounds and the like). The pattern is the same everywhere: an
inductive invariant `IInv`, a lemma per action or group of actions, and a
temporal step at the end.

- `StateFileProofs`: `TypeCorrect`; `LockedSavesAtomic` from `LockedInv`, which
  says of each stage of the one active writer what its inode holds and that the
  inode at `path` is whole and durable; `Refines`, step by step, with `Canonical` as the
  register's content. Without a lock the refinement needs the absence of power
  loss, which is how it is stated; that case is proved and not run.
- `EmbeddedNodeProofs`: the control part (`Gate`: `drainMu` is held exactly by a
  Pin that is registering; the counter is the number of Pins between Add and
  Done; a Pin in that section is in `cancels` or about to return; once `finished` or
  the deadline, what follows from it) gives `CountsExactly`, `GateSound`,
  `DrainSound` and `DeadlineSound`. It is needed because none of these is
  inductive alone: that nobody joins after the gate closed rests on the lock
  being free at that moment. The content part (every listed, copied, saved or
  to-be-saved CID has its DAG in `store` or `lost`, and so has one about to be
  marked) gives `CompletePins` and `GatewaySound`, power losses or not;
  `WholeUnlessPowerFails` adds that without them `lost` is empty. The saving part (a
  save not `raced` has as its copy the pin set and its file is not `mixed`) gives
  `SoloSaveSound`.
- `AutoPinRunnerProofs`: tokens and WaitGroup shares are cardinalities of sets of
  tasks; with that, `PoolBounded` and `RunDrainsItsPool`. `CapKeepsTheFirst` follows the
  loop that counts an author's items along the batch. `ResultsAddUp` needs
  `Accounts`: a task has an outcome exactly when its goroutine is past its backend call, each
  counter is the number of its outcomes, the head of the result was fixed when the
  batch was shed, a returned result equals counters that cannot change any
  more (no goroutine is left, by `RunDrainsItsPool`'s invariant), and only a cancelled
  call leaves queued items. The batch is then a disjoint union of six sets of tasks.
- `AutoPinRulesProofs`: only the holder of `mu` saves, and while it does the file
  still has the old list, or the failed changes are remembered; hence
  `RulesAgree`, `RulesParseable`. `MatchesIsAccepts`: the comparison with instants is
  the same as the one in whole days. `MatchingIsExact`: after k items the outer loop has
  the wanted ones among them in order, because the inner loop appends an
  item once at most.
- `MeshProofs`: the WaitGroup is the number of loops plus dials, and the heartbeat
  being applied has an allowed gateway; hence `StopWaits` (recvLoop, which adds
  dials, is itself counted), `CacheIsSound` and `EvictsOnlyStale`. `ChainIsSound`: after k
  gateways the chain has the first of each normal form, and its normal
  forms are those seen so far.
- `StartupProofs`: `SourcesRank` by induction over the lines of `.env` (the
  environment holds the first non-empty text that a line gave, unless it was set before).
  The invariant has the accepted configuration (`Accepted`), what is open
  at each place of `NewEmbeddedNode` (`Resources`), and that a key being made is for a
  directory without an identity while one about to be used is in its file
  (`Identity`); hence the other four. `OthersDoNotPanic` covers the two tickers, whose
  periods are positive but for `REFRESH_INTERVAL`, and `LogConfig`.
- `PinnerProofs`: the ticker's goroutine begins after the first refresh
  (`Order`), so at most one refresh is between its query and its publication, and
  what it has read is no older than the list (`Versions`): `ListsNeverOlder`,
  `BatchesStayApart`. The gate is shut before Drain looks at the pins in flight
  (`Gate`): `DrainIsFinal`. `ItemsMean` is an induction over the mentions of the rows.
- `ServerProofs`: `AnswersHold` needs that nothing underway contradicts what is known
  (`Settled`), that no request an undisturbed answer depends on is underway
  (`Undisturbed`), and hence that its effect is still there when the answer comes
  (`Effect`). `ReportsAreSound` needs what an answered lookup is worth (`Lookup`).
  `ListIsComplete` needs that every CID pinned throughout is in the pages read,
  in the one just answered, or behind the offset (`NothingSkipped`): a new pin may
  move a row to a later page, and only an unpin to an earlier one.

The stronger invariants of `Server`, `Pinner` and `AutoPinRunner` were also checked by TLC
on the runs' instances. Loops over data are folds of `SequencesExt`. An induction over their steps takes
the place of an induction principle with an operator parameter: the lemma `Induction` is
about a set of numbers and follows from the well-foundedness of `<`; `FoldExists` shows
that the recursion of a fold has a solution, and `FoldResults` gives the sequence of
intermediate results on which `Induction` is then used. Each module that needs
these lemmas has them itself, so that its proofs can be checked alone.

Model-checked only: the liveness properties `PinReturns`, `DrainReturns`, `RunReturns`,
`CancelledReturns`, `SilentForgotten`, `StopEnds`, `ShutdownEnds` and `RequestsEnd`, since
fairness is out of the prover's reach. `CanonicalWhole` without a lock and
`PinsSaved` are false, and so is `CountedOnce`, as the violations show. Every other property of
the runs is a theorem.

## Not modelled, and the plan

Not modelled: `/ipns/` requests at the gateway and the IPFS proxy of the server, which
pass a request on; the SQL query and the schema behind it; the options of libp2p and
the bootstrap dial, which only logs its outcome; what `LogConfig` and `redactURL` print, HTML,
JSON and routing, which are formatting. Next, in order of importance:

1. The composition of `Pinner` with its parts: its abstract `Run` shown to be implemented by
   `AutoPinRunner`, its gate by `EmbeddedNode`, so that `DrainIsFinal` is about the steps of
   `Pin` itself.
2. `EmbeddedNode`'s use of `SavedFile` with the steps of `StateFile` in its place, to
   state what a restart finds after unserialized saves at the level of system calls.
3. The remaining handlers of the server.
