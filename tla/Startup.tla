-------------------------------- MODULE Startup --------------------------------
(***************************************************************************)
(* main from its first line to a listening management server (src/main.go),*)
(* with ParseConfig, NewDiscovery, NewEmbeddedNode and its parts: what is  *)
(* opened in which order, what an error closes again, and peer.key, the    *)
(* identity that has to survive kills, power losses and restarts.          *)
(*                                                                         *)
(* One process at a time uses a data directory; every start may have other *)
(* inputs, and so another directory.                                       *)
(***************************************************************************)
EXTENDS Config

CONSTANTS Inputs,       \* command lines, environments and .env files
          Dirs,         \* data directories
          Keys, NoKey,  \* private keys; none
          NoFile, Partial,  \* no peer.key; one that does not unmarshal
          NoInput, NoConfig

ASSUME StartupConstants ==
    /\ Inputs \subseteq [flag : [Settings -> Texts], env : [Settings -> Texts],
                         dotenv : Seq(Line), home : BOOLEAN]
    /\ \A i \in Inputs : \A k \in Secrets : i.flag[k] = Unset
    /\ \A i \in Inputs : \A k \in Booleans : i.flag[k] \in {Unset, "on"}
    /\ NoKey \notin Keys /\ NoFile \notin Keys \cup {Partial, NoKey} /\ Partial \notin Keys \cup {NoKey}

VARIABLES
    pc,        \* where main is
    input, cfg,
    held,      \* what the process has open
    ticking,   \* has the refresh ticker's goroutine started?
    priv,      \* the key newLibp2pHost works with
    keyFile,   \* peer.key in each data directory
    synced,    \* directories whose peer.key has reached the disk
    used,      \* history: the last identity a host had in each directory
    powerLost, \* history: directories that saw a power loss
    ended      \* history: how the last process ended

vars == <<pc, input, cfg, held, ticking, priv, keyFile, synced, used, powerLost, ended>>
disk == <<keyFile, synced, used, powerLost>>

\* What NewEmbeddedNode opens, in order.
NodeResources == {"datastore", "host", "dht", "bitswap", "gateway", "mesh"}
Places == {"down", "parse", "log", "mkdir", "discovery", "rules", "repo", "key", "create",
           "write", "host", "bitswap", "gateway", "mesh", "refresh", "listen",
           "serving", "failed"}

TypeOK ==
    /\ pc \in Places
    /\ input \in Inputs \cup {NoInput}
    /\ cfg = NoConfig \/ cfg.dir \in Dirs
    /\ held \subseteq NodeResources \cup {"db"}
    /\ ticking \in BOOLEAN
    /\ priv \in Keys \cup {NoKey}
    /\ keyFile \in [Dirs -> Keys \cup {NoFile, Partial}]
    /\ synced \subseteq Dirs
    /\ used \in [Dirs -> Keys \cup {NoKey}]
    /\ powerLost \subseteq Dirs
    /\ ended \in {"none", "error", "panic", "killed", "stopped"}

Init == /\ pc = "down" /\ input = NoInput /\ cfg = NoConfig
        /\ held = {} /\ ticking = FALSE /\ priv = NoKey
        /\ keyFile = [d \in Dirs |-> NoFile] /\ synced = Dirs
        /\ used = [d \in Dirs |-> NoKey] /\ powerLost = {}
        /\ ended = "none"

\* The data directory of the process.
Dir == cfg.dir

\* os.Exit, log.Fatalf, a panic or a kill: all that was open goes.
Ends(how) == /\ pc' = "down" /\ input' = NoInput /\ cfg' = NoConfig
             /\ held' = {} /\ ticking' = FALSE /\ priv' = NoKey
             /\ ended' = how

\* The next step of main; everything not named stays.
Goes(from, to) == /\ pc = from /\ pc' = to
                  /\ UNCHANGED <<input, ended>>

Fatal(from) == pc = from /\ Ends("error") /\ UNCHANGED disk

-----------------------------------------------------------------------------
(* main, up to the backend *)

Boot(i) == /\ pc = "down" /\ pc' = "parse"
           /\ input' = i /\ ended' = "none"
           /\ UNCHANGED <<cfg, held, ticking, priv, disk>>

Parsed == ParseConfig(input.flag, loadDotenv(input.env, input.dotenv), input.home)

Parse == /\ Goes("parse", "log")
         /\ cfg' \in Parsed
         /\ UNCHANGED <<held, ticking, priv, disk>>

ParseFails == pc = "parse" /\ Parsed = {} /\ Fatal("parse")

\* LogConfig prints the Config, the URL of the database through redactURL ...
LogConfig == /\ Goes("log", "mkdir")
             /\ cfg.haf \notin Unredactable
             /\ UNCHANGED <<cfg, held, ticking, priv, disk>>

\* ... whose slice may be out of range.
LogPanics == /\ pc = "log" /\ cfg.haf \in Unredactable
             /\ Ends("panic") /\ UNCHANGED disk

MakeDataDir == /\ Goes("mkdir", "discovery")
               /\ UNCHANGED <<cfg, held, ticking, priv, disk>>

\* sql.Open and Ping; a failed Ping closes the pool.
NewDiscovery == /\ Goes("discovery", "rules")
                /\ held' = held \cup {"db"}
                /\ UNCHANGED <<cfg, ticking, priv, disk>>

\* NewAutoPinManager, then the backend; NewPinataBackend opens nothing.
NewAutoPinManager ==
    /\ Goes("rules", IF cfg.text["IPFS_MODE"] = "embedded" THEN "repo" ELSE "refresh")
    /\ UNCHANGED <<cfg, held, ticking, priv, disk>>

-----------------------------------------------------------------------------
(* NewEmbeddedNode *)

\* It returns an error, having closed the given resources; main then calls
\* log.Fatalf.
NodeError(from, closed) ==
    /\ Goes(from, "failed")
    /\ held' = held \ closed
    /\ UNCHANGED <<cfg, ticking, priv, disk>>

openRepo == /\ Goes("repo", "key")
            /\ held' = held \cup {"datastore"}
            /\ UNCHANGED <<cfg, ticking, priv, disk>>

openRepoFails == NodeError("repo", {})

\* loadOrCreatePeerKey: peer.key is there ...
LoadKey == /\ Goes("key", "host")
           /\ keyFile[Dir] \in Keys
           /\ priv' = keyFile[Dir]
           /\ UNCHANGED <<cfg, held, ticking, disk>>

\* ... or is not: a new key, which nobody has had before, is generated ...
GenerateKey ==
    /\ Goes("key", "create")
    /\ keyFile[Dir] = NoFile
    /\ \E k \in Keys : /\ \A d \in Dirs : k \notin {keyFile[d], used[d]}
                       /\ priv' = k
    /\ UNCHANGED <<cfg, held, ticking, disk>>

\* ... and written in place: os.WriteFile creates the file ...
CreateKeyFile ==
    /\ Goes("create", "write")
    /\ keyFile' = [keyFile EXCEPT ![Dir] = Partial]
    /\ synced' = synced \ {Dir}
    /\ UNCHANGED <<cfg, held, ticking, priv, used, powerLost>>

\* ... and writes to it.
WriteKeyFile ==
    /\ Goes("write", "host")
    /\ keyFile' = [keyFile EXCEPT ![Dir] = priv]
    /\ synced' = synced \ {Dir}
    /\ UNCHANGED <<cfg, held, ticking, priv, used, powerLost>>

\* Fault: a key that cannot be saved is only logged.
KeyErrorLogged ==
    /\ \E from \in {"create", "write"} : Goes(from, "host")
    /\ UNCHANGED <<cfg, held, ticking, priv, disk>>

\* A read error, a file that does not unmarshal, or a failed write, which leaves
\* what it has written: no identity, and the datastore is closed.
KeyFails == \E from \in {"key", "create", "write"} : NodeError(from, {"datastore"})

\* libp2p.New, with the DHT made by its Routing option.
NewHost == /\ Goes("host", "bitswap")
           /\ held' = held \cup {"host", "dht"}
           /\ used' = [used EXCEPT ![Dir] = priv]
           /\ UNCHANGED <<cfg, ticking, priv, keyFile, synced, powerLost>>

\* Fault: the datastore stays open.
NewHostLeaks == NodeError("host", {})

NewHostFails == NodeError("host", {"datastore"})

\* newBitswap returns no error; loadPins only logs one.
NewBitswap == /\ Goes("bitswap", "gateway")
              /\ held' = held \cup {"bitswap"}
              /\ UNCHANGED <<cfg, ticking, priv, disk>>

startGateway == /\ Goes("gateway", "mesh")
                /\ held' = held \cup {"gateway"}
                /\ UNCHANGED <<cfg, ticking, priv, disk>>

\* The port is taken: shutdownInternals closes all there is.
shutdownInternals == {"mesh", "bitswap", "dht", "host", "datastore"}
startGatewayFails == NodeError("gateway", shutdownInternals)

\* startMesh, unless it is off; its error is only logged.
startMesh ==
    /\ Goes("mesh", "refresh")
    /\ held' \in {held, IF cfg.mesh THEN held \cup {"mesh"} ELSE held}
    /\ UNCHANGED <<cfg, ticking, priv, disk>>

\* Zero values mean these defaults, here and in startMesh.
Effective(k) ==
    IF cfg.num[k] # 0 THEN cfg.num[k]
    ELSE CASE k = "BITSWAP_TIMEOUT" -> 60
           [] k = "MAX_PIN_BYTES" -> 1073741824  \* 1 GiB
           [] k = "MESH_HEARTBEAT_INTERVAL" -> 30
           [] k = "MESH_CACHE_TTL" -> 300
           [] OTHER -> 0

\* Fault: startMesh does not put a default in place of zero.
MeshPeriodRaw == IF "mesh" \in held /\ ~cfg.truth["MESH_ADVERTISE_DISABLED"]
                 THEN {cfg.num["MESH_HEARTBEAT_INTERVAL"]} ELSE {}

\* The period of advertiseLoop's ticker, once it runs.
MeshPeriod == IF "mesh" \in held /\ ~cfg.truth["MESH_ADVERTISE_DISABLED"]
              THEN {Effective("MESH_HEARTBEAT_INTERVAL")} ELSE {}

-----------------------------------------------------------------------------
(* main, from the first refresh on *)

\* discovery.Start: the first refresh, whatever comes of it.
FirstRefresh == /\ Goes("refresh", "listen")
                /\ UNCHANGED <<cfg, held, ticking, priv, disk>>

\* The goroutine discovery.Start leaves behind makes its ticker.
RefreshPeriod == IF pc \in {"listen", "serving"} /\ ~ticking THEN {cfg.refresh} ELSE {}

StartTicker == /\ \E p \in RefreshPeriod : p > 0
               /\ ticking' = TRUE
               /\ UNCHANGED <<pc, input, cfg, held, priv, disk, ended>>

\* time.NewTicker panics unless its argument is positive.
Panics == /\ \E p \in RefreshPeriod \cup MeshPeriod : p <= 0
          /\ Ends("panic") /\ UNCHANGED disk

\* ListenAndServe on 127.0.0.1, where the gateway may have the port already.
PortTaken == /\ "gateway" \in held
             /\ cfg.text["PORT"] = cfg.text["GATEWAY_PORT"]
             /\ cfg.text["GATEWAY_BIND"] \in {"127.0.0.1", "0.0.0.0"}

Listen == /\ ~PortTaken
          /\ Goes("listen", "serving")
          /\ UNCHANGED <<cfg, held, ticking, priv, disk>>

\* log.Fatalf in main: MkdirAll, the database, the rules, the port, and the
\* error NewEmbeddedNode returned.
StartFails == \E from \in {"mkdir", "discovery", "rules", "listen", "failed"} : Fatal(from)

\* A signal: Pinner models the shutdown.
Stops == pc = "serving" /\ Ends("stopped") /\ UNCHANGED disk

Killed == pc # "down" /\ Ends("killed") /\ UNCHANGED disk

\* peer.key is not fsynced: what was not written back is gone, or part of it.
PowerLoss ==
    /\ synced # Dirs
    /\ Ends("killed")
    /\ \E f \in [Dirs \ synced -> {"kept", NoFile, Partial}] :
          keyFile' = [d \in Dirs |-> IF d \in synced \/ f[d] = "kept"
                                     THEN keyFile[d] ELSE f[d]]
    /\ powerLost' = powerLost \cup (Dirs \ synced)
    /\ synced' = Dirs
    /\ UNCHANGED used

\* The kernel writes peer.key back.
WriteBack == /\ synced # Dirs
             /\ synced' = Dirs
             /\ UNCHANGED <<pc, input, cfg, held, ticking, priv, keyFile, used, powerLost, ended>>

Next == \/ \E i \in Inputs : Boot(i)
        \/ Parse \/ ParseFails \/ LogConfig \/ LogPanics \/ MakeDataDir \/ NewDiscovery \/ NewAutoPinManager
        \/ openRepo \/ openRepoFails
        \/ LoadKey \/ GenerateKey \/ CreateKeyFile \/ WriteKeyFile \/ KeyFails
        \/ NewHost \/ NewHostFails \/ NewBitswap
        \/ startGateway \/ startGatewayFails \/ startMesh
        \/ FirstRefresh \/ StartTicker \/ Panics \/ Listen
        \/ StartFails \/ Stops \/ Killed \/ PowerLoss \/ WriteBack

Spec == Init /\ [][Next]_vars

-----------------------------------------------------------------------------
(* Properties *)

\* Where a text comes from: the first that is not empty among the command line,
\* the environment, the lines of .env from the top, and the default.
Sources(k) == <<input.flag[k], input.env[k]>>
                 \o [i \in 1..Len(input.dotenv) |->
                        IF input.dotenv[i].key = k THEN input.dotenv[i].val ELSE Unset]
                 \o <<Default(k)>>
First(texts) ==
    IF \E i \in 1..Len(texts) : texts[i] # Unset
    THEN texts[CHOOSE i \in 1..Len(texts) : texts[i] # Unset /\ \A j \in 1..(i - 1) : texts[j] = Unset]
    ELSE Unset

\* Every setting has the value its highest-ranking source gives it (config.go:
\* "CLI flags override"; "does not override existing env vars").  Of the two
\* booleans it says so where only one of the command line and the environment
\* with .env gives a value: where both do, ParseConfig lets the environment
\* decide (config.go:260 and 270), against src/README.md:70 "CLI flags take
\* precedence over env vars".
Precedence ==
    cfg # NoConfig =>
        /\ \A k \in PlainTexts \cup Secrets : cfg.text[k] = First(Sources(k))
        /\ cfg.haf = First(Sources("HAF_DATABASE_URL"))
        /\ cfg.dir = Expand(First(Sources("DATA_DIR")))
        /\ \A k \in ListSettings : cfg.list[k] = Entries(First(Sources(k)))
        /\ \A k \in Counts \cup Timeouts : cfg.num[k] = Value(k, First(Sources(k)))
        /\ cfg.refresh = Durations[First(Sources("REFRESH_INTERVAL"))]
        /\ cfg.mesh <=> First(Sources("MESH_ENABLED")) \notin Falsy
        /\ \A k \in Booleans :
              Unset \in {input.flag[k], First(Tail(Sources(k)))} =>
                 (cfg.truth[k] <=> \/ input.flag[k] # Unset
                                   \/ First(Tail(Sources(k))) \in Truthy)

\* A process that has accepted its configuration works with positive bounds and
\* timeouts everywhere (parsePositiveDuration and the checks beside it, and the
\* defaults NewEmbeddedNode and startMesh put in place of zero).
KnobsPositive == cfg # NoConfig => \A k \in Counts \cup Timeouts : Effective(k) > 0

\* The settings that crash a process after it has accepted them are two that
\* ParseConfig lets through: a REFRESH_INTERVAL that is not positive, once the
\* database is open, and a HAF_DATABASE_URL that redactURL cannot slice, before
\* anything is.
PanicsExplained ==
    [][ended' = "panic" /\ ended # "panic" =>
          \/ "db" \in held /\ cfg.refresh <= 0
          \/ held = {} /\ cfg.haf \in Unredactable]_vars

\* An identity a host has had is the one in peer.key, through errors, kills and
\* restarts with other settings, until the power fails before it was written
\* back: in particular a damaged peer.key never takes an identity with it that
\* somebody has seen ("keeps the pinner's peer ID stable across restarts").
IdentityKept ==
    \A d \in Dirs : used[d] # NoKey /\ d \notin powerLost => keyFile[d] = used[d]

\* When NewEmbeddedNode returns an error, nothing it opened is open any more,
\* however far it had come.
NodeReleased == pc = "failed" => held \cap NodeResources = {}
=============================================================================
