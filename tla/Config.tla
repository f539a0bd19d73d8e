-------------------------------- MODULE Config --------------------------------
(***************************************************************************)
(* loadDotenv and ParseConfig (src/config.go), as functions of the command *)
(* line, the environment and the lines of .env.                            *)
(*                                                                         *)
(* A setting goes by the name of its environment variable; flag and env map*)
(* every setting to its text, "" where it is not given.  The constants say *)
(* what the library reads in a text: time.ParseDuration and strconv in the *)
(* ones they accept, strings.Split in a comma-separated list.              *)
(***************************************************************************)
EXTENDS Integers, Sequences, SequencesExt

CONSTANTS Texts,      \* every text a setting may have
          Durations,  \* those time.ParseDuration accepts, with their seconds
          Numbers,    \* those strconv.Atoi and ParseInt accept, with their value
          Lists,      \* the lists that are not one entry, with their entries
          HomeDirs    \* directories written with "~/", with their path

\* The text of a setting that is not given.
Unset == ""

\* Passed on as they are.
PlainTexts == {"APP_TAG", "IPFS_MODE", "PORT", "GATEWAY_PORT", "GATEWAY_BIND",
               "PEVO_MAIN_LIBP2P_ADDR", "PEVO_MAIN_GATEWAY_URL",
               "MESH_PUBLIC_GATEWAY_URL"}
\* "" is allowed and means the default; otherwise a positive value.
Counts == {"AUTOPIN_CONCURRENCY", "AUTOPIN_AUTHOR_CAP", "MAX_PIN_BYTES"}
Timeouts == {"BITSWAP_TIMEOUT", "MESH_HEARTBEAT_INTERVAL", "MESH_CACHE_TTL"}
ListSettings == {"LIBP2P_LISTEN", "FALLBACK_GATEWAYS"}
\* Without a flag, and with one that has no text: "on" if it is given. (Given as
\* false it cannot be told from one that is not given, and is left out.)
Secrets == {"PINATA_API_KEY", "PINATA_SECRET_KEY"}
Booleans == {"MESH_ADVERTISE_DISABLED", "MESH_ALLOW_PRIVATE"}

Settings == PlainTexts \cup Counts \cup Timeouts \cup ListSettings \cup Secrets \cup Booleans
              \cup {"HAF_DATABASE_URL", "DATA_DIR", "REFRESH_INTERVAL", "MESH_ENABLED"}

Default(k) == CASE k = "APP_TAG" -> "pevo"
                [] k = "IPFS_MODE" -> "embedded"
                [] k = "DATA_DIR" -> "~/.pevo-pinner"
                [] k = "PORT" -> "8421"
                [] k = "GATEWAY_PORT" -> "8080"
                [] k = "GATEWAY_BIND" -> "127.0.0.1"
                [] k = "REFRESH_INTERVAL" -> "1h"
                [] OTHER -> Unset

\* In lower or upper case.
Truthy == {"1", "true", "yes", "on"}
Falsy == {"0", "false", "no", "off"}

ASSUME ConfigConstants ==
    /\ {Unset, "pinata"} \subseteq Texts /\ \A k \in Settings : Default(k) \in Texts
    /\ Default("DATA_DIR") \in DOMAIN HomeDirs /\ DOMAIN HomeDirs \subseteq Texts
    /\ Unset \in DOMAIN Lists /\ Lists[Unset] = <<>>
    /\ Durations \in [DOMAIN Durations -> Int] /\ Numbers \in [DOMAIN Numbers -> Int]
    /\ Durations["1h"] = 3600 /\ Unset \notin DOMAIN Durations \cup DOMAIN Numbers

\* A line that assigns a setting; blank lines, comments and other variables
\* have no effect here.
Line == [key : Settings, val : Texts]

\* Fault: a line overrides the environment and the lines above it.
LoadOverriding(env, lines) ==
    FoldLeft(LAMBDA e, l : [e EXCEPT ![l.key] = l.val], env, lines)

\* A line sets what has no value yet, "" being none.
loadDotenv(env, lines) ==
    FoldLeft(LAMBDA e, l : IF e[l.key] = Unset THEN [e EXCEPT ![l.key] = l.val] ELSE e,
             env, lines)

envOrFlag(k, flag, env) ==
    IF flag[k] # Unset THEN flag[k]
    ELSE IF env[k] # Unset THEN env[k]
    ELSE Default(k)

\* The texts ParseConfig works with.
Chosen(flag, env) ==
    [k \in Settings \ Booleans |-> envOrFlag(k, flag, env)]

\* The two booleans look at the environment first.
Truth(k, flag, env) == IF env[k] # Unset THEN env[k] \in Truthy ELSE flag[k] # Unset

\* Fault: any value that parses will do.
PositiveUnchecked(f, t) == t \in DOMAIN f

Positive(f, t) == t \in DOMAIN f /\ f[t] > 0

\* The errors of ParseConfig on the texts t.
Rejected(t, home) ==
    \/ t["HAF_DATABASE_URL"] = Unset
    \/ t["DATA_DIR"] \in DOMAIN HomeDirs /\ ~home
    \/ t["REFRESH_INTERVAL"] \notin DOMAIN Durations
    \/ \E k \in Counts : t[k] # Unset /\ ~Positive(Numbers, t[k])
    \/ \E k \in Timeouts : t[k] # Unset /\ ~Positive(Durations, t[k])
    \/ t["MESH_ENABLED"] \notin {Unset} \cup Truthy \cup Falsy
    \/ t["IPFS_MODE"] \notin {"embedded", "pinata"}
    \/ t["IPFS_MODE"] = "pinata" /\ \E k \in Secrets : t[k] = Unset

\* A number or duration in the Config: 0 stands for the default of the embedded
\* node, AUTOPIN_* have theirs here.
Value(k, t) ==
    IF t = Unset
    THEN CASE k = "AUTOPIN_CONCURRENCY" -> 4
           [] k = "AUTOPIN_AUTHOR_CAP" -> 20
           [] OTHER -> 0
    ELSE IF k \in Counts THEN Numbers[t] ELSE Durations[t]

\* The home directory in place of "~", and the entries of a list, trimmed and
\* without the empty ones.
Expand(t) == IF t \in DOMAIN HomeDirs THEN HomeDirs[t] ELSE t
Entries(t) == IF t \in DOMAIN Lists THEN Lists[t] ELSE <<t>>

\* redactURL slices a text with an "@" up to the end of its "://", or at 2 if it
\* has none: the one text that is too short for that.
Unredactable == {"@"}

\* The Config, or {} for an error.
ParseConfig(flag, env, home) ==
    LET t == Chosen(flag, env)
    IN  IF Rejected(t, home) THEN {}
        ELSE { [ text |-> [k \in PlainTexts \cup Secrets |-> t[k]],
                 haf |-> t["HAF_DATABASE_URL"],
                 dir |-> Expand(t["DATA_DIR"]),
                 list |-> [k \in ListSettings |-> Entries(t[k])],
                 num |-> [k \in Counts \cup Timeouts |-> Value(k, t[k])],
                 refresh |-> Durations[t["REFRESH_INTERVAL"]],
                 mesh |-> t["MESH_ENABLED"] \notin Falsy,
                 truth |-> [k \in Booleans |-> Truth(k, flag, env)] ] }
=============================================================================
