------------------------------ MODULE MCStartup ------------------------------
EXTENDS Startup, TLC

MCTexts == {"", "pevo", "pevo2", "embedded", "pinata", "~/.pevo-pinner", "/home/.pevo-pinner",
            "/data", "8421", "8080", "127.0.0.1", "1h", "5s", "0s", "-5s", "3", "0", "-1",
            "junk", "on", "off", "a, ,b", "a", "postgres://haf", "@"}
MCDurations == [t \in {"1h", "5s", "0s", "-5s", "0"} |->
                   CASE t = "1h" -> 3600 [] t = "5s" -> 5 [] t = "-5s" -> -5 [] OTHER -> 0]
MCNumbers == [t \in {"8421", "8080", "3", "0", "-1"} |->
                 CASE t = "8421" -> 8421 [] t = "8080" -> 8080 [] t = "3" -> 3
                   [] t = "-1" -> -1 [] OTHER -> 0]
MCLists == [t \in {"", "a, ,b"} |-> IF t = "" THEN <<>> ELSE <<"a", "b">>]
MCHomeDirs == "~/.pevo-pinner" :> "/home/.pevo-pinner"
MCDirs == {"/home/.pevo-pinner", "/data"}

\* Two texts of each setting that take a source each, in both orders.
Pairs == [APP_TAG |-> <<"pevo", "pevo2">>,
          HAF_DATABASE_URL |-> <<"@", "postgres://haf">>,
          IPFS_MODE |-> <<"pinata", "junk">>,
          DATA_DIR |-> <<"/data", "/home/.pevo-pinner">>,
          PORT |-> <<"8080", "8421">>,
          REFRESH_INTERVAL |-> <<"0s", "5s">>,
          AUTOPIN_CONCURRENCY |-> <<"3", "0">>,
          BITSWAP_TIMEOUT |-> <<"5s", "-5s">>,
          MESH_HEARTBEAT_INTERVAL |-> <<"0s", "5s">>,
          MESH_ENABLED |-> <<"off", "on">>,
          MESH_ADVERTISE_DISABLED |-> <<"on", "off">>,
          FALLBACK_GATEWAYS |-> <<"a, ,b", "a">>]

\* No command line, no .env file, and the least environment that starts.
Plain == [k \in Settings |-> CASE k = "HAF_DATABASE_URL" -> "postgres://haf"
                               [] k \in Secrets -> "a"
                               [] OTHER -> ""]
NoFlags == [k \in Settings |-> ""]

\* The setting k gets its texts from the command line, the environment and one
\* or two lines of .env, in every combination.
Given(k, x, y) ==
    { [flag |-> [NoFlags EXCEPT ![k] = f], env |-> [Plain EXCEPT ![k] = e],
       dotenv |-> d, home |-> TRUE] :
         f \in {"", IF k \in Booleans THEN "on" ELSE x}, e \in {"", y},
         d \in {<<>>, <<[key |-> k, val |-> y]>>,
                <<[key |-> k, val |-> y], [key |-> k, val |-> x]>>,
                <<[key |-> k, val |-> ""], [key |-> k, val |-> x]>>} }

MCInputs ==
    UNION { Given(k, Pairs[k][1], Pairs[k][2]) \cup Given(k, Pairs[k][2], Pairs[k][1]) :
               k \in DOMAIN Pairs }
    \cup { [flag |-> NoFlags, env |-> [Plain EXCEPT !["DATA_DIR"] = d], dotenv |-> <<>>,
            home |-> FALSE] : d \in {"", "/data"} }
    \cup { [flag |-> [NoFlags EXCEPT !["IPFS_MODE"] = "pinata"],
            env |-> [Plain EXCEPT !["PINATA_SECRET_KEY"] = ""], dotenv |-> d, home |-> TRUE] :
              d \in {<<>>, <<[key |-> "PINATA_SECRET_KEY", val |-> "a"]>>} }

KeySymmetry == Permutations(Keys)
=============================================================================
