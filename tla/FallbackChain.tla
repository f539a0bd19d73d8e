---------------------------- MODULE FallbackChain ----------------------------
(***************************************************************************)
(* Gateway URLs and the chain of gateways that fetchViaCAR walks           *)
(* (src/ipfsnode_fetch.go, ipfsnode_pubsub.go).                            *)
(*                                                                         *)
(* A URL is what the code looks at: whether it parses at all, its scheme,  *)
(* host, user information and port, and whether its spelling differs from  *)
(* the normal one (capitals in the host, a trailing slash, a query).       *)
(***************************************************************************)
EXTENDS Naturals, Sequences, SequencesExt

CONSTANTS Hosts,       \* host names and addresses
          UnsafeHosts, \* those isUnsafeHost rejects whatever DNS says
          NoURL        \* "" or a text url.Parse rejects

ASSUME HostAssumption == UnsafeHosts \subseteq Hosts

URL == [web : BOOLEAN,      \* is the scheme http or https?
        host : Hosts,
        user : BOOLEAN,     \* does it carry user information?
        port : {"none", "default", "other"},  \* does it spell out a port, and which:
                            \* the one its scheme has anyway, or another?
        odd : BOOLEAN]      \* is it spelt in another than the normal way?
MaybeURL == URL \cup {NoURL}

\* normalizeFallbackURL, and the rewriting at the end of validateMeshGatewayURL.
\* A port that is spelt out is kept, the scheme's default port too.
normalizeFallbackURL(u) == IF u = NoURL THEN NoURL ELSE [u EXCEPT !.odd = FALSE]

\* The results validateMeshGatewayURL may have for an advertised URL: NoURL if
\* it is refused, which a failing DNS lookup makes of any host.
validateMeshGatewayURL(u, allowPrivate) ==
    {NoURL} \cup {normalizeFallbackURL(v) :
                    v \in {w \in {u} \ {NoURL} : /\ w.web /\ ~w.user
                                                 /\ allowPrivate \/ w.host \notin UnsafeHosts}}

\* Fault: the spelling is compared.
AddSpelling(out, u) ==
    IF u = NoURL \/ u \in ToSet(out) THEN out ELSE Append(out, u)

\* The closure add of assembleFallbackChain.
Add(out, u) ==
    IF normalizeFallbackURL(u) \in {NoURL} \cup {normalizeFallbackURL(v) : v \in ToSet(out)}
    THEN out
    ELSE Append(out, u)

\* static: PEvO main, the operator's extras (together the first headLen), then
\* the public defaults.  mesh: the gateways of the known peers, NoURL for none.
Spliced(static, headLen, mesh) ==
    LET headEnd == IF headLen > Len(static) THEN Len(static) ELSE headLen
    IN  SubSeq(static, 1, headEnd) \o mesh \o SubSeq(static, headEnd + 1, Len(static))

assembleFallbackChain(static, headLen, mesh) ==
    IF mesh = <<>> THEN static
    ELSE FoldLeft(Add, <<>>, Spliced(static, headLen, mesh))
=============================================================================
