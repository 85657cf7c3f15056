------------------------------ MODULE Signals ------------------------------
(***************************************************************************)
(* The passive network signals (crates/fp-core/src/signals.rs), the native *)
(* adapter that reads them off trusted headers (fingerprintd/src/signals.rs*)
(* and lib.rs) and the edge's (fingerprint.routes.ts).                     *)
(*                                                                         *)
(* A value that may be missing is a set of at most one member.  A JA4 is   *)
(* the record of the JA4_a fields that parse: a prefix that is too short   *)
(* or whose counts are no numbers lacks fields.  A user agent is the set   *)
(* of markers its lower-cased text contains.  Confidence is in thousandths.*)
(***************************************************************************)
EXTENDS Integers, Sequences, FiniteSets

BROWSER_MIN_CIPHERS == 10
BROWSER_MIN_EXTENSIONS == 10
CONSISTENT_BOOST == 50
MISMATCH_PENALTY == 500

---------------------------------------------------------------------------
ShapeFields == {"protocol", "tls_version", "sni", "alpn"}

BROWSER_JA4_SHAPES ==
    {[protocol |-> "t", tls_version |-> 13, sni |-> "d", alpn |-> "h2"],
     [protocol |-> "q", tls_version |-> 13, sni |-> "d", alpn |-> "h3"]}

\* parse_ja4_shape: None unless every field is there.
Parses(ja4) == ShapeFields \cup {"ciphers", "extensions"} \subseteq DOMAIN ja4

Shape(ja4) == [f \in ShapeFields |-> ja4[f]]

ClassifyJA4(ja4) ==
    IF ~Parses(ja4) THEN "unknown"
    ELSE IF /\ ja4.ciphers >= BROWSER_MIN_CIPHERS
            /\ ja4.extensions >= BROWSER_MIN_EXTENSIONS
            /\ Shape(ja4) \in BROWSER_JA4_SHAPES
    THEN "browser" ELSE "automation"

\* ja4_class: the shape without the counts, and no class for what does not
\* parse.  The velocity table keys it under its own namespace.
JA4Class(ja4) == {<<"ja4", Shape(j)>> : j \in {j \in ja4 : Parses(j)}}

---------------------------------------------------------------------------
AUTOMATION == {"curl", "wget", "python", "go-http", "java", "okhttp", "libwww",
               "node-fetch", "axios"}
BROWSER == {"mozilla", "chrome", "firefox", "safari", "edg", "opera"}

\* classify_ua: automation markers win.
ClassifyUA(markers) ==
    CASE markers \cap AUTOMATION # {} -> "automation"
      [] markers \cap AUTOMATION = {} /\ markers \cap BROWSER # {} -> "browser"
      [] OTHER -> "unknown"

\* consistency: only a browser claim over an automation stack, or the reverse,
\* is a mismatch; an unclassifiable stack gives no basis.
Consistency(claims, observed) ==
    CASE observed = "unknown" -> "degraded"
      [] observed = "browser" /\ "automation" \in claims -> "mismatch"
      [] observed = "automation" /\ "browser" \in claims -> "mismatch"
      [] OTHER -> "consistent"

---------------------------------------------------------------------------
\* An address is the sequence of its octets (four for IPv4).
DATACENTER_V4 == {<<34>>, <<35>>, <<52>>}     \* the /8 blocks, by first octet

InDatacenter(a) ==
    \/ <<a[1]>> \in DATACENTER_V4
    \/ a[1] = 13 /\ a[2] \div 32 = 64 \div 32          \* 13.64.0.0/11

Internal(a) ==
    \/ a[1] \in {10, 127}                               \* private, loopback
    \/ a[1] = 172 /\ a[2] \div 16 = 1                   \* 172.16.0.0/12
    \/ <<a[1], a[2]>> \in {<<192, 168>>, <<169, 254>>}  \* private, link-local

\* StaticIpIntel::assess: IPv6 and whatever does not parse are low.
IpRisk(ip) ==
    IF \E a \in ip : Len(a) = 4 /\ ~Internal(a) /\ InDatacenter(a)
    THEN "high" ELSE "low"

---------------------------------------------------------------------------
\* compute, from a JA4, a client address and a claimed user agent.
Compute(ja4, ip, ua) ==
    [ip_risk |-> IpRisk(ip),
     tls |-> IF ja4 = {} THEN "degraded"
             ELSE LET observed == CHOOSE o \in {ClassifyJA4(j) : j \in ja4} : TRUE
                  IN  Consistency({ClassifyUA(u) : u \in ua}, observed)]

ConfidenceAdjustment(signals) ==
    CASE signals.tls = "consistent" -> CONSISTENT_BOOST
      [] signals.tls = "mismatch" -> -MISMATCH_PENALTY
      [] signals.tls = "degraded" -> 0

\* What a host makes of them.  The response tells only whether UA and stack
\* contradict each other, so a degraded read counts as consistent there.
Summary(signals) ==
    [ua_tls_consistent |-> signals.tls # "mismatch", ip_risk |-> signals.ip_risk,
     confidence_adjustment |-> ConfidenceAdjustment(signals)]

---------------------------------------------------------------------------
\* claimed_ua: the first of these names with a string under it.
ClaimedUAKeys == <<"userAgent", "user_agent", "ua">>

ClaimedUA(components) ==
    LET named == {i \in DOMAIN ClaimedUAKeys :
                     /\ ClaimedUAKeys[i] \in DOMAIN components
                     /\ components[ClaimedUAKeys[i]].type = "string"}
    IN  {components[ClaimedUAKeys[i]].val : i \in {i \in named : \A j \in named : i <= j}}

NoHeaders == [ja4 |-> {}, ip |-> {}]

\* Mutant of Trusted: a client's own copy of the headers believed.
Trusted_Always(trusting, headers) == headers

\* trust_edge_headers: an origin anyone can reach ignores the headers.
Trusted(trusting, headers) == IF trusting THEN headers ELSE NoHeaders

\* identify's signals on the native host.  claimed: the markers of the claimed
\* user agent, if any.
NativeSignals(trusting, headers, claimed) ==
    LET h == Trusted(trusting, headers) IN Summary(Compute(h.ja4, h.ip, claimed))

\* passive_signals, of the WASM module.
PassiveSignals(ja4, ip, ua) == Summary(Compute(ja4, ip, ua))

\* edgeSignals: without trust not even the claim is looked at.  cf is what
\* Cloudflare adds beside the headers: a JA4 where the header is missing, and an
\* ASN that can only raise the address's band.
EdgeSignals(trusting, headers, cf, claimed) ==
    IF ~trusting THEN PassiveSignals({}, {}, {})
    ELSE LET ja4 == IF headers.ja4 # {} THEN headers.ja4 ELSE cf.ja4
             verdict == PassiveSignals(ja4, headers.ip, claimed)
         IN  IF cf.hosting THEN [verdict EXCEPT !.ip_risk = "high"] ELSE verdict

NoEnrichment == [ja4 |-> {}, hosting |-> FALSE]
=============================================================================
