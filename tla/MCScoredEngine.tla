-------------------------- MODULE MCScoredEngine --------------------------
(***************************************************************************)
(* ScoredEngine on five probes of four devices: left, and drift, the same  *)
(* device after a browser update; right, which shares left's graphics key  *)
(* but differs in all else; both, a device that reports all that left and  *)
(* right do and so ties between them; lite, a script with so little to     *)
(* compare that it does not match even itself.                             *)
(***************************************************************************)
EXTENDS ScoredEngine, TLC

CONSTANTS left, drift, right, both, lite, h1,
          adreno, linux, utc, tone, english, drawn, chrome1, chrome2, robot

Text(v) == [type |-> "string", val |-> v]
Number(n) == [type |-> "number", val |-> n]

Shared == (("webgl" :> Text(adreno)) @@ ("platform" :> Text(linux)) @@ ("timezone" :> Text(utc)))
LeftOnly == ("audio" :> Text(tone)) @@ ("languages" :> Text(english)) @@ ("canvas" :> Text(drawn))
RightOnly == ("cpu_cores" :> Number("8")) @@ ("device_memory" :> Number("16")) @@ ("screen" :> Number("1080"))

RawAll ==
    (left  :> (Shared @@ LeftOnly @@ ("user_agent" :> Text(chrome1)))) @@
    (drift :> (Shared @@ LeftOnly @@ ("user_agent" :> Text(chrome2)))) @@
    (right :> (Shared @@ RightOnly)) @@
    (both  :> (Shared @@ LeftOnly @@ RightOnly)) @@
    (lite  :> [platform |-> Text(linux), timezone |-> Text(utc),
               languages |-> Text(english), user_agent |-> Text(robot)])

All == {left, drift, right, both, lite}
NoPerms == <<[e \in {} |-> 0]>>
StoredAll == [p \in All |-> StoredMap(RawAll[p])]
KeysOfAll == [p \in All |-> BlockingKeys(StoredAll[p], NoPerms)]
KeysAll == UNION {KeysOfAll[p] : p \in All}
NamesAll == UNION {DOMAIN RawAll[p] : p \in All}
ValuesAll == UNION {{StoredAll[p][n] : n \in DOMAIN StoredAll[p]} : p \in All}
MarkersAll == (chrome1 :> {"mozilla", "chrome"}) @@ (chrome2 :> {"mozilla", "chrome"})
              @@ (robot :> {"mozilla", "python"})
DeviceOfAll == (left :> "L") @@ (drift :> "L") @@ (right :> "R") @@ (both :> "B") @@ (lite :> "l")

Browser == [protocol |-> "t", tls_version |-> 13, sni |-> "d", ciphers |-> 15,
            extensions |-> 16, alpn |-> "h2"]
Script == [Browser EXCEPT !.ciphers = 4, !.alpn = "00"]

HeadersTwo == {[ja4 |-> {Browser}, ip |-> {<<34, 1, 1, 1>>}],    \* a datacenter's
               [ja4 |-> {Script}, ip |-> {<<10, 1, 1, 1>>}]}     \* an internal one

BandsSmall == [ip |-> [medium |-> 1, high |-> 2], ja4 |-> [medium |-> 2, high |-> 3]]
===========================================================================
