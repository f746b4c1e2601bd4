----------------------------- MODULE Endpoints -----------------------------
(***************************************************************************)
(* ip::endpoint and local::endpoint: what becomes of an address on its way *)
(* through text and through a native sockaddr, as bind, connect, accept,   *)
(* async_receive_from and the resolver use them.                           *)
(*                                                                         *)
(* A text is a sequence of punctuation and of whole words.  The word "x"   *)
(* stands for an IPv6 address with all eight groups, so that it contains   *)
(* colons and nothing appended to it is an address; "X" is another         *)
(* spelling of it; "x%2" has a scope id.                                   *)
(***************************************************************************)
EXTENDS Integers, FiniteSetsExt, SequencesExt

VARIABLES
  proto,    \* "ip" or "local": the class of the endpoint
  epc,      \* "new", "have", "text", "native", "refused" or "lost"
  text,     \* the text last parsed or written
  native,   \* the sockaddr and length last received or exported
  ep,       \* [family, host, scope, nport, size]: storage_ and size_
  first     \* history: the endpoint first obtained

epVars == <<proto, epc, text, native, ep, first>>

\* Sizes of sockaddr_in, sockaddr_in6, sockaddr_storage, and of sockaddr_un with
\* the offset of its sun_path.
in4 == 16
in6 == 28
storage == 128
pathOffset == 2
pathSize == 108
un == pathOffset + pathSize

\* What inet_pton, from_chars and the scope suffix make of a word, and what
\* inet_ntop and std::to_string write.
V4 == [w \in {"a"} |-> [host |-> "a", scope |-> 0]]
V6 == [w \in {"x", "X", "x%2"} |-> [host |-> "x", scope |-> IF w = "x%2" THEN 2 ELSE 0]]
Digits == [w \in {"0", "080", "80", "65535", "65536"} |->
             CASE w = "0" -> 0 [] w \in {"080", "80"} -> 80 [] w = "65535" -> 65535 [] OTHER -> 65536]
Spell(scope, host) == IF scope = 0 THEN host ELSE "x%2"
Number(n) == CHOOSE w \in DOMAIN Digits \ {"080"} : Digits[w] = n

Words == DOMAIN V4 \cup DOMAIN V6 \cup DOMAIN Digits \cup {"x%", "8x"}
HasColon(w) == w = ":" \/ w \in DOMAIN V6 \cup {"x%"}
\* Two words do not touch, nor do two colons: together they would be one word.
Texts == {t \in UNION {[1..k -> Words \cup {"[", "]", ":"}] : k \in 0..5} :
            \A i \in 1..Len(t) - 1 : ~(t[i] \in Words /\ t[i + 1] \in Words) /\ <<t[i], t[i + 1]>> # <<":", ":">>}

Ok(e) == {e}
Invalid == {}    \* every error: invalid_argument, invalid_endpoint, unsupported_address_family

-----------------------------------------------------------------------------
htons(p) == (p % 256) * 256 + p \div 256
ntohs(n) == htons(n)

init_v4(addr, port) == [family |-> "v4", host |-> addr.host, scope |-> 0, nport |-> htons(port), size |-> in4]
init_v6(addr, port) == [family |-> "v6", host |-> addr.host, scope |-> addr.scope,
                        nport |-> htons(port), size |-> in6]

\* parse_port: one number up to 65535; 0 or 1 results.
parse_any(s) == IF Len(s) = 1 /\ s[1] \in DOMAIN Digits THEN Ok(Digits[s[1]] % 65536) ELSE Invalid
parse_port(s) == IF Len(s) = 1 /\ s[1] \in DOMAIN Digits /\ Digits[s[1]] <= 65535
                 THEN Ok(Digits[s[1]]) ELSE Invalid
ParseV4(s) == IF Len(s) = 1 /\ s[1] \in DOMAIN V4 THEN Ok(V4[s[1]]) ELSE Invalid
ParseV6(s) == IF Len(s) = 1 /\ s[1] \in DOMAIN V6 THEN Ok(V6[s[1]]) ELSE Invalid

\* [addr]:port, up to the first closing bracket.
Bracketed(t) ==
  LET closes == {i \in 1..Len(t) : t[i] = "]"}
      close == Min(closes)
  IN  IF closes = {} \/ close + 1 > Len(t) THEN Invalid
      ELSE IF t[close + 1] # ":" THEN Invalid
      ELSE {init_v6(a, p) : a \in ParseV6(SubSeq(t, 2, close - 1)),
                            p \in parse_port(SubSeq(t, close + 2, Len(t)))}

\* addr:port, split at the last colon; a host with another colon is refused.
Plain(t) ==
  LET colons == {i \in 1..Len(t) : HasColon(t[i])}
      pos == Max(colons)
  IN  IF Cardinality(colons) # 1 THEN Invalid
      ELSE IF t[pos] # ":" THEN Invalid
      ELSE {init_v4(a, p) : a \in ParseV4(SubSeq(t, 1, pos - 1)), p \in parse_port(SubSeq(t, pos + 1, Len(t)))}

from_string(t) == IF t = <<>> THEN Invalid ELSE IF t[1] = "[" THEN Bracketed(t) ELSE Plain(t)

to_string(e) == LET addr == Spell(e.scope, e.host)
                    port == Number(ntohs(e.nport))
                IN  IF e.family = "v6" THEN <<"[", addr, "]", ":", port>> ELSE <<addr, ":", port>>

\* from_native of ip::endpoint: complete for its family, cut to its size.
ip_from_native(sa, len) ==
  LET required == IF sa.family = "v4" THEN in4 ELSE in6
  IN  IF len = 0 \/ len > storage \/ sa.family \notin {"v4", "v6"} \/ len < required
      THEN Invalid ELSE Ok([sa EXCEPT !.size = required])

\* from_native of local::endpoint: at least one byte of sun_path, and not the
\* empty abstract name.
local_from_native(sa, len) ==
  IF \/ len = 0 \/ sa.family # "unix" \/ len < pathOffset + 1 \/ len > un
     \/ sa.host = "abstract" /\ len = pathOffset + 1
  THEN Invalid ELSE Ok([sa EXCEPT !.size = len])

from_native(sa, len) == IF proto = "ip" THEN ip_from_native(sa, len) ELSE local_from_native(sa, len)

ip_to_native(e, len) == IF len = 0 \/ len < e.size THEN Invalid ELSE Ok([sa |-> e, len |-> e.size])
local_to_native(e, len) == IF len = 0 \/ e.size < pathOffset + 1 \/ len < e.size
                           THEN Invalid ELSE Ok([sa |-> e, len |-> e.size])
to_native(e, len) == IF proto = "ip" THEN ip_to_native(e, len) ELSE local_to_native(e, len)

Unix(kind, size) == [family |-> "unix", host |-> kind, scope |-> 0, nport |-> 0, size |-> size]
forget_nul(n) == IF n = 0 \/ n > pathSize THEN Invalid ELSE Ok(Unix("path", pathOffset + n + 1))
from_path(n) == IF n = 0 \/ n + 1 > pathSize THEN Invalid ELSE Ok(Unix("path", pathOffset + n + 1))
from_abstract(n) == IF n = 0 \/ n > pathSize - 1 THEN Invalid ELSE Ok(Unix("abstract", pathOffset + 1 + n))

-----------------------------------------------------------------------------
\* The endpoints the constructors and factories give; the default local::endpoint
\* has no path.
Built == IF proto = "ip"
         THEN {init_v4(V4[w], Digits[p]) : w \in DOMAIN V4, p \in DOMAIN Digits \ {"65536"}}
              \cup {init_v6(V6[w], Digits[p]) : w \in DOMAIN V6, p \in DOMAIN Digits \ {"65536"}}
         ELSE {Unix("path", pathOffset)}
              \cup UNION {from_path(n) \cup from_abstract(n) : n \in {0, 1, pathSize - 1, pathSize}}

\* What getsockname, getpeername, recvfrom or getaddrinfo write.
Natives == [sa : {init_v4(V4["a"], 80), init_v6(V6["x%2"], 80), Unix("path", 0), Unix("abstract", 0)},
            len : {0, pathOffset, pathOffset + 1, in4 - 1, in4, in6 - 1, in6, un, un + 1, storage, storage + 1}]
BufferLens == {0, pathOffset, in4, in6, un, storage}

NoNative == [sa |-> Unix("path", 0), len |-> 0]
Init == /\ proto \in {"ip", "local"}
        /\ epc = "new" /\ text = <<>> /\ native = NoNative
        /\ ep = Unix("path", pathOffset) /\ first = ep

\* An endpoint is obtained, or a conversion back is to give the same one.
Obtain(r) == IF r = Invalid THEN epc' = "refused" /\ UNCHANGED <<ep, first>>
             ELSE epc' = "have" /\ ep' \in r /\ first' = ep'
Regain(r) == /\ IF r = Invalid THEN epc' = "lost" /\ UNCHANGED ep ELSE epc' = "have" /\ ep' \in r
             /\ UNCHANGED <<text, native, first>>

Build == epc = "new" /\ Obtain(Built) /\ UNCHANGED <<text, native>>
Parse == /\ epc = "new" /\ proto = "ip"
         /\ \E t \in Texts : text' = t /\ Obtain(from_string(t))
         /\ UNCHANGED native
\* get_local_endpoint, get_remote_endpoint, async_receive_from and the resolver.
Receive == /\ epc = "new"
           /\ \E s \in Natives : native' = s /\ Obtain(from_native(s.sa, s.len))
           /\ UNCHANGED text
Write == /\ epc = "have" /\ proto = "ip" /\ epc' = "text" /\ text' = to_string(ep)
         /\ UNCHANGED <<native, ep, first>>
Export == /\ epc = "have" /\ epc' = "native"
          /\ \E len \in BufferLens : \E s \in to_native(ep, len) : native' = s
          /\ UNCHANGED <<text, ep, first>>
ParseBack == epc = "text" /\ Regain(from_string(text))
ReceiveBack == epc = "native" /\ Regain(from_native(native.sa, native.len))

Next == (Build \/ Parse \/ Receive \/ Write \/ Export \/ ParseBack \/ ReceiveBack) /\ UNCHANGED proto

Spec == Init /\ [][Next]_epVars

-----------------------------------------------------------------------------
\* An endpoint survives any sequence of conversions: text and sockaddr, whatever
\* the buffer, give back the endpoint with its scope id, its port in host order
\* and its length, and never one the other class would refuse.
EndpointsSurvive == epc # "lost" /\ (epc = "have" => ep = first)

\* from_string accepts exactly the documented forms, "1.2.3.4:80" and
\* "[::1]:80": a bare IPv6 address is never split at one of its own colons.
Documented(t) ==
  \/ Len(t) = 3 /\ t[1] \in DOMAIN V4 /\ t[2] = ":"
  \/ Len(t) = 5 /\ <<t[1], t[3], t[4]>> = <<"[", "]", ":">> /\ t[2] \in DOMAIN V6
Accepted(t) == Documented(t) /\ Last(t) \in DOMAIN Digits /\ Digits[Last(t)] <= 65535
TextAccepted == text # <<>> /\ epc \in {"have", "refused", "lost"} => (epc = "have") = Accepted(text)
=============================================================================
