-------------------------------- MODULE Links --------------------------------
(***************************************************************************)
(* hubcore/parsing, hubcore/identity.py and hubcore/dedup.py: what becomes *)
(* of a configuration link.  A link is a record of the parts urlparse and  *)
(* the base64 and JSON decoders deliver; the parsers decide which of them  *)
(* make a node, and what of them its identity keeps.                       *)
(*   scheme, user, pwd, host, port                                         *)
(*          user and pwd are parted at the first colon; a user with an     *)
(*          encoded colon is left out, and so are JSON names in capitals   *)
(*   query  the key/value pairs of the query in order; for vmess the       *)
(*          members of the JSON object                                     *)
(*   name   the fragment, the display name                                 *)
(*   legacy the form ss://BASE64 of an ss link                             *)
(***************************************************************************)
EXTENDS Comprehension, Naturals, Sequences, FiniteSets

CONSTANT None

\* SUPPORTED_SCHEMES.  The table of parsers also has "socks5h", which
\* parse_url never gets to.
ProtocolOf ==
    [vless |-> "vless", vmess |-> "vmess", ss |-> "shadowsocks",
     trojan |-> "trojan", hysteria2 |-> "hysteria2", hy2 |-> "hysteria2",
     socks |-> "socks5", socks5 |-> "socks5"]

-----------------------------------------------------------------------------
(* The query.  A key is a pair <<name, n>>: a name in lower case without     *)
(* the "[]" behind it, and how many of these there are.                      *)

Key(name) == <<name, 0>>
Marked(key) == <<key[1], key[2] + 1>>

\* The assignment out[key] = value.
Put(out, key, value) ==
    [k \in DOMAIN out \cup {key} |-> IF k = key THEN value ELSE out[k]]

\* Mutant of AddPair: the value given before is forgotten.
AddPair_LastOnly(out, pair) == Put(out, pair[1], pair[2])

\* The body of the loop of parse_query: the last value wins, and the value it
\* replaces is kept under the marked key unless that one is taken.
AddPair(out, pair) ==
    LET k == pair[1]
        marked == IF k \notin DOMAIN out \/ Marked(k) \in DOMAIN out
                  THEN out
                  ELSE Put(out, Marked(k), out[k])
    IN Put(marked, k, pair[2])

\* The members of a JSON object; the last of a name wins without a trace.
AddMember(out, pair) == Put(out, pair[1], pair[2])

\* The loop of parse_query, and that of the JSON decoder.
Query(link) ==
    LET out[n \in 0..Len(link.query)] ==
          IF n = 0 THEN <<>>
          ELSE IF link.scheme = "vmess" THEN AddMember(out[n - 1], link.query[n])
          ELSE AddPair(out[n - 1], link.query[n])
    IN out[Len(link.query)]

\* q.get(name, ""); an empty value counts as none.
Get(q, name) == IF Key(name) \in DOMAIN q THEN q[Key(name)] ELSE ""
Given(q, name) == Get(q, name) # ""
Either(q, name, other) == IF Given(q, name) THEN Get(q, name) ELSE Get(q, other)

-----------------------------------------------------------------------------
(* Transport and security *)

\* Transport.from_string; "kcp" is unknown, as every other label.
TransportOf(label) ==
    CASE label \in {"tcp", "raw"} -> "tcp"
      [] label \in {"ws", "websocket", "httpupgrade"} -> "ws"
      [] label \in {"grpc", "gun"} -> "grpc"
      [] label \in {"xhttp", "splithttp"} -> "xhttp"
      [] label \in {"h2", "http"} -> "h2"
      [] label = "quic" -> "quic"
      [] OTHER -> "unknown"

\* _transport_and_security.
SecurityOf(q) ==
    LET label == IF Given(q, "security") THEN Get(q, "security")
                 ELSE IF Given(q, "pbk") THEN "reality" ELSE ""
    IN IF label \in {"tls", "reality", "none"} THEN label
       ELSE IF Given(q, "pbk") \/ Given(q, "sid") THEN "reality" ELSE "unknown"

Stream(q) ==
    LET label == Either(q, "type", "net")
    IN [transport |-> TransportOf(label),
        raw       |-> IF TransportOf(label) = "unknown" THEN label ELSE "",
        security  |-> SecurityOf(q)]

\* _finish.
Insecure(q) ==
    (IF Key("allowinsecure") \in DOMAIN q THEN Get(q, "allowinsecure")
     ELSE Get(q, "insecure")) \in {"1", "true", "yes"}

Shared(q) ==
    [sni |-> Get(q, "sni"), alpn |-> Get(q, "alpn"), flow |-> Get(q, "flow"),
     fingerprint |-> Either(q, "fp", "fingerprint"), insecure |-> Insecure(q)]

-----------------------------------------------------------------------------
(* What each protocol reads, and what it keeps of the rest *)

\* Names that _qp_into_protocol_fields is told to leave out.
Dropped ==
    {"type", "security", "sni", "alpn", "fp", "fingerprint", "flow",
     "allowinsecure", "insecure", "path", "host", "servicename"}

\* The JSON members the vmess parser knows; it reads neither "type", "aid" nor
\* "v".
VmessKnown ==
    {"v", "ps", "add", "port", "id", "aid", "scy", "net", "type", "host",
     "path", "tls", "sni", "alpn", "fp"}

\* The values a parser puts into fields of protocol_fields by name.  Keys are
\* in lower case, so hysteria2 never finds the "pinSHA256" it looks for.
Named(scheme) ==
    CASE scheme = "vless" -> {"pbk", "sid", "spx"}
      [] scheme = "ss" -> {"plugin"}
      [] scheme \in {"hysteria2", "hy2"} -> {"obfs", "obfs-password"}
      [] scheme = "vmess" -> {"scy"}
      [] OTHER -> {}

\* A password of hysteria2's obfuscation counts only beside an obfs; the cipher
\* of vmess has a default, and a member called encryption overwrites it.
Extras(scheme, q) ==
    [n \in {m \in Named(scheme) : /\ m = "scy" \/ Given(q, m)
                                  /\ m = "obfs-password" => Given(q, "obfs")}
        |-> IF n = "scy" /\ Key("encryption") \in DOMAIN q THEN Get(q, "encryption")
            ELSE IF Given(q, n) THEN Get(q, n) ELSE "auto"]

\* Everything else is kept under its key, marked keys included; ss keeps
\* nothing else.  A member of a vmess link that is called encryption is in the
\* place of its cipher.
Rest(scheme, q) ==
    LET left == CASE scheme = "ss" -> {}
                  [] scheme = "vmess" ->
                       DOMAIN q \ {Key(n) : n \in VmessKnown \cup {"encryption"}}
                  [] OTHER -> DOMAIN q \ {Key(n) : n \in Dropped \cup Named(scheme)}
    IN [k \in left |-> q[k]]

\* Fields of their own: path, Host header and service name.
Place(scheme, legacy, q) ==
    [path |-> IF scheme \in {"socks", "socks5"} THEN "" ELSE Get(q, "path"),
     header |-> IF scheme \in {"vless", "vmess", "trojan"} THEN Get(q, "host") ELSE "",
     service |-> IF scheme = "vmess"
                 THEN IF Get(q, "type") = "grpc" THEN Get(q, "path") ELSE ""
                 ELSE IF scheme \in {"vless", "trojan"} \/ (scheme = "ss" /\ ~legacy)
                      THEN Get(q, "servicename") ELSE ""]

\* vmess hands its own members on under the names of a query.
Renamed(scheme, q) ==
    IF scheme = "vmess"
    THEN [k \in {Key(n) : n \in {"security", "type", "path", "host", "sni", "alpn", "fp"}}
            |-> Get(q, CASE k[1] = "security" -> "tls"
                         [] k[1] = "type" -> "net"
                         [] OTHER -> k[1])]
    ELSE q

-----------------------------------------------------------------------------
(* The link as a whole *)

\* Whether the credentials make a node; socks needs none.
Credited(link) ==
    CASE link.scheme = "vless" -> link.user # "" /\ link.pwd = ""
      [] link.scheme = "vmess" -> link.user # ""
      [] link.scheme = "ss" -> link.pwd # ""
      [] link.scheme \in {"trojan", "hysteria2", "hy2"} -> link.user # "" \/ link.pwd # ""
      [] OTHER -> TRUE

\* _endpoint_from_netloc and Endpoint: a missing port has a default, except
\* for vmess; 0 stands for a port that is no port.
PortOf(link) ==
    IF link.port # None THEN link.port
    ELSE CASE link.scheme \in {"socks", "socks5"} -> 1080
           [] link.scheme = "vmess" -> 0
           [] OTHER -> 443

\* The ports of an Endpoint.
Ports == 1..65535

Accepted(link) ==
    /\ link.scheme \in DOMAIN ProtocolOf
    /\ Credited(link)
    /\ link.host # None
    /\ PortOf(link) \in Ports

\* user and password as the node has them.  Without a user the password of a
\* socks link is not read, that of a hysteria2 link is all of the credential, and
\* the cipher of ss has a default.  Where the parser joins the two with a colon a
\* pair stands for the text, for there is no colon in the user of a link.
Secrets(link) ==
    IF link.scheme = "vmess" THEN <<link.user, "">>
    ELSE IF link.user # "" THEN <<link.user, link.pwd>>
    ELSE CASE link.scheme \in {"socks", "socks5"} -> <<"", "">>
           [] link.scheme \in {"hysteria2", "hy2"} -> <<link.pwd, "">>
           [] link.scheme = "ss" -> <<"unknown", link.pwd>>
           [] OTHER -> <<"", link.pwd>>

\* parse_url: the node of an accepted link.  The parser of the legacy form of ss
\* puts the fragment among the protocol fields too.
Parse(link) ==
    LET q == Query(link)
        r == Renamed(link.scheme, q)
    IN [protocol |-> ProtocolOf[link.scheme],
        host |-> link.host, port |-> PortOf(link), secrets |-> Secrets(link),
        stream |-> Stream(r), shared |-> Shared(r), place |-> Place(link.scheme, link.legacy, r),
        extras |-> Extras(link.scheme, q), rest |-> Rest(link.scheme, q),
        fragment |-> IF link.legacy THEN link.name ELSE "",
        name |-> link.name]

\* config_key with canonical_host: all but the display name and a final dot of
\* the host.
DedupKey(node) ==
    [node EXCEPT !.name = "", !.host = [@ EXCEPT !.dot = FALSE]]

\* dedup_nodes: first wins, order kept.  The result holds positions of nodes.
DedupKept(nodes) ==
    Picked([i \in DOMAIN nodes |-> i],
           {i \in DOMAIN nodes : \A j \in 1..(i - 1) : DedupKey(nodes[j]) # DedupKey(nodes[i])})

-----------------------------------------------------------------------------
(* A reference: what a link says, written down without following a parser *)

Keys(link) == {link.query[i][1] : i \in DOMAIN link.query}

\* The values of a key in the order of the link.
Values(link, key) ==
    LET given == Picked(link.query, {i \in DOMAIN link.query : link.query[i][1] = key})
    IN [i \in DOMAIN given |-> given[i][2]]

\* The value that counts is the last one.
Tells(link, key) ==
    LET v == Values(link, key) IN v # <<>> /\ v[Len(v)] # ""

\* A public key or a short id says that the layer is reality.
Keyed(link) == Tells(link, Key("pbk")) \/ Tells(link, Key("sid"))

\* What a link says under a key: its values in order.  An empty value of a name
\* that the protocol knows says nothing, and the labels of one transport say the
\* same.
Says(link, key) ==
    LET v == Values(link, key)
        SameLabel(i) == /\ key = Key("type") /\ i = Len(v)
                        /\ TransportOf(v[i]) # "unknown"
    IN IF v = <<"">> /\ key \in {Key(n) : n \in Dropped \cup Named(link.scheme)} THEN <<>>
       ELSE IF key = Key("security") /\ v = <<>> /\ Keyed(link) THEN <<"reality">>
       ELSE [i \in 1..Len(v) |-> IF SameLabel(i) THEN TransportOf(v[i]) ELSE v[i]]

\* The server and who connects to it.
Account(link) ==
    [protocol |-> ProtocolOf[link.scheme], host |-> link.host.name,
     port |-> PortOf(link), secrets |-> <<link.user, link.pwd>>]

Meaning(link) ==
    [account |-> Account(link),
     says |-> [k \in {k \in Keys(link) \cup {Key("security")} : Says(link, k) # <<>>}
                 |-> Says(link, k)]]

\* The links of which nothing is lost: those of the two protocols that are
\* dialled, no name given more than twice or with a mark, a security layer the
\* program knows, no flag of which only the truth is kept, and no name that stands
\* in for another one.
Careful(link) ==
    /\ link.scheme \in {"vless", "trojan"}
    /\ \A key \in Keys(link) : key[2] = 0 /\ Len(Values(link, key)) <= 2
    /\ \A i \in DOMAIN Values(link, Key("security")) :
         Values(link, Key("security"))[i] \in {"tls", "reality", "none"}
    /\ Keys(link) \cap {Key(n) : n \in {"allowinsecure", "insecure", "net", "fingerprint"}} = {}

\* A link as the decoders deliver it.
IsLink(link) ==
    /\ link.host # None => link.host = [name |-> link.host.name, dot |-> link.host.dot]
    /\ Len(link.query) \in Nat /\ DOMAIN link.query = 1..Len(link.query)
    /\ \A key \in Keys(link) : key = <<key[1], key[2]>> /\ key[2] \in Nat
    /\ link.legacy => link.scheme = "ss"
==============================================================================
