------------------------------ MODULE MCPublish -------------------------------
(* Scenarios of Publish for TLC.  Each kind exercises one hand-over between    *)
(* the stages and keeps the others small.                                      *)
EXTENDS Publish

\* Links -----------------------------------------------------------------------
Host(name) == [name |-> name, dot |-> FALSE]
Vless(host, query) ==
    [scheme |-> "vless", user |-> "u", pwd |-> "", host |-> host, port |-> 443,
     query |-> query, name |-> "n", legacy |-> FALSE]
As(link, scheme, user, pwd) ==
    [link EXCEPT !.scheme = scheme, !.user = user, !.pwd = pwd]

P(name, value) == <<Key(name), value>>
Tls == P("security", "tls")

\* Queries that repeat a name, leave one empty, use an alias, a mark or a name
\* that no parser knows, or say twice that the layer is reality.
Queries ==
    {<<Tls>>, <<Tls, P("mode", "x")>>, <<Tls, P("mode", "y")>>,
     <<Tls, P("mode", "y"), P("mode", "x")>>,
     <<Tls, P("mode", "y"), P("mode", "z"), P("mode", "x")>>,
     <<Tls, <<Marked(Key("mode")), "y">>, P("mode", "x")>>,
     <<Tls, P("sni", "x")>>, <<Tls, P("sni", "y"), P("sni", "x")>>, <<Tls, P("sni", "")>>,
     <<Tls, P("type", "ws")>>, <<Tls, P("type", "websocket")>>, <<Tls, P("type", "kcp")>>,
     <<Tls, P("type", "ws"), P("type", "tcp")>>, <<Tls, P("type", "ws"), P("type", "raw")>>,
     <<Tls, P("net", "ws")>>, <<Tls, P("type", "ws"), P("net", "ws")>>,
     <<Tls, P("path", "x"), P("host", "y")>>, <<Tls, P("insecure", "0")>>,
     <<Tls, P("pbk", "x")>>, <<Tls, P("pbk", "y")>>, <<Tls, P("pbk", "")>>,
     <<P("pbk", "x")>>, <<P("security", "reality"), P("pbk", "x")>>,
     <<P("security", "xtls"), P("pbk", "x")>>, <<>>}

\* One link of every protocol, links that make no node, links that differ in the
\* name, the final dot of the host, a credential or a port.
Plain == Vless(Host("a"), <<Tls>>)
Variants ==
    {[Plain EXCEPT !.name = "m"], [Plain EXCEPT !.host.dot = TRUE],
     [Plain EXCEPT !.host.name = "b"], [Plain EXCEPT !.port = 80],
     [Plain EXCEPT !.port = None], [Plain EXCEPT !.port = 0],
     [Plain EXCEPT !.host = None], [Plain EXCEPT !.user = ""],
     [Plain EXCEPT !.scheme = "socks5h"],
     As(Plain, "trojan", "u", ""), As(Plain, "trojan", "u", "p"),
     As(Plain, "vmess", "u", ""), As(Plain, "ss", "c", "p"),
     As(Plain, "socks", "", ""), As(Plain, "socks5", "u", "p"),
     As(Plain, "hysteria2", "u", ""), As(Plain, "hy2", "u", "")}

Queried(scheme, user, pwd) == {As(Vless(Host("a"), q), scheme, user, pwd) : q \in Queries}

\* Links that are set against each other, two at a time.
MC_Links ==
    {Queried("vless", "u", "") \cup Variants, Queried("trojan", "", "p"),
     Queried("ss", "c", "p") \cup
       {[Plain EXCEPT !.scheme = "ss", !.pwd = "p", !.name = n, !.legacy = TRUE] :
          n \in {"n", "m"}},
     Queried("hy2", "u", ""), Queried("vmess", "u", ""), Queried("socks", "", "")}

\* All the nodes of these feeds are lost to the live stages.
Feed2(l, m) == [feed |-> <<l, m>>, order |-> <<1, 2>>, worlds |-> {},
                top_n |-> Missing, runs |-> 1]
MC_Pairs == UNION {{Feed2(l, m) : l \in links, m \in links} : links \in MC_Links}

\* Worlds -----------------------------------------------------------------------
World(ms, jitter, answer) == [ms |-> ms, jitter |-> jitter, answer |-> answer]
Trojan(host) == As(Vless(Host(host), <<Tls>>), "trojan", "", "p")

\* Three nodes on one score or on one latency, without a sample or too slow; the
\* canonical texts are not in the order of the feed, or two of them are equal
\* because two hosts have one address.
MC_Batches ==
    {[feed |-> <<Vless(Host("a"), <<Tls>>), Vless(Host("b"), <<Tls>>), third>>,
      order |-> o,
      worlds |-> {World(200, 1, None), World(250, 0, "de"), World(499, 0, None),
                  World(500, 0, None), World(201, Missing, "de"),
                  World(Missing, Missing, None)},
      top_n |-> n, runs |-> 1] :
        third \in {Trojan("c"), Vless(Host("c"), <<P("security", "none")>>)},
        n \in {Missing, 1, 2}, o \in {<<2, 3, 1>>, <<2, 2, 1>>}}

\* Two runs over one directory: countries come and go, two of them have names that
\* differ in case, one has a name no host can take, one has none.
MC_Runs ==
    {[feed |-> <<Vless(Host("a"), <<Tls, P("type", "tcp")>>), Trojan("b")>>,
      order |-> <<1, 2>>,
      worlds |-> {World(100, 0, c) : c \in {"Ida", "IDA", "con", "!!"}},
      top_n |-> Missing, runs |-> 2]}

MC_Sanitized == [c \in {"Unknown", "de", "Ida", "IDA", "con", "!!"} |->
                   IF c = "!!" THEN "" ELSE c]
MC_Folded ==
    [f \in {"Unknown", "de", "Ida", "IDA", "con"} |->
        CASE f = "IDA" \/ f = "Ida" -> "ida"
          [] f = "Unknown" -> "unknown"
          [] OTHER -> f]

MC_All == MC_Pairs \cup MC_Batches \cup MC_Runs

\* A duplicate of an ss link that has another parameter, which its parser forgets.
MC_Forgetful ==
    {Feed2([As(Plain, "ss", "c", "p") EXCEPT !.query = <<P("uot", "1")>>],
           As(Plain, "ss", "c", "p")),
     Feed2(Vless(Host("a"), <<Tls, P("mode", "x"), P("mode", "y"), P("mode", "z") >>),
           Vless(Host("a"), <<Tls, P("mode", "x"), P("mode", "w"), P("mode", "z") >>))}
===============================================================================
