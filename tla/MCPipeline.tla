------------------------------ MODULE MCPipeline ------------------------------
(* Configurations of Pipeline for TLC: at most three sources of at most four *)
(* lines.                                                                    *)
EXTENDS Pipeline, TLC

CONSTANTS k1, k2, k3, pub1, pub2, priv, six

\* Answers of DNS: nothing, noise, private and public addresses in either order,
\* an IPv6 text that maps an IPv4 address, more addresses than are kept.
MC_AddressOf == [t \in {"pub1", "pub2", "priv", "mapped_priv", "mapped_pub1", "six"} |->
                   CASE t \in {"pub1", "mapped_pub1"} -> pub1
                     [] t = "pub2" -> pub2
                     [] t = "six" -> six
                     [] OTHER -> priv]
MC_Answers ==
    {<<>>, <<"noise">>, <<"priv">>, <<"noise", "pub1">>, <<"priv", "pub2">>,
     <<"mapped_priv", "pub1">>, <<"six", "pub2">>, <<"six", "mapped_priv">>,
     <<"pub1", "mapped_pub1", "pub2">>, <<"priv", "priv", "mapped_priv", "pub1">>}

\* Names of sources; the caller may well call a source "a#2".
MC_Labels == {"a", "b", "a#2"}
MC_Numbered == [x \in MC_Labels \X (2..3) |-> x[1] \o "#" \o ToString(x[2])]
MC_Names == MC_Labels \cup {MC_Numbered[x] : x \in DOMAIN MC_Numbered}

Line(k, h, p) == [key |-> k, host |-> h, probe |-> p, clean |-> TRUE]
From(x, kind, lines) == [label |-> x, kind |-> kind, lines |-> lines]

\* Every component is provided, no credentials, no limit, the bundle is written.
Full(sources) ==
    [sources |-> sources, fetcher |-> TRUE, resolver |-> TRUE, tcp |-> TRUE,
     handshake |-> TRUE, measurer |-> TRUE, credentials |-> FALSE,
     top_n |-> NoLimit, root |-> TRUE, write |-> TRUE]

\* Sources that share a label, an empty and a rejected line, a duplicate in
\* another source, sources that cannot be read; and sources without nodes, one of them broken.
Mixed ==
    <<From("a", "raw", <<Line(k1, Hostname, "always"), Blank, Bad>>),
      From("a", "file", <<Line(k2, pub1, "always"), Line(k1, pub2, "always")>>),
      From("b", "url", <<Line(k3, pub2, "credential")>>)>>
Empties ==
    <<From("b", "broken", <<>>), From("b", "raw", <<Blank>>),
      From("b", "url", <<Bad, Line(k1, Hostname, "never")>>)>>

\* Every pair of short sources of one label over a small choice of lines.
Short == UNION {[1..n -> {Bad, Line(k1, pub1, "always"),
                          Line(k2, Hostname, "always")}] : n \in 0..2}
MC_Pairs == {Full(<<From("a", "raw", x), From("a", "file", y)>>) :
                x \in Short, y \in Short}

MC_Audit == MC_Pairs \cup
            {Full(Mixed), [Full(Mixed) EXCEPT !.top_n = 1, !.credentials = TRUE],
             Full(Empties), [Full(Mixed) EXCEPT !.top_n = 0],
             [Full(Mixed) EXCEPT !.write = FALSE, !.fetcher = FALSE],
             Full(<<>>), [Full(Empties) EXCEPT !.root = FALSE]}

\* One source of four lines, repeated and private addresses among them, under
\* every choice of components.
Probed ==
    <<From("a", "raw", <<Line(k1, Hostname, "always"), Line(k2, priv, "always"),
                         Line(k1, pub1, "always"),
                         Line(k3, pub2, "credential")>>)>>
MC_Probes ==
    {[Full(Probed) EXCEPT !.resolver = r, !.tcp = t, !.handshake = h,
                          !.measurer = m, !.credentials = c] :
        r \in BOOLEAN, t \in BOOLEAN, h \in BOOLEAN, m \in BOOLEAN,
        c \in BOOLEAN}

MC_Runs == MC_Audit \cup MC_Probes

\* The caller named one source as another will be numbered.
MC_Clash ==
    {Full(<<From("a", "raw", <<>>),
            From("a", "raw", <<Line(k1, pub1, "always")>>),
            From("a#2", "file", <<>>)>>)}

\* A link that carries a control character.
MC_Unsafe ==
    {Full(<<From("a", "raw",
                 <<[Line(k1, pub1, "always") EXCEPT !.clean = FALSE],
                   Line(k2, pub2, "always")>>)>>)}
===============================================================================
