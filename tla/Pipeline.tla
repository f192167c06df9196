------------------------------- MODULE Pipeline -------------------------------
(***************************************************************************)
(* hubcore/pipeline.py: one run of run_pipeline over a configuration, with *)
(* the parts of ingest, dedup, tcpval, handshake, measure, scoring,        *)
(* ranking and output it drives.                                           *)
(*                                                                         *)
(* The run is sequential; what is uncertain is the outside world: whether  *)
(* a source can be read, what DNS answers, which connections and probes    *)
(* succeed, how fast they are.  A step handles one source, one line or one *)
(* node of one stage.  A wrapper (IngestedNode) remembers in "at" the      *)
(* source and line it really came from, which the program does not keep.   *)
(* The country the geo stage writes on a node is a matter of Publish.      *)
(***************************************************************************)
EXTENDS Naturals, Sequences, FiniteSetsExt, Answers

CONSTANTS
    Labels, Names,       \* what callers name sources; names within a run
    MaxSources,          \* bound on the sources of one run
    Numbered,            \* Numbered[<<x, n>>]: the name x#n
    NoIP,
    Hostname,            \* a host that is no IP literal
    DnsAnswers,          \* what getaddrinfo may answer for a host name
    Keys,                \* dedup keys
    Blank, Bad,          \* an empty line, a line that is rejected
    NoLimit,             \* top_n = None
    Configs

\* probe: what probe_gate says of the node; clean: its raw_url can be rendered.
Nodes == [key : Keys, host : IPs \cup {Hostname},
          probe : {"always", "credential", "never"}, clean : BOOLEAN]

\* broken: an empty path or URL, or a URL that urlparse refuses.
Sources == [label : Labels, kind : {"raw", "file", "url", "broken"},
            lines : Seq(Nodes \cup {Blank, Bad})]

\* Which components the caller provided.
ConfigSpace ==
    [sources : Seq(Sources), fetcher : BOOLEAN, resolver : BOOLEAN,
     tcp : BOOLEAN, handshake : BOOLEAN, measurer : BOOLEAN,
     credentials : BOOLEAN, top_n : Nat \cup {NoLimit},
     root : BOOLEAN, write : BOOLEAN]

ASSUME ConfigAssumption ==
    /\ Configs \subseteq ConfigSpace
    /\ \A c \in Configs : Len(c.sources) <= MaxSources
    /\ Labels \subseteq Names
    /\ MaxSources \in Nat
    /\ Numbered \in [Labels \X (2..MaxSources) -> Names]
    /\ NoLimit \notin Nat
ASSUME AddressAssumption ==
    /\ Hostname \notin IPs
    /\ NoIP \notin IPs
    /\ Blank \notin Nodes
    /\ Bad \notin Nodes \cup {Blank}

VARIABLES
    config,
    pc,          \* the stage that is running
    error,       \* why the run raised
    \* ingest
    src, pos,    \* current source, current line of it (0: not yet opened)
    names,       \* used_names
    seen,        \* lines_seen of the merged result
    nodes, errors,
    \* the stage that is running
    queue, out,  \* nodes it has still to handle, nodes it keeps
    \* what the stages report
    dropped, failed, outcomes, ranked,
    rows,        \* result.nodes
    dials        \* history: the connections attempted

ingestVars == <<src, pos, names, seen, nodes, errors>>
vars == <<config, pc, error, src, pos, names, seen, nodes, errors, queue, out,
          dropped, failed, outcomes, ranked, rows, dials>>

LiveStages == {"dns", "tcp", "handshake", "measure"}
Statuses == {"ok", "rejected", "dropped", "failed", "unranked"}

Wrappers == [node : Nodes, origin : Names, line : Nat, at : Nat \X Nat,
             ip : IPs \cup {NoIP},
             measured : {"none", "one", "two"},   \* probes that answered
             inRange : BOOLEAN]                   \* latency within the gate
Rejections == [origin : Names, line : Nat, at : Nat \X Nat]
Losses == [w : Wrappers, stage : LiveStages]
Outcomes == [w : Wrappers, scored : BOOLEAN]
Rows == [key : Names \X Nat, status : Statuses,
         stage : LiveStages \cup {"", "ingest", "dedup", "score"}, rank : Nat]
Dials == [at : Nat \X Nat, stage : LiveStages, ip : IPs]

\* _join_key.
Key(x) == <<x.origin, x.line>>

TypeOK ==
    /\ config \in Configs
    /\ pc \in {"start", "ingest", "dedup", "score", "rank", "output", "write",
               "report", "end", "geo"} \cup LiveStages
    /\ error \in {"none", "input", "output", "writer"}
    /\ src \in Nat \ {0}
    /\ pos \in Nat
    /\ names \in [Labels -> Nat]
    /\ seen \in Nat
    /\ nodes \in Seq(Wrappers)
    /\ errors \in Seq(Rejections)
    /\ queue \in Seq(Wrappers)
    /\ out \in Seq(Wrappers)
    /\ dropped \in Seq(Wrappers)
    /\ failed \in Seq(Losses)
    /\ outcomes \in Seq(Outcomes)
    /\ ranked \in Seq(Wrappers)
    /\ rows \subseteq Rows
    /\ dials \subseteq Dials

Init ==
    /\ config \in Configs
    /\ pc = "start"
    /\ error = "none"
    /\ src = 1
    /\ pos = 0
    /\ names = [x \in Labels |-> 0]
    /\ seen = 0
    /\ nodes = <<>>
    /\ errors = <<>>
    /\ queue = <<>>
    /\ out = <<>>
    /\ dropped = <<>>
    /\ failed = <<>>
    /\ outcomes = <<>>
    /\ ranked = <<>>
    /\ rows = {}
    /\ dials = {}

-----------------------------------------------------------------------------
(* Caller inputs and ingest *)

Malformed ==
    \/ config.sources = <<>>
    \/ config.write /\ ~config.root

\* run_pipeline refuses malformed inputs before it does anything.
CheckInputs ==
    /\ pc = "start"
    /\ IF Malformed THEN pc' = "end" /\ error' = "input"
                    ELSE pc' = "ingest" /\ UNCHANGED error
    /\ UNCHANGED <<config, ingestVars, queue, out, dropped, failed, outcomes,
                   ranked, rows, dials>>

Source == config.sources[src]

\* The name of the n-th source of the run that carries this label.
OriginName(label, n) == IF n = 1 THEN label ELSE Numbered[<<label, n>>]

\* Mutant of FileError: _line_no's default of -1 reaches the audit.
FileError_NoLine(label) ==
    [origin |-> OriginName(label, names[label] + 1),
     line |-> IF seen = 0 THEN 0 - 1 ELSE seen, at |-> <<src, 0>>]

\* The error a source leaves that cannot be read: line 0, which
\* IngestResult.merged renumbers like any other line.
FileError(label) ==
    [origin |-> OriginName(label, names[label] + 1), line |-> seen,
     at |-> <<src, 0>>]

\* Mutant of AfterFailure: a source that cannot be read ends the ingest stage.
AfterFailure_Break == Len(config.sources) + 1

\* The source to go on with after one that cannot be read.
AfterFailure == src + 1

\* A source gets its unique name and is read, or leaves one error; one that is
\* broken raises and leaves nothing.
OpenSource ==
    /\ pc = "ingest"
    /\ src <= Len(config.sources)
    /\ pos = 0
    /\ names' = [names EXCEPT ![Source.label] = @ + 1]
    /\ \/ /\ Source.kind # "broken"
          /\ Source.kind = "url" => config.fetcher
          /\ pos' = 1
          /\ UNCHANGED <<src, errors>>
       \/ /\ Source.kind \in {"file", "url"}
          /\ errors' = Append(errors, FileError(Source.label))
          /\ src' = AfterFailure
          /\ UNCHANGED pos
       \/ /\ Source.kind = "broken"
          /\ src' = AfterFailure
          /\ UNCHANGED <<pos, errors>>
    /\ UNCHANGED <<config, pc, error, seen, nodes, queue, out, dropped, failed,
                   outcomes, ranked, rows, dials>>

\* ingest_text: one line is skipped, rejected or parsed.  IngestResult.merged
\* adds the lines seen in earlier sources to its number.
ReadLine ==
    /\ pc = "ingest"
    /\ pos > 0
    /\ pos <= Len(Source.lines)
    /\ seen' = seen + 1
    /\ pos' = pos + 1
    /\ LET line   == Source.lines[pos]
           origin == OriginName(Source.label, names[Source.label])
       IN  \/ /\ line = Blank
              /\ UNCHANGED <<nodes, errors>>
           \/ /\ line = Bad
              /\ errors' = Append(errors, [origin |-> origin, line |-> seen + 1,
                                           at |-> <<src, pos>>])
              /\ UNCHANGED nodes
           \/ /\ line \in Nodes
              /\ nodes' = Append(nodes,
                    [node |-> line, origin |-> origin, line |-> seen + 1,
                     at |-> <<src, pos>>, ip |-> NoIP, measured |-> "none",
                     inRange |-> FALSE])
              /\ UNCHANGED errors
    /\ UNCHANGED <<config, pc, error, src, names, queue, out, dropped, failed,
                   outcomes, ranked, rows, dials>>

CloseSource ==
    /\ pc = "ingest"
    /\ pos > 0
    /\ pos > Len(Source.lines)
    /\ src' = src + 1
    /\ pos' = 0
    /\ UNCHANGED <<config, pc, error, names, seen, nodes, errors, queue, out,
                   dropped, failed, outcomes, ranked, rows, dials>>

EndIngest ==
    /\ pc = "ingest"
    /\ src > Len(config.sources)
    /\ pc' = "dedup"
    /\ queue' = nodes
    /\ UNCHANGED <<config, error, ingestVars, out, dropped, failed, outcomes,
                   ranked, rows, dials>>

-----------------------------------------------------------------------------
(* Dedup and the live stages *)

Handle(stage) ==
    /\ pc = stage
    /\ queue # <<>>
    /\ queue' = Tail(queue)
    /\ UNCHANGED <<config, pc, error, ingestVars, ranked, rows>>

Keep(w) == out' = Append(out, w)
Fail(w) == failed' = Append(failed, [w |-> w, stage |-> pc])

\* Mutant of Dedup: only a repetition of the previous line is noticed.
Dedup_AdjacentOnly ==
    /\ Handle("dedup")
    /\ LET w == Head(queue)
       IN  IF out # <<>> /\ out[Len(out)].node.key = w.node.key
           THEN dropped' = Append(dropped, w) /\ UNCHANGED out
           ELSE Keep(w) /\ UNCHANGED dropped
    /\ UNCHANGED <<failed, outcomes, dials>>

\* dedup_nodes: the first node with a key is kept.
Dedup ==
    /\ Handle("dedup")
    /\ LET w == Head(queue)
       IN  IF \E v \in Range(out) : v.node.key = w.node.key
           THEN dropped' = Append(dropped, w) /\ UNCHANGED out
           ELSE Keep(w) /\ UNCHANGED dropped
    /\ UNCHANGED <<failed, outcomes, dials>>

\* What a stage writes on a node it hands on: the address it is pinned to, the
\* latency and jitter that were measured.
Pinned(w, ip)     == [w EXCEPT !.ip = ip]
Attached(w, m, r) == [w EXCEPT !.measured = m, !.inRange = r]

\* _resolve_nodes: a literal pins itself without being classified; a host name
\* pins the first public address of the answer, or fails: without a resolver, if
\* the lookup fails, and if no address of the answer is public.
Resolve ==
    /\ Handle("dns")
    /\ LET w == Head(queue)
       IN  \/ /\ w.node.host # Hostname
              /\ Keep(Pinned(w, w.node.host))
              /\ UNCHANGED failed
           \/ /\ w.node.host = Hostname
              /\ config.resolver
              /\ \E infos \in DnsAnswers : \E ip \in FirstPublic(infos) :
                    Keep(Pinned(w, ip))
              /\ UNCHANGED failed
           \/ /\ w.node.host = Hostname
              /\ Fail(w)
              /\ UNCHANGED out
    /\ UNCHANGED <<dropped, outcomes, dials>>

\* _geo_stage and annotate_resolved: with or without a provider, and whatever
\* becomes of its lookups, the stage hands on every node in the order it came.
AnnotateGeo ==
    /\ pc = "geo"
    /\ queue # <<>>
    /\ out' = queue
    /\ queue' = <<>>
    /\ UNCHANGED <<config, pc, error, ingestVars, dropped, failed, outcomes,
                   ranked, rows, dials>>

\* The gate every dialling component applies to the pinned address.
Allowed(w) == w.ip \in PublicIPs

\* probe_gate, as the handshake and the measurer call it.
Probeable(w) ==
    \/ w.node.probe = "always"
    \/ w.node.probe = "credential" /\ config.credentials

Dial(w) == dials' = dials \cup {[at |-> w.at, stage |-> pc, ip |-> w.ip]}

\* Mutant of Probe: a node that failed is reported but not removed.
Probe_KeepsFailed(stage, provided, ready, answers) ==
    /\ Handle(stage)
    /\ LET w == Head(queue)
       IN  \/ /\ ~provided
              /\ Keep(w)
              /\ UNCHANGED <<failed, dials>>
           \/ /\ provided
              /\ Keep(w)
              /\ Fail(w)
              /\ UNCHANGED dials
           \/ /\ provided
              /\ ready
              /\ Dial(w)
              /\ \E v \in answers : Keep(v)
              /\ UNCHANGED failed
    /\ UNCHANGED <<dropped, outcomes>>

\* What the three dialling stages do with one node: pass it on if the caller
\* provided no component; refuse it undialled if the gates are not passed;
\* dial it, and keep it with what the component learnt or fail it.
Probe(stage, provided, ready, answers) ==
    /\ Handle(stage)
    /\ LET w == Head(queue)
       IN  \/ /\ ~provided
              /\ Keep(w)
              /\ UNCHANGED <<failed, dials>>
           \/ /\ provided
              /\ ~ready
              /\ Fail(w)
              /\ UNCHANGED <<out, dials>>
           \/ /\ provided
              /\ ready
              /\ Dial(w)
              /\ \/ \E v \in answers : Keep(v) /\ UNCHANGED failed
                 \/ Fail(w) /\ UNCHANGED out
    /\ UNCHANGED <<dropped, outcomes>>

\* TcpValidator.validate_and_attach.
TcpConnect ==
    Probe("tcp", config.tcp, Allowed(Head(queue)), {Head(queue)})

\* HandshakeValidator.validate.
Handshake ==
    Probe("handshake", config.handshake,
          Allowed(Head(queue)) /\ Probeable(Head(queue)), {Head(queue)})

\* ProxyMeasurer.attach: of two independent probes the first must answer, the
\* second replaces its latency and adds the jitter.
Measure ==
    Probe("measure", config.measurer,
          Allowed(Head(queue)) /\ Probeable(Head(queue)),
          {Attached(Head(queue), m, r) : m \in {"one", "two"}, r \in BOOLEAN})

\* Mutant of Scored: a missing jitter is taken for the legacy default.
Scored_LegacyJitter(w) ==
    /\ w.node.probe # "never"
    /\ w.measured # "none"
    /\ w.inRange

\* score_node: only a supported node with a measured latency within the gate
\* and a real jitter is scored.
Scored(w) ==
    /\ w.node.probe # "never"
    /\ w.measured = "two"
    /\ w.inRange

Score ==
    /\ Handle("score")
    /\ outcomes' = Append(outcomes, [w |-> Head(queue),
                                     scored |-> Scored(Head(queue))])
    /\ UNCHANGED <<out, dropped, failed, dials>>

Following == [dedup |-> "dns", dns |-> "geo", geo |-> "tcp",
              tcp |-> "handshake", handshake |-> "measure", measure |-> "score", score |-> "rank"]

\* Mutant of NextStage: a stage that kept no node ends nothing.
NextStage_NeedsNodes ==
    /\ pc \in DOMAIN Following
    /\ queue = <<>>
    /\ out # <<>> \/ pc = "score"
    /\ pc' = Following[pc]
    /\ queue' = out
    /\ out' = <<>>
    /\ UNCHANGED <<config, error, ingestVars, dropped, failed, outcomes, ranked,
                   rows, dials>>

\* run_pipeline hands the nodes a stage kept to the next one.
NextStage ==
    /\ pc \in DOMAIN Following
    /\ queue = <<>>
    /\ pc' = Following[pc]
    /\ queue' = out
    /\ out' = <<>>
    /\ UNCHANGED <<config, error, ingestVars, dropped, failed, outcomes, ranked,
                   rows, dials>>

-----------------------------------------------------------------------------
(* Ranking, output, writing and the audit *)

ScoredNodes == {o.w : o \in {x \in Range(outcomes) : x.scored}}

\* rank_candidates: the scored nodes in some order (the sort key is not
\* modelled), cut to top_n; a top_n that is no positive integer raises.
Rank ==
    /\ pc = "rank"
    /\ \/ /\ config.top_n = 0
          /\ pc' = "end"
          /\ error' = "input"
          /\ UNCHANGED ranked
       \/ /\ config.top_n # 0
          /\ pc' = "output"
          /\ LET n == Cardinality(ScoredNodes)
             IN  \E order \in Bijection(1..n, ScoredNodes) :
                    ranked' = IF config.top_n = NoLimit \/ config.top_n >= n
                              THEN order ELSE SubSeq(order, 1, config.top_n)
          /\ UNCHANGED error
    /\ UNCHANGED <<config, ingestVars, queue, out, dropped, failed, outcomes,
                   rows, dials>>

\* build_outputs: rendering a link whose raw_url holds a control character
\* raises UnsafeOutputTextError.
BuildOutputs ==
    /\ pc = "output"
    /\ IF \E w \in Range(ranked) : ~w.node.clean
       THEN pc' = "end" /\ error' = "output"
       ELSE /\ pc' = IF config.write THEN "write" ELSE "report"
            /\ UNCHANGED error
    /\ UNCHANGED <<config, ingestVars, queue, out, dropped, failed, outcomes,
                   ranked, rows, dials>>

\* write_outputs: the bundle is written, or a WriterError aborts the run.
WriteOutputs ==
    /\ pc = "write"
    /\ \/ pc' = "report" /\ UNCHANGED error
       \/ pc' = "end" /\ error' = "writer"
    /\ UNCHANGED <<config, ingestVars, queue, out, dropped, failed, outcomes,
                   ranked, rows, dials>>

\* The loops of _merge_node_reports, each of which overwrites what the loops
\* before it wrote for a key.
Unscored(k) == \E o \in Range(outcomes) : Key(o.w) = k /\ ~o.scored
Failures(k) == {i \in DOMAIN failed : Key(failed[i].w) = k}
Dropped(k)  == \E w \in Range(dropped) : Key(w) = k
Rejected(k) == \E e \in Range(errors) : Key(e) = k
Ranks(k)    == {i \in DOMAIN ranked : Key(ranked[i]) = k}

\* Mutant of Verdict: the handshake reports are not merged.
Verdict_NoHandshake(k) ==
    LET others == {i \in Failures(k) : failed[i].stage # "handshake"}
    IN  IF Unscored(k) THEN <<"unranked", "score">>
        ELSE IF others # {} THEN <<"failed", failed[Max(others)].stage>>
        ELSE IF Dropped(k) THEN <<"dropped", "dedup">>
        ELSE IF Rejected(k) THEN <<"rejected", "ingest">>
        ELSE <<"ok", "">>

\* Status and deciding stage of the row with key k.
Verdict(k) ==
    IF Unscored(k) THEN <<"unranked", "score">>
    ELSE IF Failures(k) # {} THEN <<"failed", failed[Max(Failures(k))].stage>>
    ELSE IF Dropped(k) THEN <<"dropped", "dedup">>
    ELSE IF Rejected(k) THEN <<"rejected", "ingest">>
    ELSE <<"ok", "">>

\* The row with key k; rank 0 stands for None, the score goes with the rank.
Row(k) == [key |-> k, status |-> Verdict(k)[1], stage |-> Verdict(k)[2],
           rank |-> IF Ranks(k) = {} THEN 0 ELSE Max(Ranks(k))]

\* _merge_node_reports: one row per key.
MergeReports ==
    /\ pc = "report"
    /\ rows' = {Row(k) : k \in {Key(e) : e \in Range(errors)}
                               \cup {Key(w) : w \in Range(nodes)}}
    /\ pc' = "end"
    /\ UNCHANGED <<config, error, ingestVars, queue, out, dropped, failed,
                   outcomes, ranked, dials>>

Next ==
    \/ CheckInputs
    \/ OpenSource \/ ReadLine \/ CloseSource \/ EndIngest
    \/ Dedup \/ Resolve \/ AnnotateGeo \/ TcpConnect \/ Handshake \/ Measure \/ Score
    \/ NextStage
    \/ Rank \/ BuildOutputs \/ WriteOutputs \/ MergeReports

Spec == Init /\ [][Next]_vars

\* One thread runs the pipeline and every call it makes returns: sockets,
\* lookups and fetches have timeouts.
FairSpec == Spec /\ WF_vars(Next)

-----------------------------------------------------------------------------
(* Properties *)

\* The run returned a PipelineResult.
Done == pc = "end" /\ error = "none"

\* At any moment after ingest each parsed node is in exactly one place: still
\* to be handled, kept by the running stage, dropped as a duplicate, failed, or
\* given a score outcome.  No stage loses a node or lets one through twice.
Conservation ==
    pc \notin {"start", "ingest", "end"} =>
        \A i \in DOMAIN nodes :
            LET here(s) == Cardinality({j \in DOMAIN s : s[j].at = nodes[i].at})
                held(s) == Cardinality({j \in DOMAIN s : s[j].w.at = nodes[i].at})
            IN  here(queue) + here(out) + here(dropped) + held(failed)
                    + held(outcomes) = 1

\* When the run is done each line has one row and that row tells what became
\* of that very line: why it was rejected, dropped or failed, that it was not
\* scored, or its rank.  (For sources whose names do not look like the name#n
\* of another source; JoinKeyUnique is about the others.)
AuditFaithful ==
    Done =>
        LET RowIs(x, status, stage, rank) ==
                {r \in rows : r.key = Key(x)} =
                    {[key |-> Key(x), status |-> status, stage |-> stage,
                      rank |-> rank]}
        IN  /\ Cardinality(rows) = Len(nodes) + Len(errors)
            /\ \A e \in Range(errors) : RowIs(e, "rejected", "ingest", 0)
            /\ \A w \in Range(dropped) : RowIs(w, "dropped", "dedup", 0)
            /\ \A f \in Range(failed) : RowIs(f.w, "failed", f.stage, 0)
            /\ \A o \in Range(outcomes) :
                  IF ~o.scored THEN RowIs(o.w, "unranked", "score", 0)
                  ELSE \/ \E i \in DOMAIN ranked :
                             ranked[i] = o.w /\ RowIs(o.w, "ok", "", i)
                       \/ /\ o.w \notin Range(ranked)
                          /\ Len(ranked) = config.top_n
                          /\ RowIs(o.w, "ok", "", 0)

\* Only public addresses are ever dialled, and all stages dial one line at the
\* one address that was pinned for it (no second resolution in between).  A host
\* name is never pinned to an address those gates refuse: neither an answer that
\* mixes private with public addresses nor one that hides a private address in a
\* mapped IPv6 text costs the host its node.
EgressPinned ==
    /\ \A d \in dials :
         /\ d.ip \in PublicIPs
         /\ \A e \in dials : d.at = e.at => d.ip = e.ip
    /\ \A s \in {queue, out, dropped} : \A w \in Range(s) :
         w.node.host = Hostname /\ w.ip # NoIP => w.ip \in PublicIPs

\* Of the lines that mean the same configuration only the first is ever dialled.
DuplicatesSilent ==
    \A d \in dials : \A i, j \in DOMAIN nodes :
        nodes[j].at = d.at /\ nodes[i].node.key = nodes[j].node.key => j <= i

\* A rank is earned: a ranked node was dialled by every component of the run,
\* the measurer among them, and its latency and jitter were both measured.
RankIsEarned ==
    \A w \in Range(ranked) :
        /\ config.measurer
        /\ w.measured = "two"
        /\ \A stage \in {"measure"}
                        \cup (IF config.tcp THEN {"tcp"} ELSE {})
                        \cup (IF config.handshake THEN {"handshake"} ELSE {}) :
              [at |-> w.at, stage |-> stage, ip |-> w.ip] \in dials

\* The fate of the line at a place, read off the lists of the run; a place without
\* a line counts as blank, and a line that is not blank and left no trace as unread.
Places == UNION {UNION {{<<s, l>> : l \in DOMAIN c.sources[s].lines} :
                          s \in DOMAIN c.sources} : c \in Configs}
IsLine(l) == l[1] \in DOMAIN config.sources /\ l[2] \in DOMAIN config.sources[l[1]].lines
ErrorAt(l) == \E e \in Range(errors) : e.at = l
DroppedAt(l) == \E w \in Range(dropped) : w.at = l
FailedAt(l) == \E f \in Range(failed) : f.w.at = l
OutcomeAt(l, scored) == \E o \in Range(outcomes) : o.w.at = l /\ o.scored = scored
NodeAt(l) == \E w \in Range(nodes) : w.at = l
Read(l) == src > l[1] \/ (src = l[1] /\ pos > l[2])
Lost(s) == config.sources[s].kind = "broken" \/ ErrorAt(<<s, 0>>)
FateOf(l) ==
    IF ~IsLine(l) THEN "blank"
    ELSE IF ErrorAt(l) THEN "rejected"
    ELSE IF DroppedAt(l) THEN "dropped"
    ELSE IF FailedAt(l) THEN "failed"
    ELSE IF OutcomeAt(l, FALSE) THEN "unranked"
    ELSE IF OutcomeAt(l, TRUE) THEN "scored"
    ELSE IF NodeAt(l) THEN "pending"
    ELSE IF src > l[1] /\ Lost(l[1]) THEN "unreadable"
    ELSE IF Read(l) /\ config.sources[l[1]].lines[l[2]] = Blank THEN "blank"
    ELSE "unread"

\* What the rows say of a line; one that has no row of its own keeps its fate.
Told(l) ==
    LET mine == {r \in rows : \E x \in Range(nodes) \cup Range(errors) :
                                x.at = l /\ r.key = Key(x)}
    IN IF mine = {} THEN FateOf(l)
       ELSE LET row == CHOOSE r \in mine : TRUE
            IN IF row.status = "ok" THEN "scored" ELSE row.status

Trail == INSTANCE AuditTrail WITH
    Lines <- Places, SourceOf <- [l \in Places |-> l[1]],
    fate <- [l \in Places |-> FateOf(l)],
    report <- IF pc = "end" /\ error = "none" THEN [l \in Places |-> Told(l)] ELSE <<>>

\* A run implements AuditTrail: a source is read whole or not at all, whatever
\* becomes of the others; the fate of each line is decided once, never revised by
\* a later stage, and the audit tells it; an aborted run decides no more.
TrailSpec == Trail!Spec

\* Every run comes to an end.
RunEnds == <>(pc = "end")

\* pipeline.py:308: "so the per-line audit join key (origin, line_no) is
\* unambiguous no matter what the caller named its sources".
JoinKeyUnique ==
    LET audited == Range(nodes) \cup Range(errors)
    IN  \A x, y \in audited : Key(x) = Key(y) => x.at = y.at

\* pipeline.py:22: "The run FAILS CLOSED only when the caller's own inputs are
\* malformed [...] Missing or failed nodes are data, not errors", and a writer
\* failure aborts the run.
FailSoft == error \in {"none", "input", "writer"}
===============================================================================
