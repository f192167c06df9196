# hubcore, modelled in TLA+

This directory specifies the Python package `hubcore` (under `src/hubcore`): a
pipeline that reads proxy configurations from files, text and URLs, removes
duplicates, resolves and probes the servers, scores and ranks them, and writes a
bundle of artifacts. TLC checks the modules on small instances and TLAPS proves
theorems about them for every value of their constants.

| command (in this directory) | what it does |
|---|---|
| `tlc -workers 2 -config PipelineRun.cfg MCPipeline.tla` | one run |
| `tlapm ArtifactWriter_proofs.tla` | the proofs of one component; likewise the other `_proofs` modules |

`PROJECT.json` lists runs, theorems, hazards and the source lines of every
definition.

## Inventory

| component | state it keeps | operations | what makes it correct |
|---|---|---|---|
| `parsing/` | none | text of a link to a `Node` or a `ParseError` | every text is accepted or rejected, never half-read |
| `model.py`, `enums.py`, `identity.py`, `latency.py` | frozen records | constructors that validate, hashes | equal configurations have equal identities |
| `ingest.py` | the `IngestResult` being built | `ingest_text`, `ingest_file`, `ingest_url`, `merged` | each line is counted once, and blank, rejected or a node; a bad source is data |
| `dedup.py` | keys seen | `dedup_nodes` | the first of equal configurations survives, order is kept |
| `fetch.py` | the URL of the hop, redirect count, deadline, bytes | `Fetcher.fetch` | policy holds on every hop, limits are total, responses are closed, it ends |
| `resolver.py` | the TTL cache | `resolve`, `resolve_or_block` | answers are fresh, the cache is bounded, public addresses only |
| `geo.py` | a provider | `lookup` | annotates only |
| `tcpval.py`, `handshake.py`, `measure.py` | one socket at a time, samples | `validate`, `validate_and_attach`, `attach` | only the pinned public address is dialled; numbers are measured, never made up |
| `scoring.py`, `ranking.py` | none | `score_node`, `rank_candidates` | unmeasured nodes are never ranked; the order is total |
| `output.py` | none | `build_outputs` | safe text; distinct file names; groups, tiers and counts agree |
| `writer.py` | the file system, a lock table per process | `write_outputs`, `write_text`, `write_bytes` | artifacts change whole or not at all, also with concurrent writers and crashes |
| `pipeline.py` | the `PipelineResult` being built | `run_pipeline` | no node is lost, one failure spoils nothing else, the audit is true |
| `collector/` | none | two formatting scripts, seven one-line placeholder files | - |

How they interact: `run_pipeline` calls everything else, in one thread, one
stage after the other, and hands lists of wrappers (`IngestedNode`) along. Each
live stage removes nodes and leaves a report per node; `_merge_node_reports`
joins these reports at the end by (origin name, line number). The network
components are handed in by the caller and may be missing. Only the writer has
shared state: the files, which other threads and processes write as well, and
the module-level lock table.

What is hard here: concurrent writers, interrupts, kills and power loss in
`writer.py`; a hostile server and a shared time budget in `fetch.py`; time and
eviction in `resolver.py`; partial failures at every step of `pipeline.py`, and an
audit that is reassembled by key from the reports of eight stages.

## Modules

| module | models | shape |
|---|---|---|
| `ArtifactStore` | what the writer promises | abstract: a file is replaced in one step |
| `ArtifactWriter` | `writer.py` | threads of several processes, one step per file or lock operation |
| `AuditTrail` | what a run promises about each line | abstract: one fate per line, decided once |
| `Pipeline` | `pipeline.py` and its use of every stage | sequential, nondeterministic outside world |
| `Answers` | `resolver.py` between the answer of DNS and `public_ips` | operators, used by `Pipeline` |
| `ResolverCache` | `Resolver.resolve` and `_TTLCache` | calls and ticks of a clock |
| `Fetch` | `fetch.py` | one call against a transport that may do anything |
| `Probe` | `tcpval.py`, `handshake.py`, `measure.py` | calls of the three layers on one node, one step per socket call |
| `Comprehension` | a filtered list, `[x for x in s if ...]` | an operator, used by the next three |
| `Links` | `parsing/`, `identity.py`, `dedup.py`, `enums.py` | operators: from a link to its key |
| `Ranking` | `scoring.py`, `ranking.py` | operators: score, gates, sort keys |
| `Bundle` | `output.py`, `plan_outputs` | operators: groups, tiers, counts, paths |
| `Publish` | `Links`, `Ranking`, `Bundle` composed | runs over one output directory, one step per stage and per artifact |
| `ArtifactWriter_proofs`, `ResolverCache_proofs`, `Fetch_proofs`, `Probe_proofs` | - | theorems about one module each |
| `Pipeline_proofs`, `Audit_proofs` | - | theorems about `Pipeline`: a run; its audit and the refinement of `AuditTrail`. The second extends the first |
| `Links_proofs`, `Publish_proofs` | - | theorems about the operators of `Links`, and with them about `Publish` |
| `MC...` | - | instances for TLC |

`Pipeline` is about control: which nodes go where, what is dialled, what the audit
says. `Publish` is about data: what the pure functions make of a feed. They meet
in the order of the stages; `Publish` replaces the live stages by a free choice of who
survives and with which samples, which `Pipeline` and `Probe` justify, and
takes one step for each artifact, whose inside is `ArtifactWriter`.

An operator whose name carries a suffix (`Release_LockKept`) is a plausible bug
in the definition that follows it. It is used only to show that the properties
can fail.

### ArtifactWriter

`pc[t]` says which line of `write_bytes` or `_atomic_replace` the thread is about
to execute:

| `pc` | code | action |
|---|---|---|
| `idle`, `returned`, `raised` | outside a call | `StartCall` (policy, `plan_outputs`) |
| `root`, `sub` | `os.makedirs`, containment check | `MakeRoot`, `MakeSub` |
| `getlock`, `acquire` | `_target_lock`, `with` | `GetLock`, `Acquire` |
| `check` | `skip_identical` | `CheckIdentical` |
| `mkstemp` ... `replace` | the body of `_atomic_replace` | `MkStemp`, `FdOpen`, `WriteTemp`, `FsyncTemp`, `ReplaceTarget` |
| `cleanup`, `release` | `finally`, end of the `with` block and of the loop body | `Cleanup`, `Release` |

Every action that stands for a file operation has a failing alternative. A file
is described by what a reader gets (`content`) and by the set of versions a power
loss may leave (`possible`): renaming a file whose data were fsynced adds the new
version, renaming one that was not adds `Torn`. The set is an over-approximation
(a real journal keeps fewer versions). The lock of a target is identified by the
thread that created it, so that a lock table forgotten or filled twice would
show. `FileOf` separates the path from the file it names: on a case-insensitive
file system two paths name one file, which is what `Fold` and `plan_outputs` are
about. A thread belongs to a process; a killed process loses its threads, its
lock table and the chance to run `finally`.

`Interrupt` is a `KeyboardInterrupt` between any two steps. It respects `with` and
`finally` but not the two windows the code leaves: between `mkstemp` and the `try`
that owns the file, and inside the cleanup. The `with` statement itself is
taken to release its lock.

`ArtifactStore` knows requests, and for each file a content. `Publish`
takes effect in one step, `Confirm` answers that nothing had to be written,
`Abort` leaves the file alone, `Rollback` is a power loss: files fall back to whole
earlier versions. The refinement maps `content` to `store`, `possible` to `past`,
and a running thread to its request, applied once `result` is set.

### Pipeline

`pc` is the stage. A step handles one source, one line, or one node: it moves the
head of `queue` to `out`, `dropped`, `failed` or `outcomes`. A line is `Blank`, `Bad`
(rejected by the parser) or a node, of which the model keeps what decides its way:
its dedup key, its host (an address or a name), what `probe_gate` says about it, and
whether its `raw_url` can be rendered. Each wrapper carries the source and line it
really came from (`at`), which the program does not store; the properties compare
the audit with it. `Probe` is the common shape of the three dialling stages:
not provided, refused undialled, or dialled with an answer or a failure.

A host name is resolved to an answer out of `DnsAnswers` (nothing, noise, private and
public addresses in either order, mapped IPv6 texts, more than the cap), and `Answers`
says what of it may be pinned (`FirstPublic` gives the set of what is pinned: one address
or none). The geo stage hands on every node it gets.

The refinement of `AuditTrail` reads the fate of each line off the lists of the run
(`FateOf`) and its report off the rows of the audit (`Told`). A source is read whole or
lost whole, a fate is never revised by a later stage, and the audit, which
`_merge_node_reports` pieces together by key from the reports of all stages, tells
exactly that fate.

Left out: the counters of `PipelineResult.stages`, texts, sizes and hashes, and the
sort key of the ranking: `Pipeline` ranks in any order, `Ranking` has the key. Writing
either succeeds or raises, for whatever reason (country names that differ only by
case are one).

### Fetch

One action per call of the transport or of its response. `Elapse` lets a call take
any time, also past the deadline. `ValidUrls` stands for `_validate_http_url`,
`SiteOf` for `_classify_host`. `Follows` says whether the transport follows redirects
by itself, as urllib's `urlopen`, the default, does; then `fetch` sees no 3xx
status and `StaysOnSite` is about the URLs `fetch` hands to the transport, not about
those the transport visits.

### ResolverCache

`data` is the dictionary in insertion order. `Hit` and `Miss` are the two ways through
`resolve`; a lookup takes up to `MaxDelay` ticks and the entry's time starts when it
ends, as in `put`. `heard` records when the server last gave which answer; freshness
compares what `resolve` returned with it. All failures `getaddrinfo` reports are cached
except `ValueError` (`NotCached`). One thread uses a resolver: nothing in the repository
shares one.

### Probe

A behaviour is up to `MaxCalls` calls of the three layers on one node, in any order, as
`run_pipeline` and callers of the public API may make them. `pc` names the call of
the socket that comes next: `create`, `connect`, `tls`, `send`, `read`, and `gap` between
the two probes of `measure`. `owner` says which Python object holds the open
descriptor: after `wrap_socket` the raw socket owns nothing, so closing it does not
help. `clock` is the time since the socket of the current exchange was created, of which the
calls of an exchange together take any part up to `MaxTime`; `t0` is what the code has
read as the start of its window (before the connect for `tcpval`, after it for the other two). The bytes of an answer are abstracted to whether the first of
them is an answer of the protocol (`first`) and how many there are, because
`response_matches_protocol` looks at the first byte only. `odd` is a clock that is not
monotonic, which `measure` may be given. `connected`, `heard`, `truth` and `cut` are history.

`SamplesAreEarned` says of each sample which time of which exchange it is, by the history and
not by `t0`: the connect for `tcpval`; connect to the end of the read loop for the handshake;
connect to the first answer of the last good exchange for `measure`. The handshake's end is
the end of its loop and not the last byte, which is the finding of `probe_window`. A jitter
is the difference of the call's two exchanges, or, after a failed second probe, whatever was
there: the property allows that an earlier jitter stays beside a new latency, because the
code does that.

The handshake reads on after its first answer, up to four times; `measure` stops there
(`ReadOn`). An interrupt leaves through every `finally` of the code; `tcpval`
also closes on an interrupted connect, the two others do not (they catch `Exception`
only), which `SocketsClosed` states as its one exception. An interrupt inside `tls_wrap`
is taken to close the descriptor: it is `ssl`'s by then, and whether its `wrap_socket`
closes on an exception that is neither `OSError` nor `ValueError`, or leaves the object to the
garbage collector, depends on the version of Python.

### Links, Ranking, Bundle and Publish

A link is the record of parts that `urlparse` and the decoders deliver. `Query` builds
the dictionary of `parse_query`, with the marked keys for repeated names; `Parse` says
what each protocol keeps in fields of its own (`Stream`, `Shared`, `Place`, `Extras`), under
the names of the query (`Rest`), and forgets; `DedupKey` is the node without its name and
without the final dot of the host. A key of the dictionary is a name and the number of
`[]` behind it, because a query may contain a literal `a[]` that meets the key under which
the loop keeps the first `a`.

`Meaning` is a reference written without the parsers in view: the account (server,
port, protocol, credentials) and, for each name, all its values in order. `Careful`
restricts the comparison to links of which the parsers lose nothing: vless and trojan,
no name given three times or with a mark, a known security layer, none of the aliases
and flags of which only the effect is kept. `KeyIsMeaning` says when a careful link is
dropped. It does not say "exactly if an earlier link means the same", because a careless
link can have the key of a careful one without its words (`insecure=0` is read as if it
were not there); such a link has at least the same account, which is what the property says.

`Ranking` has the gates of `score_node` in order, the formula in hundredths, the integrity
checks of `rank_candidates`, the four-level sort key and the stable sort. The
canonical texts of levels three and four are numbers in their order. `identity` may
be equal for two rows although dedup kept both: two host names that resolve to one
address have one identity text once the address is pinned; then `content` decides.

`Bundle` computes the artifacts in the order `_bundle_artifacts` lists them. A grouping
is a function from the positions of the rows that have a file to the names of the files,
and a directory has its files in the order in which the names first appear. `Counts` is
computed apart, as in the code: the sizes of the groups and tiers, and of the nodes left out
by their status. The contents
of an artifact are its rows: rendering is a function of the row. `Sanitized` and
`Folded` stand for `country_filename` and `casefold`, `Reserved` for the names that
`validate_relative_path` refuses.

`Publish` runs feed after feed over one directory; `disk` remembers which run wrote which
artifact with which nodes.

## Runs

All runs switch deadlock checking off, because the system does stop: a run, a
fetch or a call ends, and the calls, crashes or the clock of a model are bounded.

| run | question | bounds |
|---|---|---|
| `writer_threads` | Do two threads of one process exclude each other per target, keep bundles whole and idempotent, and does every call end? | a bundle of two artifacts, one that shares its second target, one with a case clash; one call each, one crash or interrupt |
| `writer_crash` | Does anything torn, leaked, unchecked or untrue come of failures, interrupts, kills and power loss, and is the store implemented? | two processes, a plain, a linked and a refused target, two policies, one crash |
| `pipeline_run` | Is every node accounted for, what is dialled, what does a rank presuppose, is the audit true, does the run end? | up to three sources of up to three lines, four lines under all 32 choices of components, ten DNS answers |
| `pipeline_names` | Are audit keys unique? (violated) | three sources |
| `pipeline_unsafe` | Is a node that cannot be rendered mere data? (violated) | two lines |
| `fetch_policy` | Does a fetch stay on its site, close, stop in time and end? | two redirects, three bytes, a clock of four, two pages of a site and a foreign one |
| `fetch_followed` | Is the reported URL the one served? (violated) | as above, `Follows` |
| `resolver_cache` | Is the cache bounded, fresh and fair in its evictions? | three hosts, two entries, TTL one, a clock of four |
| `probe_calls` | Are reads bounded, sockets closed, verdicts and samples earned, and does every call end? | two calls, two reads, three bytes, a clock of two, eight nodes, three configurations |
| `probe_window` | Does the handshake sample end with the last byte? (violated) | one call |
| `publish` | Do keys mean what links say, is the ranking free of the input order, do artifacts, counts and disk agree? | all pairs of 42 links (25 vless queries, a link of every protocol, links that make no node), all pairs of the 25 queries in each other protocol, batches of three nodes in six worlds, two runs over one directory |
| `links_lost` | Is every dropped link said by an earlier one? (violated) | two pairs |

Why these bounds are enough to show the cases of interest: the writer's hazards
need two threads on one target and one crash between any two steps; three threads
would add only more waiters of the same lock. A clash of audit keys
needs two sources with one label and a third; a duplicate needs two lines, apart and
in different sources. A fetch needs one redirect more than allowed and a body
one chunk longer than allowed. The cache needs one host more than it has
entries, and time for an entry to expire and be asked for again. A probe needs one read
more than the first, an answer split over the reads, and a second call that
could mix its samples with those of the first. A key compares two links, so pairs
suffice; an order needs three rows to show a cycle; a directory needs a second run to
show what is left of the first.
Bounds of a model: `MaxCalls`, `MaxCrashes` (writer), `MaxSources` (pipeline),
`MaxTime`, `Chunk` (fetch), `MaxDelay`, `MaxTime` (cache), `MaxCalls`, `MaxTime` (probe), the
field `runs` of a scenario (publish).

Fairness. `writer_threads` assumes that each running thread makes its steps again
and again (weak fairness per thread): the operating system schedules it and file
operations return. Locks need no strong fairness here because the calls are
bounded: whoever holds a lock releases it and the waiter's `Acquire` then stays
enabled or another caller takes it, of which there are finitely many. Python's
`threading.Lock` is not fair, and with unbounded calls a waiter could starve; the
code promises nothing else. `pipeline_run`, `fetch_policy` and `probe_calls` assume that
one thread goes on and each call returns: sockets have timeouts. Nothing is assumed
about time in `Fetch` and `Probe`: endless redirects end by their count, an
endless body by its size, an endless answer by the number of reads.

### Where code and comments disagree

- `pipeline_names`: sources called `a`, `a`, `a#2` give two origins `a#2`
  (`pipeline.py:318-323`), and two audited lines may share a row.
- `pipeline_unsafe`: a control character in one ranked node's `raw_url` aborts the run
  (`output.py:426-436`), although failed nodes "are data, not errors".
- `fetch_followed`: with the default transport `FetchResult.url` is not the final URL.
- `probe_window`: the handshake latency includes a last `recv` that only waited
  (`handshake.py:345-368`), although it "covers exactly post-TCP-connect -> last
  qualifying response byte read".
- `links_lost`: parameters that a parser forgets, or the middle one of three
  values, do not separate two links, although "identity never loses them".

Smaller ones have no run:

- The writer: with `create_root=False` and `create_dirs=True` an artifact in a
  sub-directory creates the missing root (`writer.py:413`; the comment at 409-412 says
  it does not). Files of earlier runs are never deleted, and two country names that
  differ in case, or one that is a device name, are refused only after every
  node was probed.
- Fetching: an exception raised by `resp.read` leaves `fetch` as it is, not as a
  `FetchError` (`fetch.py:176`), and so does the `ValueError` of `urljoin` for a `Location`
  that is no URL (`fetch.py:243`); the response is closed in both cases. A last read that ends after the budget still yields a
  result: `AtMostOneLateCall` says how far the budget can be overrun.
- Audit: `pipeline.py:603-605` calls line numbers "per-source", while
  `IngestResult.merged` renumbers them on purpose.
- Probing: an interrupt while `handshake` or `measure` connects leaves the socket to the
  garbage collector (`handshake.py:50` promises a close). `measure.attach` keeps the second
  sample only. Measuring a node again with a second probe that fails
  leaves the earlier jitter beside the new latency (`SamplesAreEarned` allows it openly).
- Resolving: an answer whose public addresses all lie beyond the cap of 64 counts
  as having none. Dedup runs before DNS, so two names of one server are both kept.
- Geo: a provider that returns something that is no `GeoAnswer` raises outside the `try`
  of `geo.py:137-141`, while the module says a bad answer degrades to Unknown (`geo.py:10-11`).
- Parsing. `ss` forgets every parameter but `plugin` and those of the stream; its legacy form puts
  the display name among the identity fields (`parsers.py:372-373`), so renaming a
  link changes its key. `socks` drops path, host, service name, and a
  password without a user. `hysteria2` drops host, service name and an obfuscation password without
  an obfs, and never finds `pinSHA256`, because keys are lower-cased. `vmess` reads neither
  `type` nor `aid`, and a JSON member named `encryption` overwrites the cipher it has
  just read. `hysteria2` keeps user and password as one text, so `hy2://:p@` and
  `hy2://p@` have one key. `socks5h` has a parser that is never reached.
- Output: the fallback of a `vmess` link that cannot be renamed emits the raw link with its
  unchecked fragment (`output.py:475`).

## Proofs

### The writer (`ArtifactWriter_proofs`)

From the assumptions of `ArtifactWriter` (on constants only: paths name files, files
lie in directories, two paths of one file have one case-folded form, contents are
distinct from `Absent` and `Torn`), for any number of threads, processes, calls and
crashes:

| theorem | says |
|---|---|
| `TypeCorrect` | `Spec => []TypeOK` |
| `TemporaryFilesOwned` | no thread outside `_atomic_replace` owns a temporary file |
| `Exclusion` | threads of one process exclude each other per target |
| `NoLockLeftBehind` | a lock is held only by a thread at work on its target, which waits for no other |
| `Integrity` | nothing torn is readable or can be uncovered by a power loss |
| `WriterRefinesStore` | `Spec` implements `ArtifactStore` |
| `ReplacesOnlyChecked` | the target of `os.replace` has passed every check of the call |
| `AnswersAreTrue` | what `write_bytes` answers is so, unless a writer the lock does not reach came later |
| `RewritesNothing` | with `skip_identical`, an undisturbed call rewrites nothing that was there |
| `BundlesAreComplete` | an undisturbed bundle that returned is on disk whole |
| `CallsGoOn` | each step leaves a running call where it is, ends it or brings it closer to its end (an action property) |

The argument. `TypeOK` is not inductive alone, because what the actions do with
`temp` depends on where the thread is, so it is proved together with
`NoTempOutsideReplace` (`Typing`). Exclusion needs what the lock table means (`LockInv`): a
thread in the critical section holds the lock object it was given; a lock object
once handed out stays in its process's table as long as one of its users lives; so
two threads of one process with one path have one lock, which has one holder.
The other direction, from a lock that is held to the thread inside, is `LocksAreServed`; it is
inductive together with `LockInv`, which it needs where a process is killed: the holder of a lock
is of the process whose table has the lock, so both vanish together.
Integrity needs that a thread at `replace` has an fsynced temporary file: then
each rename adds a whole version and no torn one. Refinement needs `OutcomeInv`,
which ties `result`, `pc` and `exc` together: a request counts as applied exactly from the
replace, or the successful comparison, to the answer, and each step is then
one step of the store or a stutter (`StoreStep`).

The other four follow a call through its loop. `Checked` is what it has established
by the time it asks for the lock and by the time it has a temporary file. `Answered` says
that from the outcome to the release the file holds the payload, unless it was overtaken by a
thread of another process or under another path; exclusion rules out all others.
`Accomplished` says the same of every artifact the call has passed, if nobody else writes
meanwhile; it needs that the artifacts of a bundle are different files, which is where
`plan_outputs` comes in (`BundleIsApart`). `Undisturbed` says that a call whose artifacts
were all there finds each of them identical and so never gets past `check`.

### The cache (`ResolverCache_proofs`)

From the assumptions of `ResolverCache` (a cache holds at least one entry, times
are natural numbers, `None` is no time), for any hosts, answers, TTL, cache size and
delay of a lookup:

| theorem | says |
|---|---|
| `CacheTypeCorrect` | `Spec => []TypeOK` |
| `CacheBounded` | at most `MaxEntries` records, at most one per host |
| `CacheFresh` | every answer was given by the server no longer than the TTL ago |
| `CacheOrdered` | the entry inserted first expires first |
| `CacheKeepsGood` | a good entry is evicted only by a cache full of good entries |

The argument. `AnswerIsFresh` is about the last answer, and a hit takes that answer from
an entry of any age, so the invariant needs `Backed`: each entry is an answer the
server gave, expires at most one TTL after it was given, and at most one TTL from now. The
last conjunct is what makes a new entry expire last. What `get` and `put` remove is
stated by `Thins`: the entries left are a subsequence of the old ones, which
keeps uniqueness, order and `Backed` (`WithoutThins`, `RoomThins`, `ThinsKeeps`). For the
evictions one looks at what can vanish: the expired entry of the host that is asked for
and, if the cache is still full without it, the first entry, which expires first.

### The fetch (`Fetch_proofs`)

From the assumptions of `Fetch` (bounds are natural numbers, a budget ends before the
clock does, every acceptable URL has a site), for any URLs, sites and limits and a
transport that may do anything:

| theorem | says |
|---|---|
| `FetchTypeCorrect` | `Spec => []TypeOK` |
| `FetchClosesResponses` | no response is left open, whichever way `fetch` ends |
| `FetchStaysOnSite` | no malformed URL and none of another site is requested |
| `FetchOneLateCall` | one call at most comes back after the deadline |
| `FetchStepsRunOut` | each step uses up some of the at most `2 * MaxRedirects + MaxBytes + 3` steps of a fetch (an action property) |

`ResponsesClosed` needs that a response is open exactly while its status or its body
is looked at (`OneOpen`), which is proved with the types. `StaysOnSite` looks at requests
made so far; `OnSite` adds that the URL of the hop that comes next is acceptable and on
the first one's site. `LateOnce` is stronger than the property: the number of late calls is
1 if the clock is past the deadline and 0 if not.

### The probes (`Probe_proofs`)

From the assumptions of `Probe` (inputs are of their sets, at least one read and one
byte, `None` is no number), for any sequence of calls on any node:

| theorem | says |
|---|---|
| `ProbeTypeCorrect` | `Spec => []TypeOK` |
| `ProbeClosesSockets` | every way out closes the descriptor, but for the interrupt named above |
| `ProbeVerdictIsHeard` | a call says ok exactly when an exchange of it heard an answer of the protocol; with an odd clock, only then |
| `ProbeSamplesAreEarned` | a new sample is the time of an exchange of that very call: connect, read loop or first answer (an action property) |
| `ProbeStepsRunOut` | each step of a call uses up some of its at most `2 * (MaxReads + 5)` steps (an action property) |

The types hold because the read loop has room left while it runs (`Room`), and because
the place in the call tells how many answers were heard (`Cycle`). `Window`, a part of `Typing`,
says that the start the code has read is the moment of the connect. `Evidence` ties the times
that a call will report to the answers it has heard, which a step from `read` to a verdict
then hands on.

### The run (`Pipeline_proofs`)

From the assumptions of `Pipeline` and `Answers` (what is no address, line or node is told
apart from one, labels are names, public addresses are addresses), for any sources,
components and answers:

| theorem | says |
|---|---|
| `PipelineTypeCorrect` | `Spec => []TypeOK` |
| `NoLineIsLost` | each parsed line is in exactly one place at any moment after ingest |
| `DialsArePinned` | only public addresses are dialled, one per line, and a name is never pinned to a private one |
| `OnlyFirstIsDialled` | of the lines that mean one configuration only the first is dialled |
| `RanksAreEarned` | a ranked node was dialled by every provided component and is measured |
| `RunRunsOut` | each step goes on to a later stage or leaves its stage less to do (an action property) |

Conservation is a count: `Total` adds the places of a line in the five lists, and the lemmas
`HitsAppend` and `HitsTail` say what taking a head and appending do to it, so a stage that
moves one element keeps each total at 1 (`Accounts`). The other invariants need
it to know that the element at the head of `queue` is no other line's: `Pinning` (what was
dialled for a line still in the queue is the address it bears), `FirstsOnly` (while dedup
runs, the queue is the rest of the nodes and each key before it has its first
representative in `out`), `Earned` (what is past a stage was dialled by it). That an address
is public is a lemma about `Answers`: what is pinned was in the answer and is public.

### The audit (`Audit_proofs`)

`_merge_node_reports` finds the row of a line by its key, so a true audit needs keys that
tell lines apart, which the code does not guarantee (`pipeline_names`). The theorems
state the hypothesis under which it does: `NamesApart`, no source has as its label the
name that another label gets when it is numbered. The configurations of `pipeline_run`
satisfy it, those of `pipeline_names` do not and violate the conclusion: it cannot be
dropped.

| theorem | says |
|---|---|
| `JoinKeysUnique` | no two audited lines share a key |
| `AuditIsFaithful` | a run that is done has one row per line, and the row tells what became of that line |
| `RunImplementsTrail` | the run implements `AuditTrail` |

`Owned` says that an origin belongs to one source and that numbers grow within it, so
that a key belongs to a line; with `Accounts` a line is in one list only, so the branches
of `_merge_node_reports` cannot contradict each other (`OneFate`). `Ending` says what the stages
leave when the rows are merged. For the refinement, `Whole` adds that a source is read
whole or lost whole. Then each step is looked at through `FateOf`: a step of ingest
gives one line its fate or loses one source, a step of a stage revises the fate of the
line it handles only, and the audit is the step `Report`, whose guard holds because every
fate is decided by then (`AllDecided`).

### The links (`Links_proofs`)

From what the decoders deliver (`IsLink`: a query is a sequence of pairs with well-formed
keys, a host has a name, only ss has a legacy form), for any link:

| theorem | says |
|---|---|
| `QueryRemembers` | the dictionary of `parse_query` holds the last value of every name, the first one of every name given more than once, and nothing else |
| `KeyMeans` | two accepted careful links have one key if and only if they mean the same, and no link has the key of a careful one without being of its account |

`parse_query` is a loop over a query of any length, so its result is described by
induction: `Dictionary` says what the dictionary is after `n` pairs, and if it were wrong
for some `n`, it would be wrong for a least one (`Least`, from `WFMin` of the library, which
has no operator for a parameter), which `RoundRemembers` excludes. Marked keys do not
collide with names if no name bears a mark (`MarksApart`).

For `KeyMeans` both sides are compared with what a node keeps of a query (`SameQuery`): the
first values of names given twice, the last values of the names the protocol does not know,
the values of those it knows, the transport, the security layer. That equal keys are the
same as that is `KeysAlike`, field by field of the node; that equal meanings are is
`SaysAlike`, name by name: what a link says under a name is a sequence that can be
read off the dictionary (`SaysIs`). The direction from key to meaning is the one at
risk: it says that nothing a careful link says is lost on its way into the node.

### The data (`Publish_proofs`)

From the assumptions of `Publish`: feeds are sequences of links, samples are whole numbers or
missing, `top_n` is positive or missing (`ScenarioAssumption`), and `casefold` leaves
`all` alone (`FoldAssumption`). For any feed, any loss and any samples of the live stages, batches
of any length and any tables of file names:

| theorem | says |
|---|---|
| `PublishTypeCorrect` | `Spec => []TypeOK`: a batch holds each node once, and is shared out between the two lists |
| `IntegrityAlwaysHolds` | `rank_candidates` never refuses what `score_node` made |
| `RankingForgetsOrder` | both lists are the same for every order of the input |
| `FilesAlwaysFollowOrder` | artifacts keep the order, directories share the nodes out, tiers are nested |
| `CountsAlwaysAgree` | the counts are those of the artifacts and of the nodes left out |
| `AllIsAlwaysWhole` | `all.txt` of this run lists what any artifact of this run lists, also after a failed write |
| `DedupKeepsFirsts` | `dedup_nodes` keeps exactly the first link of every key (an action property) |
| `KeysAreMeanings` | `Spec => []KeyIsMeaning`: a careful link is dropped if an earlier careful one means the same, and only for the sake of one that does or of a careless one of its account |

What filtering and sorting do is proved without induction (in `Links_proofs`), by counting: in a
finite set with a strict total order an element is known by how many are below it
(`BelowCounts`), so there is one way to list the set (`ListUnique`). A stable sort of
a sequence whose elements the key tells apart is that list (`SortLists`). The sort key of
ranked rows is total because scores and latencies are numbers (`RowFacts`, from the
gates of `score_node`) and because the content tells the rows of a batch apart; hence the order of the
input is forgotten (`RankingIsOrderFree`). A filtered list has the elements chosen, each once
and in order (`PickedPositions`). From that follow what a group holds, that the groups of one
directory share its rows out, and, with the place of every artifact in the bundle
(`Arranged`), the properties of the bundle.

The inductive invariant `Inv` says of each variable that it is what its stage makes of the
result before it, and of the disk that, as soon as one artifact of this run is written,
`all.txt` of this run holds the whole ranking. That the later artifacts do not overwrite
it follows from `Plannable`: no two paths of a bundle are the same without their case.
`KeptFirsts` adds that between dedup and the live stages the kept links are the first
of their keys, and `KeyMeans` turns keys into meanings.

Each of these invariants was checked by TLC, on the instances of the runs, before it was
proved.

### Only model-checked

- Liveness (`CallsEnd`, `RunEnds`, `FetchEnds`), which like `ENABLED` is beyond the prover.
  What liveness needs apart from fairness is proved: each step brings the end of a
  fetch, a probe, a run or a call of the writer closer by some measure that cannot fall for ever
  (`FetchStepsRunOut`, `ProbeStepsRunOut`, `RunRunsOut`, `CallsGoOn`), and who waits for a lock
  waits for a thread that does not wait (`NoLockLeftBehind`). These properties are defined in
  the proof modules; TLC found no violation of them on the instances of the runs before they were
  proved. That a step is possible wherever the end is not reached is what the runs add.
- The five disagreements with the documentation are runs that end in a counterexample.

## Not modelled

- The decoding of texts: base64, percent escapes, JSON, the URL grammar, length limits.
  `Links` starts from the parts these deliver.
  A user name with an encoded colon, which the joined secret does not tell from a user and a
  password, and `vmess` members whose names are `path` or `host` in capitals are no inputs of it.
- Rendering: branded names, the rewriting of a fragment, base64 of the payload, line ends.
- Sizes: the caps of `ingest.py` and the length limits of names and texts.
- `ingest_many`, `endpoint_index`, `config_index`, `resolve_or_block`: nothing in the program
  calls them.
- Floating point: scores and times are integers, so NaN and infinities occur only as the
  odd clock of `Probe`. `latency.py` refuses them in a constructor.
- `classify_ip`: the set `PublicIPs`.
- A directory exchanged for a symbolic link between the containment check and the
  replace: the code does not defend against it and `Links` is constant.
- `collector/`: placeholders and two formatting scripts.

## Plan

1. `Publish` implements an abstract store of bundles, as `ArtifactWriter` does one of files.
2. `KeyIsMeaning` for the other protocols, each with its own idea of a careful link.
3. The sizes and limits of `ingest.py`.
