------------------------------- MODULE Publish --------------------------------
(***************************************************************************)
(* The way of a configuration link through hubcore, from the text of the   *)
(* feed to the artifacts on disk: Links (parsing, identity, dedup), the    *)
(* outcome of the live stages as a free choice, Ranking (scoring, ranking) *)
(* and Bundle (output, plan_outputs), composed as run_pipeline composes    *)
(* them, run after run over one output directory.                          *)
(*                                                                         *)
(* The stages are pure functions of what the stage before them left, so    *)
(* each is one step; write_outputs takes a step for every artifact, for    *)
(* each of them may fail.  The steps within one artifact are ArtifactWriter.*)
(***************************************************************************)
EXTENDS Links, Ranking, Bundle, Functions

CONSTANT Scenarios   \* records [feed, order, worlds, top_n, runs], see MCPublish

\* A feed is a sequence of links; order gives each its place among the canonical
\* texts; measurements are numbers or missing; there is at least one run.
ASSUME ScenarioAssumption ==
    /\ Missing \notin Int
    /\ \A s \in Scenarios :
          /\ Len(s.feed) \in Nat /\ DOMAIN s.feed = 1..Len(s.feed)
          /\ \A i \in DOMAIN s.feed : IsLink(s.feed[i])
          /\ \A i \in DOMAIN s.feed : s.order[i] \in Int
          /\ \A w \in s.worlds : {w.ms, w.jitter} \subseteq Int \cup {Missing}
          /\ s.top_n = Missing \/ s.top_n \in Nat \ {0}
          /\ s.runs \in Nat \ {0}

\* A name in lower case is left alone by casefold.
ASSUME FoldAssumption == "all" \in DOMAIN Folded => Folded["all"] = "all"

VARIABLES
    scenario,   \* the scenario of this behaviour
    run,        \* the number of this run of the pipeline
    pc,         \* the stage that comes next, or how the run ended
    kept,       \* the positions in the feed of the nodes that dedup kept
    rows,       \* the scored batch: candidates and their outcomes
    ranked,     \* result.ranked, cut to top_n
    unranked,   \* result.unranked
    planned,    \* the artifacts of the bundle
    counts,     \* bundle.counts
    done,       \* how many of them this run has written
    disk        \* path as the host compares it -> [run, ids], ids the nodes of a file

batch == <<rows, ranked, unranked, planned, counts>>
vars == <<scenario, run, pc, kept, batch, done, disk>>

Ended == {"written", "failed", "refused", "integrity_error"}

-----------------------------------------------------------------------------
(* One run *)

\* The nodes of a sequence of rows.
Ids(sequence) == {sequence[i].node.id : i \in DOMAIN sequence}

AcceptedFeed ==
    Picked([i \in DOMAIN scenario.feed |-> i],
           {i \in DOMAIN scenario.feed : Accepted(scenario.feed[i])})

Init ==
    /\ scenario \in Scenarios
    /\ run = 1 /\ pc = "dedup"
    /\ kept = <<>> /\ rows = <<>> /\ ranked = <<>> /\ unranked = <<>>
    /\ planned = <<>> /\ counts = Counts(<<>>, <<>>) /\ done = 0 /\ disk = <<>>

\* parse_lines and dedup_nodes.
Dedup ==
    /\ pc = "dedup"
    /\ LET nodes == [i \in DOMAIN AcceptedFeed |-> Parse(scenario.feed[AcceptedFeed[i]])]
           first == DedupKept(nodes)
       IN kept' = [i \in DOMAIN first |-> AcceptedFeed[first[i]]]
    /\ pc' = "live"
    /\ UNCHANGED <<scenario, run, batch, done, disk>>

\* annotate_resolved: an answer that is missing, or a provider that failed, is
\* no country.
Located(answer) == IF answer = None THEN "Unknown" ELSE answer

\* What scoring and ranking read of a node, with the sample and the country that
\* the live stages found.
Candidate(i, world) ==
    LET node == Parse(scenario.feed[i])
    IN [id |-> i, protocol |-> node.protocol, security |-> node.stream.security,
        transport |-> node.stream.transport, secret |-> node.secrets # <<"", "">>,
        port |-> node.port, identity |-> scenario.order[i], content |-> i,
        ms |-> world.ms, jitter |-> world.jitter, country |-> Located(world.answer)]

\* The live stages: each node is lost or comes back with a world; only a node
\* the probe gate lets through has a sample.
Live ==
    /\ pc = "live"
    /\ \E lost \in SUBSET {kept[i] : i \in DOMAIN kept} :
         LET left == Picked(kept, {n \in DOMAIN kept : kept[n] \notin lost})
         IN \E world \in [DOMAIN left -> scenario.worlds] :
              LET found == [i \in DOMAIN left |-> Candidate(left[i], world[i])]
              IN /\ \A i \in DOMAIN found : found[i].ms # Missing => Probeable(found[i])
                 /\ rows' = [i \in DOMAIN found |->
                               [node |-> found[i], outcome |-> Outcome(found[i])]]
    /\ pc' = "rank"
    /\ UNCHANGED <<scenario, run, kept, ranked, unranked, planned, counts, done, disk>>

\* rank_candidates; a batch that is not sound ends the run.
Rank ==
    /\ pc = "rank"
    /\ IF \A i \in DOMAIN rows : Sound(rows[i])
       THEN /\ ranked' = TopN(Ranked(rows), scenario.top_n)
            /\ unranked' = Unranked(rows)
            /\ pc' = "build"
       ELSE pc' = "integrity_error" /\ UNCHANGED <<ranked, unranked>>
    /\ UNCHANGED <<scenario, run, kept, rows, planned, counts, done, disk>>

\* build_outputs.
Build ==
    /\ pc = "build"
    /\ planned' = Artifacts(ranked)
    /\ counts' = Counts(ranked, unranked)
    /\ pc' = "plan"
    /\ UNCHANGED <<scenario, run, kept, rows, ranked, unranked, done, disk>>

\* plan_outputs: everything is checked before anything is written.
Plan ==
    /\ pc = "plan"
    /\ pc' = IF Plannable(planned) THEN "write" ELSE "refused"
    /\ UNCHANGED <<scenario, run, kept, batch, done, disk>>

\* A round of the loop of write_outputs, on a host that may take names that
\* differ in case for one.
Write ==
    /\ pc = "write" /\ done < Len(planned)
    /\ LET item == planned[done + 1]
           path == FoldedPath(item.path)
       IN disk' = [p \in DOMAIN disk \cup {path} |->
                     IF p = path THEN [run |-> run, ids |-> Ids(item.rows)] ELSE disk[p]]
    /\ done' = done + 1
    /\ pc' = IF done' = Len(planned) THEN "written" ELSE "write"
    /\ UNCHANGED <<scenario, run, kept, batch>>

\* Mutant of Fail: the artifact that fails is left out and the loop goes on.
Fail_GoesOn ==
    /\ pc = "write" /\ done < Len(planned)
    /\ done' = done + 1
    /\ pc' = IF done' = Len(planned) THEN "written" ELSE "write"
    /\ UNCHANGED <<scenario, run, kept, batch, disk>>

\* write_text raises: the artifacts written so far stay.
Fail ==
    /\ pc = "write" /\ done < Len(planned)
    /\ pc' = "failed"
    /\ UNCHANGED <<scenario, run, kept, batch, done, disk>>

\* The next run over the same directory, at most scenario.runs of them.
Again ==
    /\ pc \in Ended /\ run < scenario.runs
    /\ run' = run + 1 /\ pc' = "dedup" /\ done' = 0
    /\ kept' = <<>> /\ rows' = <<>> /\ ranked' = <<>> /\ unranked' = <<>>
    /\ planned' = <<>> /\ counts' = Counts(<<>>, <<>>)
    /\ UNCHANGED <<scenario, disk>>

Next == Dedup \/ Live \/ Rank \/ Build \/ Plan \/ Write \/ Fail \/ Again

Spec == Init /\ [][Next]_vars

-----------------------------------------------------------------------------
(* Properties *)

Feed == {AcceptedFeed[i] : i \in DOMAIN AcceptedFeed}
Kept == {kept[i] : i \in DOMAIN kept}

\* The batch holds nodes of the feed, each at most once, and what is ranked and
\* what is not are disjoint parts of it.
TypeOK ==
    /\ scenario \in Scenarios /\ run \in 1..scenario.runs
    /\ pc \in {"dedup", "live", "rank", "build", "plan", "write"} \cup Ended
    /\ Kept \subseteq Feed /\ Ids(rows) \subseteq Kept
    /\ Ids(ranked) \cup Ids(unranked) \subseteq Ids(rows)
    /\ Len(rows) = Cardinality(Ids(rows))
    /\ Ids(ranked) \cap Ids(unranked) = {}
    /\ done \in 0..Len(planned)
    /\ \A p \in DOMAIN disk : disk[p].run \in 1..run

\* A careful link is dropped as a duplicate if an earlier one says the same, and
\* only if an earlier link of the same account says the same or is not careful:
\* identity.py:30 calls the key the full identity of a configuration.  A parser
\* that forgets a value, or a key that leaves a field out, silently drops another
\* user's node.
KeyIsMeaning ==
    pc = "live" =>
        LET link(i) == scenario.feed[i]
            Same(j, i) == Careful(link(j)) /\ Meaning(link(j)) = Meaning(link(i))
            Excused(j, i) == ~Careful(link(j)) /\ Account(link(j)) = Account(link(i))
            Earlier(i) == {j \in Feed : j < i}
        IN \A i \in Feed : Careful(link(i)) =>
             /\ (\E j \in Earlier(i) : Same(j, i)) => i \notin Kept
             /\ i \notin Kept => \E j \in Earlier(i) : Same(j, i) \/ Excused(j, i)

\* The same without the restriction on the links: whatever is dropped is said by
\* an earlier link.  _utils.py:109 and parsers.py:8 promise it.
KeptApart ==
    pc = "live" =>
        \A i \in Feed \ Kept :
            \E j \in Feed : /\ j < i
                            /\ Meaning(scenario.feed[j]) = Meaning(scenario.feed[i])

\* ranking.py:338: the order depends on the multiset of candidates, never on
\* the order in which the live stages delivered them.
OrderFree ==
    pc = "build" =>
        \A p \in Bijection(DOMAIN rows, DOMAIN rows) :
            LET shuffled == [i \in DOMAIN rows |-> rows[p[i]]]
            IN /\ TopN(Ranked(shuffled), scenario.top_n) = ranked
               /\ Unranked(shuffled) = unranked

\* Scoring never hands ranking a batch it refuses: no run is lost to a
\* ScoreIntegrityError after every node has been dialled.
IntegrityHolds == pc # "integrity_error"

\* Every artifact lists its nodes in the order of the ranking; the protocol files
\* share the ranked nodes out without loss, no node is in two transport or two
\* country files, and the tiers are nested; what the score lets through
\* is a good ping.
FilesFollowOrder ==
    pc = "plan" =>
        LET In(dir) == {i \in DOMAIN planned : planned[i].path[1] = dir}
            Tiers(name) == {i \in In("Subscription") : planned[i].path[2] = name}
            Apart(dir) == \A i, j \in In(dir) :
                            i # j => Ids(planned[i].rows) \cap Ids(planned[j].rows) = {}
        IN /\ \A i \in DOMAIN planned :
                planned[i].rows = Picked(ranked, {n \in DOMAIN ranked :
                                    ranked[n].node.id \in Ids(planned[i].rows)})
           /\ Ids(ranked) = UNION {Ids(planned[i].rows) : i \in In("Config")}
           /\ Apart("Config") /\ Apart("transports") /\ Apart("Country")
           /\ \A u \in Tiers("ultra_fast"), g \in Tiers("good_ping") :
                /\ Ids(planned[u].rows) \subseteq Ids(planned[g].rows)
                /\ Ids(planned[g].rows) = Ids(ranked)

\* bundle.counts, computed apart from the artifacts, says what each artifact
\* holds, and of what was left out, how many rows of the scored batch each status
\* took.
CountsAgree ==
    pc = "plan" =>
        LET left == {i \in DOMAIN rows : rows[i].outcome.status # "scored"}
            With(s) == {i \in left : rows[i].outcome.status = s}
        IN /\ \A i \in DOMAIN planned :
                LET n == Len(planned[i].rows)
                    dir == planned[i].path[1]
                    name == planned[i].path[2]
                IN /\ dir = "" => counts.nodes = n
                   /\ dir = "Config" => counts.protocols[name] = n
                   /\ dir = "transports" => counts.transports[name] = n
                   /\ dir = "Country" => counts.countries[name] = n
                   /\ dir = "Subscription" /\ name = "ultra_fast" => counts.ultra_fast = n
                   /\ dir = "Subscription" /\ name = "good_ping" => counts.good_ping = n
           /\ counts.unranked = Cardinality(left)
           /\ counts.unranked_by_status =
                [s \in {rows[i].outcome.status : i \in left} |-> Cardinality(With(s))]

\* At any moment, also after a failure in the middle, a reader who finds a node in
\* an artifact of this run finds it in this run's all.txt.
ListedInAll ==
    \A p \in DOMAIN disk : disk[p].run = run =>
        /\ <<"", "all">> \in DOMAIN disk
        /\ disk[<<"", "all">>].run = run
        /\ disk[p].ids \subseteq disk[<<"", "all">>].ids
===============================================================================
