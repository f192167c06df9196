------------------------------- MODULE Ranking -------------------------------
(***************************************************************************)
(* hubcore/scoring.py and hubcore/ranking.py: the score of a node and the  *)
(* order of a batch.  A candidate is a record of what the two read:        *)
(*   protocol, security, transport, secret, port                           *)
(*   ms, jitter  the MEASURED sample and the jitter, Missing if absent        *)
(*   identity, content  numbers in the order of the canonical texts of the *)
(*                      configuration and of the whole node                *)
(* Times are whole milliseconds, scores are in hundredths as the code      *)
(* rounds them.                                                            *)
(***************************************************************************)
EXTENDS Comprehension, Integers, Sequences, TLC

CONSTANT Missing   \* a sample, a jitter or a score that is not there

LatencyGate == 500
GoldenPorts == {443, 8443, 2053, 2083, 2087, 2096, 80, 8080, 8880}

-----------------------------------------------------------------------------
(* scoring.py *)

\* probe_gate with the credential probe allowed.
Probeable(c) ==
    /\ c.transport \in {"tcp", "unknown"}
    /\ \/ c.protocol = "vless" /\ c.security = "tls"
       \/ /\ c.protocol = "trojan"
          /\ c.security \in {"tls", "unknown", "none"}
          /\ c.secret

\* _arch_bonus for the nodes that pass the gate, which leaves out every other
\* architecture of the table.
ArchBonus(c) == IF c.protocol = "vless" THEN 300 ELSE 260

PortBonus(c) == IF c.port \in GoldenPorts THEN 100 ELSE 0

\* The formula of the legacy program, rounded to two decimals.
Formula(c) ==
    (200000 \div c.ms + 1) \div 2 - 150 * c.jitter + 100 * (ArchBonus(c) + PortBonus(c))

\* The gates of score_node in their order; the code of the first one that
\* closes.
Refusal(c) ==
    IF ~Probeable(c) THEN "unsupported_protocol"
    ELSE IF c.ms = Missing THEN "no_measured_sample"
    ELSE IF c.ms <= 0 THEN "latency_nonpositive"
    ELSE IF c.ms >= LatencyGate THEN "latency_over_threshold"
    ELSE IF c.jitter = Missing THEN "jitter_missing"
    ELSE IF c.jitter < 0 THEN "invalid_jitter"
    ELSE "none"

\* The codes in the order in which the unranked list is sorted, by the status
\* they belong to and by themselves.
Details ==
    <<"jitter_missing", "no_measured_sample", "invalid_jitter",
      "latency_nonpositive", "latency_over_threshold", "unsupported_protocol">>
Level(detail) == CHOOSE i \in DOMAIN Details : Details[i] = detail
StatusOf(detail) ==
    CASE Level(detail) <= 2 -> "insufficient_data"
      [] Level(detail) \in 3..5 -> "unscorable"
      [] OTHER -> "unsupported"

\* Mutant of Outcome: a score that is missing is filled with zero.
Outcome_ZeroFilled(c) ==
    IF Refusal(c) = "none"
    THEN [status |-> "scored", detail |-> "", score |-> Formula(c)]
    ELSE [status |-> StatusOf(Refusal(c)), detail |-> Refusal(c), score |-> 0]

Outcome(c) ==
    IF Refusal(c) = "none"
    THEN [status |-> "scored", detail |-> "", score |-> Formula(c)]
    ELSE [status |-> StatusOf(Refusal(c)), detail |-> Refusal(c), score |-> Missing]

-----------------------------------------------------------------------------
(* ranking.py.  A row is a candidate and its outcome.                       *)

\* What rank_candidates refuses with ScoreIntegrityError or RankingInputError.
Sound(row) ==
    \/ /\ row.outcome.status = "scored"
       /\ row.outcome.score # Missing
       /\ row.node.ms # Missing /\ row.node.ms > 0
    \/ /\ row.outcome.status \in {"unsupported", "insufficient_data", "unscorable"}
       /\ row.outcome.score = Missing

\* Mutant of Before: rows of one configuration are left in the order of input.
Before_NoContent(a, b) ==
    \/ a.outcome.score > b.outcome.score
    \/ /\ a.outcome.score = b.outcome.score
       /\ \/ a.node.ms < b.node.ms
          \/ a.node.ms = b.node.ms /\ a.node.identity < b.node.identity

\* The four levels of the sort key.
Before(a, b) ==
    \/ a.outcome.score > b.outcome.score
    \/ /\ a.outcome.score = b.outcome.score
       /\ \/ a.node.ms < b.node.ms
          \/ /\ a.node.ms = b.node.ms
             /\ \/ a.node.identity < b.node.identity
                \/ /\ a.node.identity = b.node.identity
                   /\ a.node.content < b.node.content

\* list.sort is stable: rows of equal keys stay in the order of input.
Sorted(rows, Less(_, _)) ==
    LET Position(i) == 1 + Cardinality({j \in DOMAIN rows :
                             \/ Less(rows[j], rows[i])
                             \/ j < i /\ ~Less(rows[i], rows[j])})
    IN [p \in DOMAIN rows |-> rows[CHOOSE i \in DOMAIN rows : Position(i) = p]]

Ranked(rows) ==
    Sorted(Picked(rows, {i \in DOMAIN rows : rows[i].outcome.status = "scored"}), Before)

UnrankedBefore(a, b) ==
    \/ Level(a.outcome.detail) < Level(b.outcome.detail)
    \/ /\ a.outcome.detail = b.outcome.detail
       /\ \/ a.node.identity < b.node.identity
          \/ a.node.identity = b.node.identity /\ a.node.content < b.node.content

\* Mutant of Unranked: the branch of a scored row falls through, which puts the
\* row into both lists.
Unranked_Both(rows) ==
    Sorted(rows, LAMBDA a, b : a.node.identity < b.node.identity)

Unranked(rows) ==
    Sorted(Picked(rows, {i \in DOMAIN rows : rows[i].outcome.status # "scored"}),
           UnrankedBefore)

TopN(ranked, n) == IF n = Missing \/ n >= Len(ranked) THEN ranked ELSE SubSeq(ranked, 1, n)
==============================================================================
