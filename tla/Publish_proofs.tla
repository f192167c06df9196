----------------------------- MODULE Publish_proofs -----------------------------
(***************************************************************************)
(* Theorems about Publish, for any feeds, samples, tables of names and     *)
(* numbers of runs.                                                        *)
(*                                                                         *)
(* From the counting arguments of Links_proofs:                            *)
(*   ListUnique  a finite set with a strict total order is listed in one   *)
(*               way, so a ranking forgets the order of its input.         *)
(*   Arranged    where build_outputs puts which artifact, and Bundled, the *)
(*               groups these artifacts hold.                              *)
(*   Inv         each stage's result is what it makes of the stage before, *)
(*               and what this run has written is headed by all.txt.       *)
(***************************************************************************)
EXTENDS Publish, Links_proofs

-----------------------------------------------------------------------------
(* The scored batch *)

IsRow(r) ==
    /\ r.outcome = Outcome(r.node)
    /\ r.node.ms \in Int \cup {Missing} /\ r.node.jitter \in Int \cup {Missing}
    /\ r.node.id \in Nat /\ r.node.content = r.node.id
    /\ r.node.identity \in Int

IsBatch(rs) ==
    /\ IsSequence(rs)
    /\ \A i \in 1..Len(rs) : IsRow(rs[i])
    /\ \A i, j \in 1..Len(rs) : rs[i].node.id = rs[j].node.id => i = j

Codes == {Details[i] : i \in 1..6}

\* The levels of the codes are apart.
LEMMA Levels ==
    /\ \A d \in Codes : Level(d) \in 1..6
    /\ \A d, e \in Codes : Level(d) = Level(e) => d = e
<1>1. DOMAIN Details = 1..6
  BY DEF Details
<1>2. \A d \in Codes : Level(d) \in 1..6 /\ Details[Level(d)] = d
  BY <1>1 DEF Codes, Level
<1> QED
  BY <1>2

\* A refusal that names no code is none.
LEMMA RefusalIsCode ==
    ASSUME NEW c PROVE Refusal(c) = "none" \/ Refusal(c) \in Codes
BY DEF Refusal, Codes, Details

\* score_node: a row with a score has a good sample, its score is a number; a
\* row without one has a code.
LEMMA RowFacts ==
    ASSUME NEW r, IsRow(r)
    PROVE  /\ r.outcome.status = "scored" =>
                /\ r.node.ms \in 1..(LatencyGate - 1)
                /\ r.outcome.score \in Int
           /\ r.outcome.status # "scored" =>
                /\ r.outcome.detail \in Codes
                /\ r.outcome.status \in {"unsupported", "insufficient_data", "unscorable"}
                /\ r.outcome.score = Missing
<1> DEFINE c == r.node
<1>1. CASE Refusal(c) = "none"
  <2>1. /\ c.ms \in Int \cup {Missing} /\ c.ms # Missing /\ ~(c.ms <= 0)
        /\ ~(c.ms >= LatencyGate)
        /\ c.jitter \in Int \cup {Missing} /\ c.jitter # Missing
    BY <1>1 DEF IsRow, Refusal
  <2>2. c.ms \in 1..(LatencyGate - 1) /\ c.jitter \in Int
    <3>1. c.ms \in Int /\ c.jitter \in Int
      BY <2>1
    <3>2. LatencyGate \in Int
      BY DEF LatencyGate
    <3> QED
      BY <2>1, <3>1, <3>2
  <2>3. ArchBonus(c) \in Int /\ PortBonus(c) \in Int
    BY DEF ArchBonus, PortBonus
  <2>4. 200000 \div c.ms \in Int
    BY <2>2 DEF LatencyGate
  <2> DEFINE q == 200000 \div c.ms
             b == ArchBonus(c) + PortBonus(c)
  <2>5. b \in Int
    BY <2>3
  <2> HIDE DEF q, b
  <2>6. q \in Int
    BY <2>4 DEF q
  <2>7. (q + 1) \div 2 \in Int /\ 150 * c.jitter \in Int /\ 100 * b \in Int
    BY <2>2, <2>5, <2>6
  <2>8. Formula(c) = (q + 1) \div 2 - 150 * c.jitter + 100 * b
    BY DEF Formula, q, b
  <2>9. Formula(c) \in Int
    BY <2>7, <2>8
  <2>10. \E d : r.outcome = [status |-> "scored", detail |-> d, score |-> Formula(c)]
    BY <1>1, Zenon DEF IsRow, Outcome
  <2>11. PICK d : r.outcome = [status |-> "scored", detail |-> d, score |-> Formula(c)]
    BY <2>10
  <2>12. r.outcome.status = "scored" /\ r.outcome.score = Formula(c)
    BY <2>11
  <2> QED
    BY <2>2, <2>9, <2>12
<1>2. CASE Refusal(c) # "none"
  <2>1. Refusal(c) \in Codes
    BY <1>2, RefusalIsCode
  <2>2. r.outcome = [status |-> StatusOf(Refusal(c)), detail |-> Refusal(c),
                     score |-> Missing]
    BY <1>2 DEF IsRow, Outcome
  <2>3. StatusOf(Refusal(c)) \in {"unsupported", "insufficient_data", "unscorable"}
    BY DEF StatusOf
  <2> QED
    BY <2>1, <2>2, <2>3
<1> QED
  BY <1>1, <1>2

\* No row that scoring makes is refused by ranking.
LEMMA RowsAreSound ==
    ASSUME NEW r, IsRow(r) PROVE Sound(r)
<1>1. Missing \notin Int
  BY ScenarioAssumption
<1>2. CASE r.outcome.status = "scored"
  <2>1. r.node.ms \in 1..(LatencyGate - 1) /\ r.outcome.score \in Int
    BY <1>2, RowFacts
  <2>2. r.node.ms \in Int /\ r.node.ms > 0
    BY <2>1, SMTT(30) DEF LatencyGate
  <2> QED
    BY <1>1, <1>2, <2>1, <2>2 DEF Sound
<1>3. CASE r.outcome.status # "scored"
  <2>1. /\ r.outcome.status \in {"unsupported", "insufficient_data", "unscorable"}
        /\ r.outcome.score = Missing
    BY <1>3, RowFacts
  <2> QED
    BY <2>1 DEF Sound
<1> QED
  BY <1>2, <1>3

ScoredAt(rs) == {i \in 1..Len(rs) : rs[i].outcome.status = "scored"}
UnscoredAt(rs) == {i \in 1..Len(rs) : rs[i].outcome.status # "scored"}
RowsAt(rs, I) == {rs[i] : i \in I}
BeforeIn(V) == {ab \in V \X V : Before(ab[1], ab[2])}
UnrankedBeforeIn(V) == {ab \in V \X V : UnrankedBefore(ab[1], ab[2])}

\* Rows of a batch are one if their nodes have one content.
LEMMA ContentTells ==
    ASSUME NEW rs, IsBatch(rs), NEW I \in SUBSET (1..Len(rs)),
           NEW x \in RowsAt(rs, I), NEW y \in RowsAt(rs, I),
           x.node.content = y.node.content
    PROVE  x = y
<1>1. PICK i \in I : x = rs[i]
  BY DEF RowsAt
<1>2. PICK j \in I : y = rs[j]
  BY DEF RowsAt
<1> QED
  BY <1>1, <1>2 DEF IsBatch, IsRow

\* The sort key of ranked rows is a strict total order.
LEMMA BeforeIsTotal ==
    ASSUME NEW rs, IsBatch(rs)
    PROVE  TotalOn(RowsAt(rs, ScoredAt(rs)), BeforeIn(RowsAt(rs, ScoredAt(rs))))
<1> DEFINE V == RowsAt(rs, ScoredAt(rs))
<1>1. ASSUME NEW x \in V
      PROVE  /\ x.outcome.score \in Int /\ x.node.ms \in Int
             /\ x.node.identity \in Int /\ x.node.content \in Int
  <2>1. IsRow(x) /\ x.outcome.status = "scored"
    BY DEF RowsAt, ScoredAt, IsBatch
  <2> QED
    <3>1. x.outcome.score \in Int /\ x.node.ms \in 1..(LatencyGate - 1)
      BY <2>1, RowFacts
    <3>2. x.node.identity \in Int /\ x.node.content \in Int
      BY <2>1 DEF IsRow
    <3> QED
      BY <3>1, <3>2 DEF LatencyGate
<1>2. \A x, y \in V : x.node.content = y.node.content => x = y
  BY ContentTells DEF ScoredAt
<1> HIDE DEF V
<1>3. \A x, y \in V : <<x, y>> \in BeforeIn(V) <=> Before(x, y)
  BY DEF BeforeIn
<1>4. \A x \in V : ~Before(x, x)
  BY <1>1 DEF Before
<1>5. \A x, y, z \in V : Before(x, y) /\ Before(y, z) => Before(x, z)
  BY <1>1 DEF Before
<1>6. \A x, y \in V : x # y => Before(x, y) \/ Before(y, x)
  BY <1>1, <1>2 DEF Before
<1> QED
  BY <1>3, <1>4, <1>5, <1>6 DEF TotalOn, V

\* So is the sort key of unranked rows.
LEMMA UnrankedBeforeIsTotal ==
    ASSUME NEW rs, IsBatch(rs)
    PROVE  TotalOn(RowsAt(rs, UnscoredAt(rs)), UnrankedBeforeIn(RowsAt(rs, UnscoredAt(rs))))
<1> DEFINE V == RowsAt(rs, UnscoredAt(rs))
           level(x) == Level(x.outcome.detail)
<1>1. ASSUME NEW x \in V
      PROVE  /\ level(x) \in Int /\ x.outcome.detail \in Codes
             /\ x.node.identity \in Int /\ x.node.content \in Int
  <2>1. IsRow(x) /\ x.outcome.status # "scored"
    BY DEF RowsAt, UnscoredAt, IsBatch
  <2>2. x.outcome.detail \in Codes
    BY <2>1, RowFacts
  <2>3. level(x) \in 1..6
    BY <2>2, Levels
  <2> QED
    BY <2>1, <2>2, <2>3 DEF IsRow
<1>2. \A x, y \in V : x.node.content = y.node.content => x = y
  BY ContentTells DEF UnscoredAt
<1>3. \A x, y \in V : level(x) = level(y) <=> x.outcome.detail = y.outcome.detail
  BY <1>1, Levels
<1> HIDE DEF V
<1>4. \A x, y \in V : <<x, y>> \in UnrankedBeforeIn(V) <=> UnrankedBefore(x, y)
  BY DEF UnrankedBeforeIn
<1>5. ASSUME NEW x \in V, NEW y \in V
      PROVE  UnrankedBefore(x, y) <=>
                \/ level(x) < level(y)
                \/ /\ level(x) = level(y)
                   /\ \/ x.node.identity < y.node.identity
                      \/ /\ x.node.identity = y.node.identity
                         /\ x.node.content < y.node.content
  BY <1>3 DEF UnrankedBefore
<1> HIDE DEF level
<1>6. \A x \in V : ~UnrankedBefore(x, x)
  BY <1>1, <1>5
<1>7. \A x, y, z \in V :
         UnrankedBefore(x, y) /\ UnrankedBefore(y, z) => UnrankedBefore(x, z)
  BY <1>1, <1>5
<1>8. \A x, y \in V : x # y => UnrankedBefore(x, y) \/ UnrankedBefore(y, x)
  BY <1>1, <1>2, <1>5
<1> QED
  BY <1>4, <1>6, <1>7, <1>8 DEF TotalOn, V

-----------------------------------------------------------------------------
(* The ranking *)

\* What Sorted calls the place of an element is one more than what is ahead.
LEMMA RankedSorts ==
    ASSUME NEW rs, IsBatch(rs)
    PROVE  Lists(Ranked(rs), Cardinality(ScoredAt(rs)), RowsAt(rs, ScoredAt(rs)),
                 BeforeIn(RowsAt(rs, ScoredAt(rs))))
<1> DEFINE I == ScoredAt(rs)
           n == Cardinality(I)
           V == RowsAt(rs, I)
           B == BeforeIn(V)
           s == Picked(rs, {i \in DOMAIN rs : rs[i].outcome.status = "scored"})
           Spot(i) == 1 + Cardinality({j \in DOMAIN s : Before(s[j], s[i])
               \/ (j < i /\ ~Before(s[i], s[j]))})
           at == [p \in DOMAIN s |-> CHOOSE i \in DOMAIN s : Spot(i) = p]
<1>0. Ranked(rs) = [p \in DOMAIN s |-> s[at[p]]]
  BY DEF Ranked, Sorted
<1> HIDE DEF at
<1>1. Len(rs) \in Nat /\ DOMAIN rs = 1..Len(rs)
  BY DEF IsBatch, IsSequence
<1>2. I \in SUBSET (1..Len(rs)) /\ s = Picked(rs, I)
  BY <1>1 DEF ScoredAt
<1> HIDE DEF I, s
<1>3. n \in Nat /\ DOMAIN s = 1..n /\ Len(s) = n
  BY <1>1, <1>2, PickedLength
<1>4. Ranked(rs) = [p \in 1..n |-> s[at[p]]]
  BY <1>0, <1>3
<1> HIDE DEF n, B, V
<1>5. Elements(s) = V
  BY <1>1, <1>2, PickedElements DEF V, RowsAt
<1>6. (\A i \in 1..n : s[i] \in V) /\ (\A v \in V : \E i \in 1..n : s[i] = v)
  BY <1>3, <1>5 DEF Elements
<1>7. \A i, j \in 1..n : s[i] = s[j] => i = j
  <2>1. \A i, j \in I : rs[i] = rs[j] => i = j
    BY <1>2 DEF IsBatch
  <2> TAKE i, j \in 1..n
  <2> HAVE s[i] = s[j]
  <2> QED
    BY <1>1, <1>2, <1>3, <2>1, PickedApart
<1>8. TotalOn(V, B)
  BY BeforeIsTotal DEF V, B, I
<1>9. \A i \in 1..n : Spot(i) = 1 + Cardinality(Ahead(s, n, B, i))
  <2> TAKE i \in 1..n
  <2>1. \A j \in 1..n : /\ <<s[j], s[i]>> \in B <=> Before(s[j], s[i])
                        /\ <<s[i], s[j]>> \in B <=> Before(s[i], s[j])
    BY <1>6 DEF B, BeforeIn
  <2>2. {j \in DOMAIN s : Before(s[j], s[i])
               \/ (j < i /\ ~Before(s[i], s[j]))} = Ahead(s, n, B, i)
    BY <1>3, <2>1 DEF Ahead
  <2> QED
    BY <2>2
<1> HIDE DEF Spot
<1>10. \A p \in 1..n : \E i \in 1..n : Spot(i) = p
  <2>1. \A p \in 1..n : \E i \in 1..n : 1 + Cardinality(Ahead(s, n, B, i)) = p
    BY <1>3, <1>6, <1>7, <1>8, AheadCounts
  <2> QED
    BY <1>9, <2>1
<1>11. \A p \in 1..n : at[p] \in 1..n /\ Spot(at[p]) = p
  BY <1>3, <1>10 DEF at
<1>12. at \in [1..n -> 1..n] /\ \A p \in 1..n : 1 + Cardinality(Ahead(s, n, B, at[p])) = p
  <2>1. at \in [1..n -> 1..n]
    BY <1>3, <1>11 DEF at
  <2> QED
    BY <1>9, <1>11, <2>1
<1> DEFINE t == Ranked(rs)
<1> HIDE DEF at
<1>13. Sorts(t, at, s, n, B)
  BY <1>4, <1>12 DEF Sorts
<1> HIDE DEF t
<1>14. Holds(s, n, V)
  BY <1>6, <1>7 DEF Holds
<1>15. Lists(t, n, V, B)
  BY <1>3, <1>8, <1>13, <1>14, SortLists
<1> QED
  BY <1>15 DEF t, n, V, B, I

\* The same for the unranked rows.
LEMMA UnrankedSorts ==
    ASSUME NEW rs, IsBatch(rs)
    PROVE  Lists(Unranked(rs), Cardinality(UnscoredAt(rs)), RowsAt(rs, UnscoredAt(rs)),
                 UnrankedBeforeIn(RowsAt(rs, UnscoredAt(rs))))
<1> DEFINE I == UnscoredAt(rs)
           n == Cardinality(I)
           V == RowsAt(rs, I)
           B == UnrankedBeforeIn(V)
           s == Picked(rs, {i \in DOMAIN rs : rs[i].outcome.status # "scored"})
           Spot(i) == 1 + Cardinality({j \in DOMAIN s :
                                UnrankedBefore(s[j], s[i])
               \/ (j < i /\ ~UnrankedBefore(s[i], s[j]))})
           at == [p \in DOMAIN s |-> CHOOSE i \in DOMAIN s : Spot(i) = p]
<1>0. Unranked(rs) = [p \in DOMAIN s |-> s[at[p]]]
  BY DEF Unranked, Sorted
<1> HIDE DEF at
<1>1. Len(rs) \in Nat /\ DOMAIN rs = 1..Len(rs)
  BY DEF IsBatch, IsSequence
<1>2. I \in SUBSET (1..Len(rs)) /\ s = Picked(rs, I)
  BY <1>1 DEF UnscoredAt
<1> HIDE DEF I, s
<1>3. n \in Nat /\ DOMAIN s = 1..n /\ Len(s) = n
  BY <1>1, <1>2, PickedLength
<1>4. Unranked(rs) = [p \in 1..n |-> s[at[p]]]
  BY <1>0, <1>3
<1> HIDE DEF n, B, V
<1>5. Elements(s) = V
  BY <1>1, <1>2, PickedElements DEF V, RowsAt
<1>6. (\A i \in 1..n : s[i] \in V) /\ (\A v \in V : \E i \in 1..n : s[i] = v)
  BY <1>3, <1>5 DEF Elements
<1>7. \A i, j \in 1..n : s[i] = s[j] => i = j
  <2>1. \A i, j \in I : rs[i] = rs[j] => i = j
    BY <1>2 DEF IsBatch
  <2> TAKE i, j \in 1..n
  <2> HAVE s[i] = s[j]
  <2> QED
    BY <1>1, <1>2, <1>3, <2>1, PickedApart
<1>8. TotalOn(V, B)
  BY UnrankedBeforeIsTotal DEF V, B, I
<1>9. \A i \in 1..n : Spot(i) = 1 + Cardinality(Ahead(s, n, B, i))
  <2> TAKE i \in 1..n
  <2>1. \A j \in 1..n : /\ <<s[j], s[i]>> \in B <=> UnrankedBefore(s[j], s[i])
                        /\ <<s[i], s[j]>> \in B <=> UnrankedBefore(s[i], s[j])
    BY <1>6 DEF B, UnrankedBeforeIn
  <2>2. {j \in DOMAIN s : UnrankedBefore(s[j], s[i])
               \/ (j < i /\ ~UnrankedBefore(s[i], s[j]))} = Ahead(s, n, B, i)
    BY <1>3, <2>1 DEF Ahead
  <2> QED
    BY <2>2
<1> HIDE DEF Spot
<1>10. \A p \in 1..n : \E i \in 1..n : Spot(i) = p
  <2>1. \A p \in 1..n : \E i \in 1..n : 1 + Cardinality(Ahead(s, n, B, i)) = p
    BY <1>3, <1>6, <1>7, <1>8, AheadCounts
  <2> QED
    BY <1>9, <2>1
<1>11. \A p \in 1..n : at[p] \in 1..n /\ Spot(at[p]) = p
  BY <1>3, <1>10 DEF at
<1>12. at \in [1..n -> 1..n] /\ \A p \in 1..n : 1 + Cardinality(Ahead(s, n, B, at[p])) = p
  <2>1. at \in [1..n -> 1..n]
    BY <1>3, <1>11 DEF at
  <2> QED
    BY <1>9, <1>11, <2>1
<1> DEFINE t == Unranked(rs)
<1> HIDE DEF at
<1>13. Sorts(t, at, s, n, B)
  BY <1>4, <1>12 DEF Sorts
<1> HIDE DEF t
<1>14. Holds(s, n, V)
  BY <1>6, <1>7 DEF Holds
<1>15. Lists(t, n, V, B)
  BY <1>3, <1>8, <1>13, <1>14, SortLists
<1> QED
  BY <1>15 DEF t, n, V, B, I

\* A list of rows of a batch is a batch of those rows.
LEMMA ListsIsBatch ==
    ASSUME NEW rs, IsBatch(rs), NEW I \in SUBSET (1..Len(rs)), NEW n \in Nat,
           NEW B, TotalOn(RowsAt(rs, I), B), NEW t, Lists(t, n, RowsAt(rs, I), B)
    PROVE  IsBatch(t) /\ Elements(t) = RowsAt(rs, I) /\ Len(t) = n
<1> DEFINE V == RowsAt(rs, I)
<1>1. /\ t \in [1..n -> V]
      /\ \A v \in V : \E p \in 1..n : t[p] = v
      /\ \A p, q \in 1..n : p < q => <<t[p], t[q]>> \in B
  BY DEF Lists
<1>2. \A v \in V : IsRow(v) /\ <<v, v>> \notin B
  <2>1. \A v \in V : IsRow(v)
    BY DEF RowsAt, IsBatch
  <2>2. \A v \in V : <<v, v>> \notin B
    BY DEF TotalOn
  <2> QED
    BY <2>1, <2>2
<1>3. \A v, w \in V : v.node.id = w.node.id => v = w
  BY DEF RowsAt, IsBatch
<1> HIDE DEF V
<1>4. Len(t) = n
  BY <1>1
<1>5. Elements(t) = V
  BY <1>1, <1>4 DEF Elements
<1>6. IsSequence(t)
  BY <1>1, <1>4, <1>5 DEF IsSequence
<1>7. ASSUME NEW p \in 1..n, NEW q \in 1..n, t[p].node.id = t[q].node.id PROVE p = q
  <2>1. t[p] \in V /\ t[p] = t[q]
    BY <1>1, <1>3, <1>7
  <2>2. ~(p < q) /\ ~(q < p)
    BY <1>1, <1>2, <2>1
  <2> QED
    BY <2>2
<1>8. \A p \in 1..n : IsRow(t[p])
  BY <1>1, <1>2
<1>9. IsBatch(t)
  BY <1>4, <1>6, <1>7, <1>8 DEF IsBatch
<1> QED
  BY <1>4, <1>5, <1>9 DEF V

\* Ranking yields a batch: of the scored rows, and of the others.
LEMMA RankedIsBatch ==
    ASSUME NEW rs, IsBatch(rs)
    PROVE  IsBatch(Ranked(rs)) /\ Elements(Ranked(rs)) = RowsAt(rs, ScoredAt(rs))
<1>1. ScoredAt(rs) \in SUBSET (1..Len(rs)) /\ Len(rs) \in Nat
  BY DEF ScoredAt, IsBatch, IsSequence
<1>2. Cardinality(ScoredAt(rs)) \in Nat
  BY <1>1, PickedLength
<1> QED
  BY <1>1, <1>2, RankedSorts, BeforeIsTotal, ListsIsBatch

\* Of the others.
LEMMA UnrankedIsBatch ==
    ASSUME NEW rs, IsBatch(rs)
    PROVE  IsBatch(Unranked(rs)) /\ Elements(Unranked(rs)) = RowsAt(rs, UnscoredAt(rs))
<1>1. UnscoredAt(rs) \in SUBSET (1..Len(rs)) /\ Len(rs) \in Nat
  BY DEF UnscoredAt, IsBatch, IsSequence
<1>2. Cardinality(UnscoredAt(rs)) \in Nat
  BY <1>1, PickedLength
<1> QED
  BY <1>1, <1>2, UnrankedSorts, UnrankedBeforeIsTotal, ListsIsBatch

\* Cutting it to the first top_n leaves a batch of them.
LEMMA TopIsBatch ==
    ASSUME NEW rs, IsBatch(rs), NEW n, n = Missing \/ n \in Nat \ {0}
    PROVE  IsBatch(TopN(rs, n)) /\ Elements(TopN(rs, n)) \subseteq Elements(rs)
<1>1. CASE n = Missing \/ n >= Len(rs)
  BY <1>1 DEF TopN
<1>2. CASE ~(n = Missing \/ n >= Len(rs))
  <2> DEFINE t == SubSeq(rs, 1, n)
  <2>1. n \in Nat \ {0} /\ Len(rs) \in Nat /\ n < Len(rs)
    BY <1>2 DEF IsBatch, IsSequence
  <2>2. TopN(rs, n) = t
    BY <1>2 DEF TopN
  <2>3. rs \in Seq(Elements(rs))
    BY DEF IsBatch, IsSequence
  <2>4. t = [i \in 1..n |-> rs[i]]
    BY <2>1, <2>3
  <2> HIDE DEF t
  <2>5. Len(t) = n /\ Elements(t) \subseteq Elements(rs)
    BY <2>1, <2>4 DEF Elements
  <2>6. IsSequence(t)
    BY <2>1, <2>4, <2>5 DEF IsSequence, Elements
  <2>7. \A i \in 1..n : i \in 1..Len(rs) /\ t[i] = rs[i]
    BY <2>1, <2>4
  <2>8. IsBatch(t)
    BY <2>5, <2>6, <2>7 DEF IsBatch
  <2> QED
    BY <2>2, <2>5, <2>8
<1> QED
  BY <1>1, <1>2

\* A batch in another order has the same scored rows and the same others.
LEMMA Shuffles ==
    ASSUME NEW rs, IsBatch(rs), NEW p \in Bijection(1..Len(rs), 1..Len(rs)), NEW sh,
           sh = [i \in 1..Len(rs) |-> rs[p[i]]]
    PROVE  /\ IsBatch(sh)
           /\ RowsAt(sh, ScoredAt(sh)) = RowsAt(rs, ScoredAt(rs))
           /\ RowsAt(sh, UnscoredAt(sh)) = RowsAt(rs, UnscoredAt(rs))
<1> DEFINE n == Len(rs)
<1>1. n \in Nat /\ rs \in [1..n -> Elements(rs)]
  BY DEF IsBatch, IsSequence
<1>2. p \in [1..n -> 1..n] /\ \A k \in 1..n : \E i \in 1..n : p[i] = k
  BY DEF Bijection, Surjection
<1>3. \A i, j \in 1..n : p[i] = p[j] => i = j
  BY DEF Bijection, Injection, IsInjective
<1>4. Len(sh) = n /\ sh = [i \in 1..n |-> rs[p[i]]]
  BY <1>1
<1>5. IsSequence(sh)
  BY <1>1, <1>4 DEF IsSequence, Elements
<1>6. \A i \in 1..n : p[i] \in 1..n /\ sh[i] = rs[p[i]]
  BY <1>2, <1>4
<1> HIDE DEF n
<1>7. IsBatch(sh)
  <2>1. \A i \in 1..n : IsRow(sh[i])
    BY <1>6 DEF IsBatch, n
  <2>2. \A i, j \in 1..n : sh[i].node.id = sh[j].node.id => i = j
    BY <1>3, <1>6 DEF IsBatch, n
  <2> QED
    BY <1>4, <1>5, <2>1, <2>2 DEF IsBatch
<1>8. ScoredAt(sh) = {i \in 1..n : sh[i].outcome.status = "scored"}
      /\ UnscoredAt(sh) = {i \in 1..n : sh[i].outcome.status # "scored"}
      /\ ScoredAt(rs) = {i \in 1..n : rs[i].outcome.status = "scored"}
      /\ UnscoredAt(rs) = {i \in 1..n : rs[i].outcome.status # "scored"}
  BY <1>4 DEF ScoredAt, UnscoredAt, n
<1>9. RowsAt(sh, ScoredAt(sh)) = RowsAt(rs, ScoredAt(rs))
  <2>1. ASSUME NEW i \in ScoredAt(sh) PROVE \E k \in ScoredAt(rs) : sh[i] = rs[k]
    <3>1. i \in 1..n /\ p[i] \in 1..n /\ sh[i] = rs[p[i]]
      BY <1>6, <1>8
    <3>2. p[i] \in ScoredAt(rs)
      BY <1>8, <3>1
    <3> QED
      BY <3>1, <3>2
  <2>2. ASSUME NEW k \in ScoredAt(rs) PROVE \E i \in ScoredAt(sh) : rs[k] = sh[i]
    <3>1. PICK i \in 1..n : p[i] = k
      BY <1>2, <1>8
    <3> QED
      BY <1>6, <1>8, <3>1
  <2> QED
    BY <2>1, <2>2 DEF RowsAt
<1>10. RowsAt(sh, UnscoredAt(sh)) = RowsAt(rs, UnscoredAt(rs))
  <2>1. ASSUME NEW i \in UnscoredAt(sh) PROVE \E k \in UnscoredAt(rs) : sh[i] = rs[k]
    <3>1. i \in 1..n /\ p[i] \in 1..n /\ sh[i] = rs[p[i]]
      BY <1>6, <1>8
    <3>2. p[i] \in UnscoredAt(rs)
      BY <1>8, <3>1
    <3> QED
      BY <3>1, <3>2
  <2>2. ASSUME NEW k \in UnscoredAt(rs) PROVE \E i \in UnscoredAt(sh) : rs[k] = sh[i]
    <3>1. PICK i \in 1..n : p[i] = k
      BY <1>2, <1>8
    <3> QED
      BY <1>6, <1>8, <3>1
  <2> QED
    BY <2>1, <2>2 DEF RowsAt
<1> QED
  BY <1>7, <1>9, <1>10

\* rank_candidates depends on the rows of a batch and not on their order.
LEMMA RankingIsOrderFree ==
    ASSUME NEW rs, IsBatch(rs), NEW p \in Bijection(1..Len(rs), 1..Len(rs)), NEW sh,
           sh = [i \in 1..Len(rs) |-> rs[p[i]]]
    PROVE  Ranked(sh) = Ranked(rs) /\ Unranked(sh) = Unranked(rs)
<1>1. /\ IsBatch(sh)
      /\ RowsAt(sh, ScoredAt(sh)) = RowsAt(rs, ScoredAt(rs))
      /\ RowsAt(sh, UnscoredAt(sh)) = RowsAt(rs, UnscoredAt(rs))
  BY Shuffles
<1>2. ASSUME NEW x, IsBatch(x)
      PROVE  /\ IsFiniteSet(RowsAt(x, ScoredAt(x))) /\ Cardinality(ScoredAt(x)) \in Nat
             /\ IsFiniteSet(RowsAt(x, UnscoredAt(x))) /\ Cardinality(UnscoredAt(x)) \in Nat
  <2>1. Len(x) \in Nat /\ ScoredAt(x) \in SUBSET (1..Len(x))
        /\ UnscoredAt(x) \in SUBSET (1..Len(x))
    BY <1>2 DEF IsBatch, IsSequence, ScoredAt, UnscoredAt
  <2>2. /\ IsFiniteSet(ScoredAt(x)) /\ Cardinality(ScoredAt(x)) \in Nat
        /\ IsFiniteSet(UnscoredAt(x)) /\ Cardinality(UnscoredAt(x)) \in Nat
    BY <2>1, PickedLength
  <2>3. ASSUME NEW I, IsFiniteSet(I) PROVE IsFiniteSet(RowsAt(x, I))
    <3> DEFINE f == [i \in I |-> x[i]]
    <3>1. f \in Surjection(I, RowsAt(x, I))
      BY DEF Surjection, RowsAt
    <3> QED
      BY <2>3, <3>1, FS_Surjection
  <2> QED
    BY <2>2, <2>3
<1> DEFINE V == RowsAt(rs, ScoredAt(rs))
           W == RowsAt(rs, UnscoredAt(rs))
<1>3. Ranked(sh) = Ranked(rs)
  <2>1. /\ Lists(Ranked(sh), Cardinality(ScoredAt(sh)), V, BeforeIn(V))
        /\ Lists(Ranked(rs), Cardinality(ScoredAt(rs)), V, BeforeIn(V))
        /\ TotalOn(V, BeforeIn(V))
    BY <1>1, RankedSorts, BeforeIsTotal
  <2>2. /\ IsFiniteSet(V) /\ Cardinality(ScoredAt(rs)) \in Nat
        /\ Cardinality(ScoredAt(sh)) \in Nat
    BY <1>1, <1>2
  <2> HIDE DEF V
  <2> QED
    BY <2>1, <2>2, ListUnique
<1>4. Unranked(sh) = Unranked(rs)
  <2>1. /\ Lists(Unranked(sh), Cardinality(UnscoredAt(sh)), W, UnrankedBeforeIn(W))
        /\ Lists(Unranked(rs), Cardinality(UnscoredAt(rs)), W, UnrankedBeforeIn(W))
        /\ TotalOn(W, UnrankedBeforeIn(W))
    BY <1>1, UnrankedSorts, UnrankedBeforeIsTotal
  <2>2. /\ IsFiniteSet(W) /\ Cardinality(UnscoredAt(rs)) \in Nat
        /\ Cardinality(UnscoredAt(sh)) \in Nat
    BY <1>1, <1>2
  <2> HIDE DEF W
  <2> QED
    BY <2>1, <2>2, ListUnique
<1> QED
  BY <1>3, <1>4

-----------------------------------------------------------------------------
(* The artifacts *)

\* The nodes of a comprehension of a batch are those at the chosen positions, and
\* tell the positions.
LEMMA PickedIds ==
    ASSUME NEW rs, IsBatch(rs), NEW I \in SUBSET (1..Len(rs))
    PROVE  /\ Ids(Picked(rs, I)) = {rs[i].node.id : i \in I}
           /\ I = {k \in DOMAIN rs : rs[k].node.id \in Ids(Picked(rs, I))}
<1> DEFINE P == Picked(rs, I)
<1>1. Len(rs) \in Nat /\ DOMAIN rs = 1..Len(rs)
  BY DEF IsBatch, IsSequence
<1>2. IsSequence(P) /\ Elements(P) = {rs[i] : i \in I}
  BY <1>1, PickedElements
<1> HIDE DEF P
<1>3. Ids(P) = {x.node.id : x \in Elements(P)}
  BY <1>2 DEF Ids, IsSequence, Elements
<1>4. Ids(P) = {rs[i].node.id : i \in I}
  BY <1>2, <1>3
<1>5. I = {k \in DOMAIN rs : rs[k].node.id \in Ids(P)}
  <2>1. \A k \in I : k \in DOMAIN rs /\ rs[k].node.id \in Ids(P)
    BY <1>1, <1>4
  <2>2. ASSUME NEW k \in DOMAIN rs, rs[k].node.id \in Ids(P) PROVE k \in I
    <3>1. PICK i \in I : rs[k].node.id = rs[i].node.id
      BY <1>4, <2>2
    <3> QED
      BY <1>1, <3>1 DEF IsBatch
  <2> QED
    BY <2>1, <2>2
<1> QED
  BY <1>4, <1>5 DEF P

\* The files of a grouping are the names it gives, each once.
LEMMA FilesAreNames ==
    ASSUME NEW n \in Nat, NEW K, DOMAIN K \subseteq 1..n
    PROVE  /\ IsSequence(FilesOf(K))
           /\ Elements(FilesOf(K)) = {K[i] : i \in DOMAIN K}
           /\ \A p, q \in 1..Len(FilesOf(K)) : FilesOf(K)[p] = FilesOf(K)[q] => p = q
<1> DEFINE I == {i \in DOMAIN K : \A j \in DOMAIN K : j < i => K[j] # K[i]}
<1>1. I \in SUBSET (1..n) /\ FilesOf(K) = Picked(K, I)
  BY DEF FilesOf
<1>2. ASSUME NEW i \in DOMAIN K PROVE \E f \in I : K[f] = K[i]
  <2> DEFINE S == {j \in DOMAIN K : K[j] = K[i]}
             R == {jk \in S \X S : jk[1] < jk[2]}
  <2>1. S \subseteq 1..n /\ i \in S
    OBVIOUS
  <2>2. IsFiniteSet(S)
    BY <2>1, FS_Interval, FS_Subset
  <2>3. TotalOn(S, R)
    BY <2>1 DEF TotalOn
  <2>4. Cardinality(S) \in Nat /\ Cardinality(S) # 0
    BY <2>1, <2>2, FS_EmptySet, FS_CardinalityType
  <2>5. \A k \in 0..(Cardinality(S) - 1) : \E x \in S : Cardinality(Below(S, R, x)) = k
    <3> HIDE DEF S, R
    <3> QED
      BY <2>2, <2>3, BelowCounts
  <2>6. PICK f \in S : Cardinality(Below(S, R, f)) = 0
    <3>1. 0 \in 0..(Cardinality(S) - 1)
      <4> HIDE DEF S
      <4> QED
        BY <2>4
    <3> HIDE DEF S, R
    <3> QED
      BY <2>5, <3>1
  <2>7. IsFiniteSet(Below(S, R, f))
    BY <2>2, FS_Subset DEF Below
  <2>8. Below(S, R, f) = {}
    BY <2>6, <2>7, FS_EmptySet
  <2>9. \A j \in S : ~(j < f)
    BY <2>8 DEF Below
  <2> QED
    BY <2>9
<1>3. Elements(Picked(K, I)) = {K[i] : i \in I} /\ IsSequence(Picked(K, I))
  BY <1>1, PickedElements
<1>4. {K[i] : i \in I} = {K[i] : i \in DOMAIN K}
  BY <1>2
<1>5. \A i, j \in I : K[i] = K[j] => i = j
  BY <1>1
<1>6. ASSUME NEW p \in 1..Len(Picked(K, I)), NEW q \in 1..Len(Picked(K, I)),
             Picked(K, I)[p] = Picked(K, I)[q]
      PROVE  p = q
  <2> HIDE DEF I
  <2> QED
    BY <1>1, <1>5, <1>6, PickedApart
<1> QED
  BY <1>1, <1>3, <1>4, <1>6

GroupAt(K, file) == {i \in DOMAIN K : K[i] = file}

\* F has one artifact per name of K, which holds the rows of that name in their
\* order.
HoldGroups(F, rs, K, dir) ==
    /\ IsSequence(F)
    /\ Len(F) = Len(FilesOf(K))
    /\ \A m \in 1..Len(F) :
          /\ F[m].path = <<dir, FilesOf(K)[m]>>
          /\ F[m].rows = Picked(rs, GroupAt(K, FilesOf(K)[m]))

\* A directory of a grouping does.
LEMMA FilesHoldGroups ==
    ASSUME NEW rs, NEW n \in Nat, NEW K, DOMAIN K \subseteq 1..n, NEW dir
    PROVE  HoldGroups(Files(dir, rs, K), rs, K, dir)
<1> DEFINE k == Len(FilesOf(K))
           item(m) == [path |-> <<dir, FilesOf(K)[m]>>,
                       rows |-> Group(rs, K, FilesOf(K)[m])]
           F == Files(dir, rs, K)
<1>1. k \in Nat /\ DOMAIN FilesOf(K) = 1..k
  BY FilesAreNames DEF IsSequence
<1>2. F = [m \in 1..k |-> item(m)]
  BY <1>1 DEF Files
<1> HIDE DEF F, k
<1>3. \A m \in 1..k : F[m].path = <<dir, FilesOf(K)[m]>>
  BY <1>2
<1>4. \A m \in 1..k : F[m].rows = Picked(rs, GroupAt(K, FilesOf(K)[m]))
  BY <1>2 DEF Group, GroupAt
<1>5. Len(F) = k
  BY <1>1, <1>2
<1> HIDE DEF item
<1>6. F \in [1..k -> {F[m] : m \in 1..k}]
  BY <1>2
<1> QED
  BY <1>1, <1>3, <1>4, <1>5, <1>6 DEF F, k, HoldGroups, IsSequence, Elements

\* The artifacts of a directory share nodes of the batch out, each to one, and
\* none is lost that has a name.
SharesOut(F, rs, K) ==
    /\ \A m \in 1..Len(F) : Ids(F[m].rows) \subseteq Ids(rs)
    /\ \A m, l \in 1..Len(F) : m # l => Ids(F[m].rows) \cap Ids(F[l].rows) = {}
    /\ \A i \in DOMAIN K : \E m \in 1..Len(F) : rs[i].node.id \in Ids(F[m].rows)

\* The groups of a directory share out the rows that have a file.
LEMMA GroupsShareOut ==
    ASSUME NEW rs, IsBatch(rs), NEW K, DOMAIN K \subseteq 1..Len(rs), NEW dir,
           NEW F, HoldGroups(F, rs, K, dir)
    PROVE  SharesOut(F, rs, K)
<1> DEFINE k == Len(FilesOf(K))
           names == FilesOf(K)
<1>1. Len(rs) \in Nat /\ DOMAIN rs = 1..Len(rs)
  BY DEF IsBatch, IsSequence
<1>2. Len(F) = k /\ \A m \in 1..k : F[m].rows = Picked(rs, GroupAt(K, names[m]))
  BY DEF HoldGroups
<1>3. \A m \in 1..k : Ids(F[m].rows) = {rs[i].node.id : i \in GroupAt(K, names[m])}
  <2> TAKE m \in 1..k
  <2>1. GroupAt(K, names[m]) \in SUBSET (1..Len(rs))
    BY DEF GroupAt
  <2> QED
    BY <1>2, <2>1, PickedIds
<1>4. /\ \A m, l \in 1..k : names[m] = names[l] => m = l
      /\ {names[m] : m \in 1..k} = {K[i] : i \in DOMAIN K}
  <2>1. Elements(FilesOf(K)) = {K[i] : i \in DOMAIN K}
    BY <1>1, FilesAreNames
  <2>2. \A p, q \in 1..Len(FilesOf(K)) : FilesOf(K)[p] = FilesOf(K)[q] => p = q
    BY <1>1, FilesAreNames
  <2> QED
    BY <2>1, <2>2 DEF Elements
<1> HIDE DEF k, names
<1>5. \A m \in 1..k : Ids(F[m].rows) \subseteq Ids(rs)
  <2> TAKE m \in 1..k
  <2>1. \A i \in GroupAt(K, names[m]) : i \in DOMAIN rs
    BY <1>1 DEF GroupAt
  <2>2. \A i \in GroupAt(K, names[m]) : rs[i].node.id \in Ids(rs)
    BY <2>1 DEF Ids
  <2> QED
    BY <1>3, <2>2
<1>6. ASSUME NEW m \in 1..k, NEW l \in 1..k, m # l,
             NEW x, x \in Ids(F[m].rows), x \in Ids(F[l].rows)
      PROVE  FALSE
  <2>1. PICK i \in GroupAt(K, names[m]) : x = rs[i].node.id
    BY <1>3, <1>6
  <2>2. PICK j \in GroupAt(K, names[l]) : x = rs[j].node.id
    BY <1>3, <1>6
  <2>3. i = j
    BY <2>1, <2>2 DEF GroupAt, IsBatch
  <2> QED
    BY <1>4, <1>6, <2>3 DEF GroupAt
<1>7. ASSUME NEW i \in DOMAIN K
      PROVE  \E m \in 1..k : rs[i].node.id \in Ids(F[m].rows)
  <2>1. PICK m \in 1..k : names[m] = K[i]
    BY <1>4
  <2>2. i \in GroupAt(K, names[m])
    BY <2>1 DEF GroupAt
  <2> QED
    BY <1>3, <2>2
<1>8. \A m, l \in 1..k : m # l => Ids(F[m].rows) \cap Ids(F[l].rows) = {}
  BY <1>6
<1> QED
  BY <1>2, <1>5, <1>7, <1>8 DEF SharesOut

\* c is the sequence a of length n, followed by the sequence b of length m.
Joins(c, a, n, b, m) ==
    /\ IsSequence(c)
    /\ Len(c) = n + m
    /\ \A i \in 1..n : c[i] = a[i]
    /\ \A i \in 1..m : c[n + i] = b[i]

\* Two sequences, one after the other.
LEMMA Joined ==
    ASSUME NEW a, IsSequence(a), NEW b, IsSequence(b)
    PROVE  Joins(a \o b, a, Len(a), b, Len(b))
<1> DEFINE S == Elements(a) \cup Elements(b)
           c == a \o b
<1>1. a \in Seq(S) /\ b \in Seq(S) /\ Len(a) \in Nat /\ Len(b) \in Nat
  BY DEF IsSequence
<1> HIDE DEF S
<1>2. c \in Seq(S) /\ Len(c) = Len(a) + Len(b)
  BY <1>1
<1>3. \A i \in 1..Len(a) : c[i] = a[i]
  BY <1>1
<1>4. \A i \in 1..Len(b) : c[Len(a) + i] = b[i]
  BY <1>1
<1> HIDE DEF c
<1>5. c \in [1..Len(c) -> Elements(c)] /\ Len(c) \in Nat
  BY <1>2 DEF Elements
<1> QED
  BY <1>2, <1>3, <1>4, <1>5 DEF c, Joins, IsSequence

\* The directory of the files at the top.
Root == ""

TierAt(rs, limit) == {i \in DOMAIN rs : rs[i].node.ms <= limit}

\* A is the bundle of rs: the two full lists, the directories P, T and C, and
\* the two tiers.
Arranged(A, P, T, C, rs) ==
    /\ IsSequence(A)
    /\ Len(P) \in Nat /\ Len(T) \in Nat /\ Len(C) \in Nat
    /\ Len(A) = Len(P) + Len(T) + Len(C) + 4
    /\ A[1].path = <<Root, "all">> /\ A[1].rows = rs
    /\ A[2].path = <<Root, "all_b64">> /\ A[2].rows = rs
    /\ \A m \in 1..Len(P) : A[2 + m] = P[m]
    /\ \A m \in 1..Len(T) : A[2 + Len(P) + m] = T[m]
    /\ \A m \in 1..Len(C) : A[2 + Len(P) + Len(T) + m] = C[m]
    /\ A[Len(P) + Len(T) + Len(C) + 3].path = <<"Subscription", "ultra_fast">>
    /\ A[Len(P) + Len(T) + Len(C) + 3].rows = Picked(rs, TierAt(rs, UltraFastMs))
    /\ A[Len(P) + Len(T) + Len(C) + 4].path = <<"Subscription", "good_ping">>
    /\ A[Len(P) + Len(T) + Len(C) + 4].rows = Picked(rs, TierAt(rs, GoodPingMs))

\* build_outputs puts the artifacts in this order.
LEMMA ArtifactsAreArranged ==
    ASSUME NEW rs, NEW P, P = ByProtocol(rs), NEW T, T = ByTransport(rs),
           NEW C, C = ByCountry(rs), IsSequence(P), IsSequence(T), IsSequence(C)
    PROVE  Arranged(Artifacts(rs), P, T, C, rs)
<1> DEFINE h1 == [path |-> <<Root, "all">>, rows |-> rs]
           h2 == [path |-> <<Root, "all_b64">>, rows |-> rs]
           t1 == [path |-> <<"Subscription", "ultra_fast">>, rows |-> Tier(rs, UltraFastMs)]
           t2 == [path |-> <<"Subscription", "good_ping">>, rows |-> Tier(rs, GoodPingMs)]
           H == <<h1, h2>>
           E == <<t1, t2>>
           B == H \o P
           D == B \o T
           F == D \o C
           A == F \o E
           p == Len(P)
           t == Len(T)
           c == Len(C)
<1>1. Artifacts(rs) = A
  BY DEF Artifacts, Root
<1>2. /\ h1.path = <<Root, "all">> /\ h1.rows = rs
      /\ h2.path = <<Root, "all_b64">> /\ h2.rows = rs
      /\ t1.path = <<"Subscription", "ultra_fast">>
      /\ t1.rows = Picked(rs, TierAt(rs, UltraFastMs))
      /\ t2.path = <<"Subscription", "good_ping">>
      /\ t2.rows = Picked(rs, TierAt(rs, GoodPingMs))
  BY DEF Tier, TierAt
<1> HIDE DEF h1, h2, t1, t2
<1>3. \A x, y : LET s == <<x, y>>
                IN IsSequence(s) /\ Len(s) = 2 /\ s[1] = x /\ s[2] = y
  <2> TAKE x, y
  <2> DEFINE s == <<x, y>>
  <2>1. Len(s) = 2 /\ s[1] = x /\ s[2] = y /\ DOMAIN s = 1..2
    OBVIOUS
  <2>2. \A i \in 1..2 : s[i] \in {s[k] : k \in 1..2}
    OBVIOUS
  <2>3. s \in [1..2 -> {s[k] : k \in 1..2}]
    BY <2>1, <2>2
  <2>4. IsSequence(s)
    BY <2>1, <2>3 DEF IsSequence, Elements
  <2> QED
    BY <2>1, <2>4
<1>4. /\ IsSequence(H) /\ Len(H) = 2 /\ H[1] = h1 /\ H[2] = h2
      /\ IsSequence(E) /\ Len(E) = 2 /\ E[1] = t1 /\ E[2] = t2
  BY <1>3
<1> HIDE DEF H, E
<1>5. p \in Nat /\ t \in Nat /\ c \in Nat
  BY DEF IsSequence
<1>6. /\ IsSequence(B) /\ Len(B) = 2 + p
      /\ \A i \in 1..2 : B[i] = H[i]
      /\ \A i \in 1..p : B[2 + i] = P[i]
  <2>1. IsSequence(H) /\ IsSequence(P) /\ Len(H) = 2
    BY <1>4
  <2>2. Joins(B, H, Len(H), P, Len(P))
    BY <2>1, Joined
  <2>3. Joins(B, H, 2, P, p)
    BY <1>4, <2>1, <2>2
  <2> HIDE DEF B
  <2> QED
    BY <2>3 DEF Joins
<1> HIDE DEF B
<1>7. /\ IsSequence(D) /\ Len(D) = 2 + p + t
      /\ \A i \in 1..(2 + p) : D[i] = B[i]
      /\ \A i \in 1..t : D[2 + p + i] = T[i]
  <2>1. IsSequence(B) /\ IsSequence(T) /\ Len(B) = 2 + p
    BY <1>6
  <2>2. Joins(D, B, Len(B), T, Len(T))
    BY <2>1, Joined
  <2>3. Joins(D, B, 2 + p, T, t)
    BY <1>4, <2>1, <2>2
  <2> HIDE DEF D
  <2> QED
    BY <2>3 DEF Joins
<1> HIDE DEF D
<1>8. /\ IsSequence(F) /\ Len(F) = 2 + p + t + c
      /\ \A i \in 1..(2 + p + t) : F[i] = D[i]
      /\ \A i \in 1..c : F[2 + p + t + i] = C[i]
  <2>1. IsSequence(D) /\ IsSequence(C) /\ Len(D) = 2 + p + t
    BY <1>7
  <2>2. Joins(F, D, Len(D), C, Len(C))
    BY <2>1, Joined
  <2>3. Joins(F, D, 2 + p + t, C, c)
    BY <1>4, <2>1, <2>2
  <2> HIDE DEF F
  <2> QED
    BY <2>3 DEF Joins
<1> HIDE DEF F
<1>9. /\ IsSequence(A) /\ Len(A) = 2 + p + t + c + 2
      /\ \A i \in 1..(2 + p + t + c) : A[i] = F[i]
      /\ \A i \in 1..2 : A[2 + p + t + c + i] = E[i]
  <2>1. IsSequence(F) /\ IsSequence(E) /\ Len(F) = 2 + p + t + c
    BY <1>4, <1>8
  <2>2. Joins(A, F, Len(F), E, Len(E))
    BY <2>1, Joined
  <2>3. Joins(A, F, 2 + p + t + c, E, 2)
    BY <1>4, <2>1, <2>2
  <2> HIDE DEF A
  <2> QED
    BY <2>3 DEF Joins
<1> HIDE DEF A
<1> DEFINE n == 2 + p + t + c
<1> HIDE DEF p, t, c
<1>10. A[1] = h1 /\ A[2] = h2
  BY <1>4, <1>5, <1>6, <1>7, <1>8, <1>9
<1>11. \A m \in 1..p : A[2 + m] = P[m]
  BY <1>5, <1>6, <1>7, <1>8, <1>9
<1>12. \A m \in 1..t : A[2 + p + m] = T[m]
  <2> TAKE m \in 1..t
  <2> DEFINE i == 2 + p + m
  <2>1. i \in 1..(2 + p + t) /\ i \in 1..(2 + p + t + c)
    BY <1>5
  <2>2. D[i] = T[m]
    BY <1>7
  <2> HIDE DEF i
  <2>3. A[i] = T[m]
    BY <1>8, <1>9, <2>1, <2>2
  <2> QED
    BY <2>3 DEF i
<1>13. \A m \in 1..c : A[2 + p + t + m] = C[m]
  BY <1>5, <1>8, <1>9
<1>14. A[p + t + c + 3] = t1 /\ A[p + t + c + 4] = t2
  <2>1. p + t + c + 3 = 2 + p + t + c + 1 /\ p + t + c + 4 = 2 + p + t + c + 2
    BY <1>5
  <2> QED
    BY <1>4, <1>9, <2>1
<1>15. Len(A) = p + t + c + 4
  BY <1>5, <1>9
<1>16. Arranged(A, P, T, C, rs)
  BY <1>2, <1>5, <1>9, <1>10, <1>11, <1>12, <1>13, <1>14, <1>15 DEF Arranged, p, t, c
<1> QED
  BY <1>1, <1>16

\* Every artifact is one of them.
LEMMA ArtifactIsOne ==
    ASSUME NEW A, NEW P, NEW T, NEW C, NEW rs, Arranged(A, P, T, C, rs),
           NEW i \in 1..Len(A)
    PROVE  \/ i \in {1, 2}
           \/ \E m \in 1..Len(P) : i = 2 + m /\ A[i] = P[m]
           \/ \E m \in 1..Len(T) : i = 2 + Len(P) + m /\ A[i] = T[m]
           \/ \E m \in 1..Len(C) : i = 2 + Len(P) + Len(T) + m /\ A[i] = C[m]
           \/ i \in {Len(P) + Len(T) + Len(C) + 3, Len(P) + Len(T) + Len(C) + 4}
<1> DEFINE p == Len(P)
           t == Len(T)
           c == Len(C)
<1>1. p \in Nat /\ t \in Nat /\ c \in Nat /\ Len(A) = p + t + c + 4
  BY DEF Arranged
<1>2. /\ \A m \in 1..p : A[2 + m] = P[m]
      /\ \A m \in 1..t : A[2 + p + m] = T[m]
      /\ \A m \in 1..c : A[2 + p + t + m] = C[m]
  BY DEF Arranged
<1> DEFINE n == Len(A)
<1>3. i \in 1..n /\ n = p + t + c + 4
  BY <1>1
<1> HIDE DEF p, t, c, n
<1>4. \/ i \in {1, 2}
      \/ i - 2 \in 1..p
      \/ i - 2 - p \in 1..t
      \/ i - 2 - p - t \in 1..c
      \/ i \in {p + t + c + 3, p + t + c + 4}
  BY <1>1, <1>3
<1>5. ASSUME i - 2 \in 1..p PROVE \E m \in 1..p : i = 2 + m /\ A[i] = P[m]
  BY <1>2, <1>3, <1>5
<1>6. ASSUME i - 2 - p \in 1..t PROVE \E m \in 1..t : i = 2 + p + m /\ A[i] = T[m]
  <2>1. i = 2 + p + (i - 2 - p)
    BY <1>1, <1>3
  <2> QED
    BY <1>2, <1>6, <2>1
<1>7. ASSUME i - 2 - p - t \in 1..c
      PROVE  \E m \in 1..c : i = 2 + p + t + m /\ A[i] = C[m]
  <2>1. i = 2 + p + t + (i - 2 - p - t)
    BY <1>1, <1>3
  <2> QED
    BY <1>2, <1>7, <2>1
<1> QED
  BY <1>4, <1>5, <1>6, <1>7 DEF p, t, c

\* What build_outputs makes of a batch.
Bundled(A, P, T, C, rs) ==
    /\ Arranged(A, P, T, C, rs)
    /\ HoldGroups(P, rs, Protocols(rs), "Config")
    /\ HoldGroups(T, rs, Transports(rs), "transports")
    /\ HoldGroups(C, rs, Countries(rs), "Country")

\* Each grouping is over positions of the batch, the one by protocol over all.
LEMMA Groupings ==
    ASSUME NEW rs, IsBatch(rs)
    PROVE  /\ Len(rs) \in Nat /\ DOMAIN rs = 1..Len(rs)
           /\ DOMAIN Protocols(rs) = 1..Len(rs)
           /\ DOMAIN Transports(rs) \subseteq 1..Len(rs)
           /\ DOMAIN Countries(rs) \subseteq 1..Len(rs)
<1>1. Len(rs) \in Nat /\ DOMAIN rs = 1..Len(rs)
  BY DEF IsBatch, IsSequence
<1> QED
  BY <1>1 DEF Protocols, Transports, Countries

\* The artifacts of a batch are its bundle.
LEMMA ArtifactsAreBundled ==
    ASSUME NEW rs, IsBatch(rs)
    PROVE  Bundled(Artifacts(rs), ByProtocol(rs), ByTransport(rs), ByCountry(rs), rs)
<1>1. /\ HoldGroups(ByProtocol(rs), rs, Protocols(rs), "Config")
      /\ HoldGroups(ByTransport(rs), rs, Transports(rs), "transports")
      /\ HoldGroups(ByCountry(rs), rs, Countries(rs), "Country")
  <2>1. /\ Len(rs) \in Nat
        /\ DOMAIN Protocols(rs) \subseteq 1..Len(rs)
        /\ DOMAIN Transports(rs) \subseteq 1..Len(rs)
        /\ DOMAIN Countries(rs) \subseteq 1..Len(rs)
    BY Groupings
  <2> QED
    BY <2>1, FilesHoldGroups DEF ByProtocol, ByTransport, ByCountry
<1>2. IsSequence(ByProtocol(rs)) /\ IsSequence(ByTransport(rs)) /\ IsSequence(ByCountry(rs))
  BY <1>1 DEF HoldGroups
<1>3. Arranged(Artifacts(rs), ByProtocol(rs), ByTransport(rs), ByCountry(rs), rs)
  BY <1>2, ArtifactsAreArranged
<1> QED
  BY <1>1, <1>3 DEF Bundled

\* The rows of an artifact are a comprehension of the ranking.
LEMMA ArtifactIsPicked ==
    ASSUME NEW rs, IsBatch(rs), NEW A, NEW P, NEW T, NEW C, Bundled(A, P, T, C, rs),
           NEW i \in 1..Len(A)
    PROVE  \E I \in SUBSET (1..Len(rs)) : A[i].rows = Picked(rs, I)
<1>1. /\ Len(rs) \in Nat /\ DOMAIN rs = 1..Len(rs)
      /\ DOMAIN Protocols(rs) = 1..Len(rs)
      /\ DOMAIN Transports(rs) \subseteq 1..Len(rs)
      /\ DOMAIN Countries(rs) \subseteq 1..Len(rs)
  BY Groupings
<1>2. ASSUME NEW K, DOMAIN K \subseteq 1..Len(rs), NEW dir, NEW F,
             HoldGroups(F, rs, K, dir), NEW m \in 1..Len(F), A[i] = F[m]
      PROVE  \E I \in SUBSET (1..Len(rs)) : A[i].rows = Picked(rs, I)
  <2>1. A[i].rows = Picked(rs, GroupAt(K, FilesOf(K)[m]))
    BY <1>2 DEF HoldGroups
  <2>2. GroupAt(K, FilesOf(K)[m]) \in SUBSET (1..Len(rs))
    BY <1>2 DEF GroupAt
  <2> QED
    BY <2>1, <2>2
<1>3. Picked(rs, 1..Len(rs)) = rs
  BY PickedAll DEF IsBatch
<1>4. TierAt(rs, UltraFastMs) \subseteq 1..Len(rs) /\ TierAt(rs, GoodPingMs) \subseteq 1..Len(rs)
  BY <1>1 DEF TierAt
<1>5. CASE i \in {1, 2}
  <2>1. A[i].rows = rs
    BY <1>5 DEF Bundled, Arranged
  <2> QED
    BY <1>3, <2>1
<1>6. CASE \E m \in 1..Len(P) : i = 2 + m /\ A[i] = P[m]
  BY <1>1, <1>2, <1>6 DEF Bundled
<1>7. CASE \E m \in 1..Len(T) : i = 2 + Len(P) + m /\ A[i] = T[m]
  BY <1>1, <1>2, <1>7 DEF Bundled
<1>8. CASE \E m \in 1..Len(C) : i = 2 + Len(P) + Len(T) + m /\ A[i] = C[m]
  BY <1>1, <1>2, <1>8 DEF Bundled
<1>9. CASE i \in {Len(P) + Len(T) + Len(C) + 3, Len(P) + Len(T) + Len(C) + 4}
  BY <1>4, <1>9 DEF Bundled, Arranged
<1>10. Arranged(A, P, T, C, rs)
  BY DEF Bundled
<1> QED
  BY <1>5, <1>6, <1>7, <1>8, <1>9, <1>10, ArtifactIsOne

\* The rows x are rows of rs, in its order.
Follows(x, rs) ==
    /\ x = Picked(rs, {k \in DOMAIN rs : rs[k].node.id \in Ids(x)})
    /\ Ids(x) \subseteq Ids(rs)

\* So an artifact keeps the order of the ranking and adds no node.
LEMMA ArtifactKeepsOrder ==
    ASSUME NEW rs, IsBatch(rs), NEW A, NEW P, NEW T, NEW C, Bundled(A, P, T, C, rs),
           NEW i \in 1..Len(A)
    PROVE  Follows(A[i].rows, rs)
<1>1. PICK I \in SUBSET (1..Len(rs)) : A[i].rows = Picked(rs, I)
  BY ArtifactIsPicked
<1>2. Len(rs) \in Nat /\ DOMAIN rs = 1..Len(rs)
  BY Groupings
<1>3. I = {k \in DOMAIN rs : rs[k].node.id \in Ids(A[i].rows)}
  BY <1>1, PickedIds
<1>4. Ids(A[i].rows) = {rs[k].node.id : k \in I}
  BY <1>1, PickedIds
<1>5. A[i].rows = Picked(rs, {k \in DOMAIN rs : rs[k].node.id \in Ids(A[i].rows)})
  BY <1>1, <1>3
<1>6. Ids(A[i].rows) \subseteq Ids(rs)
  BY <1>2, <1>4 DEF Ids
<1> QED
  BY <1>5, <1>6 DEF Follows

\* Artifact i of A is one of F, which follow the first n.
Among(A, i, F, n) == \E m \in 1..Len(F) : i = n + m /\ A[i] = F[m]

\* What the directory of artifact i tells.
Told(A, P, T, C, i) ==
    /\ A[i].path[1] = Root => i \in {1, 2}
    /\ A[i].path[1] = "Config" => Among(A, i, P, 2)
    /\ A[i].path[1] = "transports" => Among(A, i, T, 2 + Len(P))
    /\ A[i].path[1] = "Country" => Among(A, i, C, 2 + Len(P) + Len(T))
    /\ A[i].path[1] = "Subscription" /\ A[i].path[2] = "ultra_fast" =>
          i = Len(P) + Len(T) + Len(C) + 3
    /\ A[i].path[1] = "Subscription" /\ A[i].path[2] = "good_ping" =>
          i = Len(P) + Len(T) + Len(C) + 4

\* The directory of an artifact tells which it is.
LEMMA Directories ==
    ASSUME NEW A, NEW P, NEW T, NEW C, NEW rs, Bundled(A, P, T, C, rs),
           NEW i \in 1..Len(A)
    PROVE  Told(A, P, T, C, i)
<1> DEFINE u == Len(P) + Len(T) + Len(C) + 3
           g == Len(P) + Len(T) + Len(C) + 4
           AtP == Among(A, i, P, 2)
           AtT == Among(A, i, T, 2 + Len(P))
           AtC == Among(A, i, C, 2 + Len(P) + Len(T))
<1>0. Arranged(A, P, T, C, rs)
  BY DEF Bundled
<1>1. i \in {1, 2} => A[i].path[1] = Root
  <2>1. A[1].path = <<Root, "all">> /\ A[2].path = <<Root, "all_b64">>
    BY <1>0 DEF Arranged
  <2>2. A[1].path[1] = Root /\ A[2].path[1] = Root
    BY <2>1
  <2> QED
    BY <2>2
<1>2. AtP => A[i].path[1] = "Config"
  <2>1. HoldGroups(P, rs, Protocols(rs), "Config")
    BY DEF Bundled
  <2> QED
    BY <2>1 DEF HoldGroups, Among
<1>3. AtT => A[i].path[1] = "transports"
  <2>1. HoldGroups(T, rs, Transports(rs), "transports")
    BY DEF Bundled
  <2> QED
    BY <2>1 DEF HoldGroups, Among
<1>4. AtC => A[i].path[1] = "Country"
  <2>1. HoldGroups(C, rs, Countries(rs), "Country")
    BY DEF Bundled
  <2> QED
    BY <2>1 DEF HoldGroups, Among
<1>5. i = u => A[i].path[1] = "Subscription" /\ A[i].path[2] = "ultra_fast"
  <2>1. A[u].path = <<"Subscription", "ultra_fast">>
    BY <1>0 DEF Arranged
  <2> HIDE DEF u
  <2>2. A[u].path[1] = "Subscription" /\ A[u].path[2] = "ultra_fast"
    BY <2>1
  <2> QED
    BY <2>2
<1>6. i = g => A[i].path[1] = "Subscription" /\ A[i].path[2] = "good_ping"
  <2>1. A[g].path = <<"Subscription", "good_ping">>
    BY <1>0 DEF Arranged
  <2> HIDE DEF g
  <2>2. A[g].path[1] = "Subscription" /\ A[g].path[2] = "good_ping"
    BY <2>1
  <2> QED
    BY <2>2
<1>7. i \in {1, 2} \/ AtP \/ AtT \/ AtC \/ i = u \/ i = g
  BY <1>0, ArtifactIsOne DEF Among
<1> HIDE DEF AtP, AtT, AtC, u, g
<1>8. Root # "Config" /\ Root # "transports" /\ Root # "Country" /\ Root # "Subscription"
  BY DEF Root
<1>9. /\ A[i].path[1] = Root => i \in {1, 2}
      /\ A[i].path[1] = "Config" => AtP
      /\ A[i].path[1] = "transports" => AtT
      /\ A[i].path[1] = "Country" => AtC
      /\ A[i].path[1] = "Subscription" /\ A[i].path[2] = "ultra_fast" => i = u
      /\ A[i].path[1] = "Subscription" /\ A[i].path[2] = "good_ping" => i = g
  BY <1>1, <1>2, <1>3, <1>4, <1>5, <1>6, <1>7, <1>8
<1> QED
  BY <1>9 DEF AtP, AtT, AtC, u, g, Told

\* A ranking is a batch of scored rows.
IsRanking(rs) ==
    /\ IsBatch(rs)
    /\ \A i \in 1..Len(rs) : rs[i].outcome.status = "scored"

\* The files of a directory hold different nodes.
LEMMA DirectoriesApart ==
    ASSUME NEW rs, IsBatch(rs), NEW A, NEW P, NEW T, NEW C, Bundled(A, P, T, C, rs),
           NEW i \in 1..Len(A), NEW j \in 1..Len(A), i # j,
           NEW dir \in {"Config", "transports", "Country"},
           A[i].path[1] = dir, A[j].path[1] = dir
    PROVE  Ids(A[i].rows) \cap Ids(A[j].rows) = {}
<1>1. /\ DOMAIN Protocols(rs) \subseteq 1..Len(rs)
      /\ DOMAIN Transports(rs) \subseteq 1..Len(rs)
      /\ DOMAIN Countries(rs) \subseteq 1..Len(rs)
  BY Groupings
<1>2. /\ SharesOut(P, rs, Protocols(rs))
      /\ SharesOut(T, rs, Transports(rs))
      /\ SharesOut(C, rs, Countries(rs))
  <2>1. /\ HoldGroups(P, rs, Protocols(rs), "Config")
        /\ HoldGroups(T, rs, Transports(rs), "transports")
        /\ HoldGroups(C, rs, Countries(rs), "Country")
    BY DEF Bundled
  <2> QED
    BY <1>1, <2>1, GroupsShareOut
<1>3. Told(A, P, T, C, i) /\ Told(A, P, T, C, j)
  BY Directories
<1>4. ASSUME NEW F, NEW K, SharesOut(F, rs, K), NEW n,
             Among(A, i, F, n), Among(A, j, F, n)
      PROVE  Ids(A[i].rows) \cap Ids(A[j].rows) = {}
  <2>1. PICK m \in 1..Len(F) : i = n + m /\ A[i] = F[m]
    BY <1>4 DEF Among
  <2>2. PICK l \in 1..Len(F) : j = n + l /\ A[j] = F[l]
    BY <1>4 DEF Among
  <2>3. m # l
    BY <2>1, <2>2
  <2>4. Ids(F[m].rows) \cap Ids(F[l].rows) = {}
    BY <1>4, <2>3 DEF SharesOut
  <2> QED
    BY <2>1, <2>2, <2>4
<1>5. CASE dir = "Config"
  <2>1. Among(A, i, P, 2) /\ Among(A, j, P, 2)
    BY <1>3, <1>5 DEF Told
  <2> QED
    BY <1>2, <1>4, <2>1
<1>6. CASE dir = "transports"
  <2> DEFINE n == 2 + Len(P)
  <2>1. Among(A, i, T, n) /\ Among(A, j, T, n)
    BY <1>3, <1>6 DEF Told
  <2> HIDE DEF n
  <2> QED
    BY <1>2, <1>4, <2>1
<1>7. CASE dir = "Country"
  <2> DEFINE n == 2 + Len(P) + Len(T)
  <2>1. Among(A, i, C, n) /\ Among(A, j, C, n)
    BY <1>3, <1>7 DEF Told
  <2> HIDE DEF n
  <2> QED
    BY <1>2, <1>4, <2>1
<1> QED
  BY <1>5, <1>6, <1>7

\* What build_outputs makes of a ranking follows it.
LEMMA BundleFollows ==
    ASSUME IsRanking(ranked), planned = Artifacts(ranked)
    PROVE  FilesFollowOrder
<1> DEFINE P == ByProtocol(ranked)
           T == ByTransport(ranked)
           C == ByCountry(ranked)
           In(dir) == {i \in DOMAIN planned : planned[i].path[1] = dir}
           Tiers(name) == {i \in In("Subscription") : planned[i].path[2] = name}
           Apart(dir) == \A i, j \in In(dir) :
                            i # j => Ids(planned[i].rows) \cap Ids(planned[j].rows) = {}
<1>1. IsBatch(ranked) /\ Bundled(planned, P, T, C, ranked)
  BY ArtifactsAreBundled DEF IsRanking
<1> HIDE DEF P, T, C
<1>2. DOMAIN planned = 1..Len(planned)
  BY <1>1 DEF Bundled, Arranged, IsSequence
<1>3. \A i \in DOMAIN planned :
        /\ planned[i].rows = Picked(ranked, {n \in DOMAIN ranked :
                                ranked[n].node.id \in Ids(planned[i].rows)})
        /\ Ids(planned[i].rows) \subseteq Ids(ranked)
  <2> TAKE i \in DOMAIN planned
  <2>1. Follows(planned[i].rows, ranked)
    BY <1>1, <1>2, ArtifactKeepsOrder
  <2> QED
    BY <2>1 DEF Follows
<1>4. Ids(ranked) = UNION {Ids(planned[i].rows) : i \in In("Config")}
  <2>1. UNION {Ids(planned[i].rows) : i \in In("Config")} \subseteq Ids(ranked)
    BY <1>3
  <2>2. ASSUME NEW x \in Ids(ranked)
        PROVE  \E i \in In("Config") : x \in Ids(planned[i].rows)
    <3>1. PICK k \in DOMAIN ranked : x = ranked[k].node.id
      BY DEF Ids
    <3>2. HoldGroups(P, ranked, Protocols(ranked), "Config")
      BY <1>1 DEF Bundled
    <3>3. k \in DOMAIN Protocols(ranked) /\ DOMAIN Protocols(ranked) \subseteq 1..Len(ranked)
      BY <1>1, <3>1, Groupings
    <3>a. SharesOut(P, ranked, Protocols(ranked))
      BY <1>1, <3>2, <3>3, GroupsShareOut
    <3>4. PICK m \in 1..Len(P) : x \in Ids(P[m].rows)
      BY <3>1, <3>3, <3>a DEF SharesOut
    <3>5. /\ planned[2 + m] = P[m] /\ 2 + m \in 1..Len(planned)
      <4>1. Arranged(planned, P, T, C, ranked)
        BY <1>1 DEF Bundled
      <4>2. /\ Len(P) \in Nat /\ Len(T) \in Nat /\ Len(C) \in Nat
            /\ Len(planned) = Len(P) + Len(T) + Len(C) + 4
        BY <4>1 DEF Arranged
      <4>3. planned[2 + m] = P[m]
        BY <4>1 DEF Arranged
      <4> QED
        BY <4>2, <4>3
    <3>6. P[m].path[1] = "Config"
      BY <3>2 DEF HoldGroups
    <3> QED
      BY <1>2, <3>4, <3>5, <3>6
  <2> QED
    BY <2>1, <2>2
<1>5. Apart("Config") /\ Apart("transports") /\ Apart("Country")
  BY <1>1, <1>2, DirectoriesApart
<1>6. \A u \in Tiers("ultra_fast"), g \in Tiers("good_ping") :
         /\ Ids(planned[u].rows) \subseteq Ids(planned[g].rows)
         /\ Ids(planned[g].rows) = Ids(ranked)
  <2> TAKE u \in Tiers("ultra_fast"), g \in Tiers("good_ping")
  <2>1. u = Len(P) + Len(T) + Len(C) + 3 /\ g = Len(P) + Len(T) + Len(C) + 4
    <3>1. Told(planned, P, T, C, u) /\ Told(planned, P, T, C, g)
      BY <1>1, <1>2, Directories
    <3> QED
      BY <3>1 DEF Told
  <2>2. /\ planned[u].rows = Picked(ranked, TierAt(ranked, UltraFastMs))
        /\ planned[g].rows = Picked(ranked, TierAt(ranked, GoodPingMs))
    BY <1>1, <2>1 DEF Bundled, Arranged
  <2>3. DOMAIN ranked = 1..Len(ranked)
    BY <1>1, Groupings
  <2>4. \A k \in DOMAIN ranked : ranked[k].node.ms \in 1..499
    <3> TAKE k \in DOMAIN ranked
    <3>1. IsRow(ranked[k]) /\ ranked[k].outcome.status = "scored"
      BY <2>3 DEF IsRanking, IsBatch
    <3>2. ranked[k].node.ms \in 1..(LatencyGate - 1)
      BY <3>1, RowFacts
    <3> QED
      BY <3>2 DEF LatencyGate
  <2>5. TierAt(ranked, GoodPingMs) = DOMAIN ranked
    <3>1. \A k \in DOMAIN ranked : ranked[k].node.ms <= GoodPingMs
      <4> TAKE k \in DOMAIN ranked
      <4>1. ranked[k].node.ms \in 1..499
        BY <2>4
      <4> QED
        BY <4>1 DEF GoodPingMs
    <3> QED
      BY <3>1 DEF TierAt
  <2>6. TierAt(ranked, UltraFastMs) \subseteq 1..Len(ranked)
    BY <2>3 DEF TierAt
  <2>7. Ids(planned[g].rows) = {ranked[k].node.id : k \in DOMAIN ranked}
    BY <1>1, <2>2, <2>3, <2>5, PickedIds
  <2>8. Ids(planned[u].rows) = {ranked[k].node.id : k \in TierAt(ranked, UltraFastMs)}
    BY <1>1, <2>2, <2>6, PickedIds
  <2> QED
    BY <2>3, <2>6, <2>7, <2>8 DEF Ids
<1> QED
  BY <1>3, <1>4, <1>5, <1>6 DEF FilesFollowOrder

\* The tally of a grouping tells how many rows each of its artifacts has.
LEMMA TallyAgrees ==
    ASSUME NEW rs, IsBatch(rs), NEW K, DOMAIN K \subseteq 1..Len(rs),
           NEW dir, NEW F, HoldGroups(F, rs, K, dir), NEW m \in 1..Len(F)
    PROVE  Tally(rs, K)[F[m].path[2]] = Len(F[m].rows)
<1> DEFINE file == FilesOf(K)[m]
<1>1. F[m].path[2] = file /\ F[m].rows = Picked(rs, GroupAt(K, file))
  BY DEF HoldGroups
<1>2. file \in {K[k] : k \in DOMAIN K}
  <2>1. Elements(FilesOf(K)) = {K[k] : k \in DOMAIN K}
    <3>1. Len(rs) \in Nat /\ DOMAIN K \subseteq 1..Len(rs)
      BY DEF IsBatch, IsSequence
    <3> QED
      BY <3>1, FilesAreNames, SMTT(30)
  <2>2. m \in 1..Len(FilesOf(K))
    BY DEF HoldGroups
  <2> QED
    BY <2>1, <2>2 DEF Elements
<1> HIDE DEF file
<1>3. Tally(rs, K)[file] = Len(Group(rs, K, file))
  BY <1>2 DEF Tally
<1> QED
  BY <1>1, <1>3 DEF Group, GroupAt

\* Two sets of positions of two batches that hold the same rows are of one size.
LEMMA SameRows ==
    ASSUME NEW a, NEW b, IsBatch(a), IsBatch(b),
           NEW I \in SUBSET (1..Len(a)), NEW J \in SUBSET (1..Len(b)),
           RowsAt(a, I) = RowsAt(b, J)
    PROVE  Cardinality(I) = Cardinality(J)
<1> DEFINE f == [i \in I |-> CHOOSE j \in J : b[j] = a[i]]
<1>1. \A i \in I : f[i] \in J /\ b[f[i]] = a[i]
  BY DEF RowsAt
<1>2. \A i, k \in I : a[i] = a[k] => i = k
  BY DEF IsBatch
<1>3. \A j, k \in J : b[j] = b[k] => j = k
  BY DEF IsBatch
<1>4. \A j \in J : \E i \in I : a[i] = b[j]
  BY DEF RowsAt
<1>5. f \in [I -> J]
  BY <1>1
<1> HIDE DEF f
<1>6. \A i, k \in I : f[i] = f[k] => i = k
  BY <1>1, <1>2
<1>7. ASSUME NEW j \in J PROVE \E i \in I : f[i] = j
  <2>1. PICK i \in I : a[i] = b[j]
    BY <1>4
  <2>2. f[i] \in J /\ b[f[i]] = b[j]
    BY <1>1, <2>1
  <2> QED
    BY <1>3, <2>2
<1>8. ExistsBijection(I, J)
  BY <1>5, <1>6, <1>7 DEF ExistsBijection, Bijection, Injection, Surjection, IsInjective
<1>9. IsFiniteSet(I)
  <2> DEFINE n == Len(a)
  <2>1. n \in Nat /\ I \in SUBSET (1..n)
    BY DEF IsBatch, IsSequence
  <2> HIDE DEF n
  <2>2. IsFiniteSet(1..n)
    BY <2>1, FS_Interval
  <2> QED
    BY <2>1, <2>2, FS_Subset
<1> QED
  BY <1>8, <1>9, FS_Bijection

\* What was left out is counted as the scored batch has it.
LEMMA LeftCounts ==
    ASSUME IsBatch(rows), unranked = Unranked(rows), counts = Counts(ranked, unranked)
    PROVE  LET left == {i \in DOMAIN rows : rows[i].outcome.status # "scored"}
               With(s) == {i \in left : rows[i].outcome.status = s}
           IN /\ counts.unranked = Cardinality(left)
              /\ counts.unranked_by_status =
                   [s \in {rows[i].outcome.status : i \in left} |-> Cardinality(With(s))]
<1> DEFINE left == {i \in DOMAIN rows : rows[i].outcome.status # "scored"}
           With(s) == {i \in left : rows[i].outcome.status = s}
           all == 1..Len(unranked)
           Of(s) == {i \in all : unranked[i].outcome.status = s}
<1>1. IsBatch(unranked) /\ Elements(unranked) = RowsAt(rows, UnscoredAt(rows))
  BY UnrankedIsBatch
<1>2. /\ Len(rows) \in Nat /\ DOMAIN rows = 1..Len(rows)
      /\ Len(unranked) \in Nat /\ DOMAIN unranked = all
  BY <1>1 DEF IsBatch, IsSequence
<1>3. left = UnscoredAt(rows) /\ left \in SUBSET (1..Len(rows))
  BY <1>2 DEF UnscoredAt
<1>4. RowsAt(unranked, all) = RowsAt(rows, left)
  BY <1>1, <1>3 DEF Elements, RowsAt
<1>5. Cardinality(all) = Cardinality(left)
  BY <1>1, <1>3, <1>4, SameRows
<1>6. Cardinality(all) = Len(unranked)
  <2> DEFINE n == Len(unranked)
  <2>1. n \in Nat
    BY <1>2
  <2> HIDE DEF n
  <2>2. Cardinality(1..n) = n
    BY <2>1, FS_Interval
  <2> QED
    BY <2>2 DEF n
<1>7. ASSUME NEW s PROVE Cardinality(Of(s)) = Cardinality(With(s))
  <2>1. Of(s) \in SUBSET all /\ With(s) \in SUBSET (1..Len(rows))
    BY <1>3
  <2>2. RowsAt(unranked, Of(s)) = RowsAt(rows, With(s))
    <3>1. RowsAt(unranked, Of(s)) = {r \in RowsAt(unranked, all) : r.outcome.status = s}
      BY DEF RowsAt
    <3>2. RowsAt(rows, With(s)) = {r \in RowsAt(rows, left) : r.outcome.status = s}
      BY DEF RowsAt
    <3> QED
      BY <1>4, <3>1, <3>2
  <2> QED
    BY <1>1, <2>1, <2>2, SameRows
<1>8. {unranked[i].outcome.status : i \in all} = {rows[i].outcome.status : i \in left}
  <2>1. {unranked[i].outcome.status : i \in all}
          = {r.outcome.status : r \in RowsAt(unranked, all)}
    BY DEF RowsAt
  <2>2. {rows[i].outcome.status : i \in left} = {r.outcome.status : r \in RowsAt(rows, left)}
    BY DEF RowsAt
  <2> QED
    BY <1>4, <2>1, <2>2
<1>9. counts.unranked = Len(unranked)
  BY DEF Counts
<1>10. counts.unranked_by_status =
         [s \in {unranked[i].outcome.status : i \in all} |-> Cardinality(Of(s))]
  BY <1>2 DEF Counts
<1> HIDE DEF all, left, Of, With
<1>11. counts.unranked_by_status =
         [s \in {rows[i].outcome.status : i \in left} |-> Cardinality(With(s))]
  BY <1>7, <1>8, <1>10
<1>12. counts.unranked = Cardinality(left)
  BY <1>5, <1>6, <1>9
<1> QED
  BY <1>11, <1>12 DEF left, With

\* And the counts are those of the artifacts.
LEMMA BundleCounts ==
    ASSUME IsRanking(ranked), IsBatch(rows), unranked = Unranked(rows),
           planned = Artifacts(ranked), counts = Counts(ranked, unranked)
    PROVE  CountsAgree
<1> DEFINE P == ByProtocol(ranked)
           T == ByTransport(ranked)
           C == ByCountry(ranked)
<1>1. IsBatch(ranked) /\ Bundled(planned, P, T, C, ranked)
  BY ArtifactsAreBundled DEF IsRanking
<1> HIDE DEF P, T, C
<1>2. DOMAIN planned = 1..Len(planned)
  BY <1>1 DEF Bundled, Arranged, IsSequence
<1>3. /\ Len(ranked) \in Nat /\ DOMAIN ranked = 1..Len(ranked)
      /\ DOMAIN Protocols(ranked) \subseteq 1..Len(ranked)
      /\ DOMAIN Transports(ranked) \subseteq 1..Len(ranked)
      /\ DOMAIN Countries(ranked) \subseteq 1..Len(ranked)
  BY <1>1, Groupings
<1> SUFFICES ASSUME NEW i \in DOMAIN planned
             PROVE  LET n == Len(planned[i].rows)
                        dir == planned[i].path[1]
                        name == planned[i].path[2]
                    IN /\ dir = "" => counts.nodes = n
                       /\ dir = "Config" => counts.protocols[name] = n
                       /\ dir = "transports" => counts.transports[name] = n
                       /\ dir = "Country" => counts.countries[name] = n
                       /\ dir = "Subscription" /\ name = "ultra_fast" =>
                             counts.ultra_fast = n
                       /\ dir = "Subscription" /\ name = "good_ping" =>
                             counts.good_ping = n
  BY LeftCounts DEF CountsAgree
<1> DEFINE n == Len(planned[i].rows)
           dir == planned[i].path[1]
           name == planned[i].path[2]
<1>4. i \in 1..Len(planned) /\ Told(planned, P, T, C, i)
  BY <1>1, <1>2, Directories
<1>5. ASSUME NEW K, DOMAIN K \subseteq 1..Len(ranked), NEW F, NEW d, NEW skipped,
             HoldGroups(F, ranked, K, d), Among(planned, i, F, skipped)
      PROVE  Tally(ranked, K)[name] = n
  <2>1. PICK m \in 1..Len(F) : planned[i] = F[m]
    BY <1>5 DEF Among
  <2>2. Tally(ranked, K)[F[m].path[2]] = Len(F[m].rows)
    BY <1>1, <1>5, TallyAgrees
  <2> QED
    BY <2>1, <2>2
<1>9. /\ dir = "Config" => counts.protocols[name] = n
      /\ dir = "transports" => counts.transports[name] = n
      /\ dir = "Country" => counts.countries[name] = n
  <2>1. /\ counts.protocols = Tally(ranked, Protocols(ranked))
        /\ counts.transports = Tally(ranked, Transports(ranked))
        /\ counts.countries = Tally(ranked, Countries(ranked))
    BY DEF Counts
  <2>2. /\ HoldGroups(P, ranked, Protocols(ranked), "Config")
        /\ HoldGroups(T, ranked, Transports(ranked), "transports")
        /\ HoldGroups(C, ranked, Countries(ranked), "Country")
    BY <1>1 DEF Bundled
  <2>3. /\ dir = "Config" => Among(planned, i, P, 2)
        /\ dir = "transports" => Among(planned, i, T, 2 + Len(P))
        /\ dir = "Country" => Among(planned, i, C, 2 + Len(P) + Len(T))
    BY <1>4 DEF Told
  <2> HIDE DEF n, dir, name
  <2>4. ASSUME dir = "Config" PROVE counts.protocols[name] = n
    BY <1>3, <1>5, <2>1, <2>2, <2>3, <2>4
  <2>5. ASSUME dir = "transports" PROVE counts.transports[name] = n
    BY <1>3, <1>5, <2>1, <2>2, <2>3, <2>5
  <2>6. ASSUME dir = "Country" PROVE counts.countries[name] = n
    BY <1>3, <1>5, <2>1, <2>2, <2>3, <2>6
  <2> QED
    BY <2>4, <2>5, <2>6
<1>6. ASSUME dir = "Subscription", name = "ultra_fast" PROVE counts.ultra_fast = n
  <2>1. i = Len(P) + Len(T) + Len(C) + 3
    BY <1>4, <1>6 DEF Told
  <2>2. planned[i].rows = Picked(ranked, TierAt(ranked, UltraFastMs))
    BY <1>1, <2>1 DEF Bundled, Arranged
  <2>3. TierAt(ranked, UltraFastMs) \in SUBSET (1..Len(ranked))
    BY <1>3 DEF TierAt
  <2>4. n = Cardinality(TierAt(ranked, UltraFastMs))
    BY <1>3, <2>2, <2>3, PickedLength
  <2> QED
    BY <2>4 DEF Counts, InTier, TierAt
<1>7. ASSUME dir = "Subscription", name = "good_ping" PROVE counts.good_ping = n
  <2>1. i = Len(P) + Len(T) + Len(C) + 4
    BY <1>4, <1>7 DEF Told
  <2>2. planned[i].rows = Picked(ranked, TierAt(ranked, GoodPingMs))
    BY <1>1, <2>1 DEF Bundled, Arranged
  <2>3. TierAt(ranked, GoodPingMs) \in SUBSET (1..Len(ranked))
    BY <1>3 DEF TierAt
  <2>4. n = Cardinality(TierAt(ranked, GoodPingMs))
    BY <1>3, <2>2, <2>3, PickedLength
  <2> QED
    BY <2>4 DEF Counts, InTier, TierAt
<1>8. ASSUME dir = "" PROVE counts.nodes = n
  <2>1. i \in {1, 2}
    <3>1. dir = Root
      BY <1>8 DEF Root
    <3> QED
      BY <1>4, <3>1 DEF Told
  <2>2. planned[i].rows = ranked
    BY <1>1, <2>1 DEF Bundled, Arranged
  <2> QED
    BY <2>2 DEF Counts
<1> QED
  BY <1>6, <1>7, <1>8, <1>9

-----------------------------------------------------------------------------
(* The inductive invariant *)

\* Each stage's result is what it makes of the result of the stage before.
RankingStages == {"build", "plan", "write", "written", "failed", "refused"}
BundleStages == RankingStages \ {"build"}

Deduplicated ==
    /\ scenario \in Scenarios /\ run \in 1..scenario.runs
    /\ pc \in {"dedup", "live", "rank", "build", "plan", "write"} \cup Ended
    /\ IsSequence(kept) /\ Kept \subseteq Feed
    /\ \A i, j \in 1..Len(kept) : kept[i] = kept[j] => i = j

Scored ==
    /\ IsBatch(rows) /\ Ids(rows) \subseteq Kept
    /\ pc \in {"dedup", "live"} => rows = <<>>

Staged ==
    /\ pc # "integrity_error"
    /\ pc \in RankingStages => /\ ranked = TopN(Ranked(rows), scenario.top_n)
                               /\ unranked = Unranked(rows)
    /\ pc \notin RankingStages => ranked = <<>> /\ unranked = <<>>
    /\ pc \in BundleStages => planned = Artifacts(ranked) /\ counts = Counts(ranked, unranked)
    /\ pc \notin BundleStages => planned = <<>>
    /\ pc = "write" => Plannable(planned)

\* What this run has written so far is headed by all.txt, which holds the ranking.
Written ==
    /\ done \in 0..Len(planned)
    /\ pc \notin {"write", "written", "failed"} => done = 0
    /\ \A p \in DOMAIN disk : disk[p].run \in 1..run
    /\ done = 0 => \A p \in DOMAIN disk : disk[p].run # run
    /\ done # 0 => /\ <<Root, "all">> \in DOMAIN disk
                   /\ disk[<<Root, "all">>].run = run
                   /\ disk[<<Root, "all">>].ids = Ids(ranked)
    /\ \A p \in DOMAIN disk : disk[p].run = run => disk[p].ids \subseteq Ids(ranked)

Inv == Deduplicated /\ Scored /\ Staged /\ Written

-----------------------------------------------------------------------------
(* Its steps *)

\* The feed is a sequence of positions, each once.
LEMMA FeedIsList ==
    ASSUME scenario \in Scenarios
    PROVE  /\ IsSequence(AcceptedFeed)
           /\ \A i, j \in 1..Len(AcceptedFeed) : AcceptedFeed[i] = AcceptedFeed[j] => i = j
           /\ Feed \subseteq DOMAIN scenario.feed
           /\ DOMAIN scenario.feed \subseteq Nat
<1> DEFINE n == Len(scenario.feed)
           self == [i \in DOMAIN scenario.feed |-> i]
           I == {i \in DOMAIN scenario.feed : Accepted(scenario.feed[i])}
<1>1. n \in Nat /\ DOMAIN scenario.feed = 1..n
  BY ScenarioAssumption
<1>2. I \in SUBSET (1..n) /\ AcceptedFeed = Picked(self, I)
  BY <1>1 DEF AcceptedFeed
<1>3. \A i \in I : self[i] = i
  OBVIOUS
<1> HIDE DEF self, I, n
<1>4. IsSequence(AcceptedFeed) /\ Elements(AcceptedFeed) = {self[i] : i \in I}
  BY <1>1, <1>2, PickedElements
<1>5. ASSUME NEW i \in 1..Len(AcceptedFeed), NEW j \in 1..Len(AcceptedFeed),
             AcceptedFeed[i] = AcceptedFeed[j]
      PROVE  i = j
  <2>1. \A k, l \in I : self[k] = self[l] => k = l
    BY <1>3
  <2> QED
    BY <1>1, <1>2, <1>5, <2>1, PickedApart
<1>6. Feed \subseteq 1..n
  <2>1. Elements(AcceptedFeed) \subseteq 1..n
    BY <1>2, <1>3, <1>4
  <2>2. DOMAIN AcceptedFeed = 1..Len(AcceptedFeed)
    BY <1>4 DEF IsSequence
  <2> QED
    BY <2>1, <2>2 DEF Feed, Elements
<1> QED
  BY <1>1, <1>4, <1>5, <1>6

\* The empty batch.
LEMMA EmptyBatch ==
    /\ IsSequence(<<>>) /\ IsBatch(<<>>) /\ Ids(<<>>) = {} /\ Len(<<>>) = 0
<1>1. Len(<<>>) = 0 /\ DOMAIN <<>> = {} /\ 1..0 = {}
  OBVIOUS
<1>2. <<>> \in [1..0 -> Elements(<<>>)]
  BY <1>1
<1> QED
  BY <1>1, <1>2 DEF IsSequence, IsBatch, Ids

\* Nothing has been read or written.
LEMMA InitInv == Init => Inv
<1> SUFFICES ASSUME Init PROVE Inv
  OBVIOUS
<1>1. scenario.runs \in Nat \ {0}
  BY ScenarioAssumption DEF Init
<1>2. Deduplicated
  BY <1>1, EmptyBatch DEF Deduplicated, Init, Kept
<1>3. Scored
  BY EmptyBatch DEF Scored, Init
<1>4. Staged
  BY DEF Staged, Init, RankingStages, BundleStages
<1>5. Written
  BY EmptyBatch DEF Written, Init
<1> QED
  BY <1>2, <1>3, <1>4, <1>5 DEF Inv

\* Dedup keeps positions of the feed, each once.
LEMMA DedupInv == Inv /\ Dedup => Inv'
<1> SUFFICES ASSUME Inv, Dedup PROVE Inv'
  OBVIOUS
<1> DEFINE F == AcceptedFeed
           nodes == [i \in DOMAIN F |-> Parse(scenario.feed[F[i]])]
           self == [i \in DOMAIN nodes |-> i]
           J == {i \in DOMAIN nodes :
                   \A j \in 1..(i - 1) : DedupKey(nodes[j]) # DedupKey(nodes[i])}
           first == DedupKept(nodes)
<1>1. /\ IsSequence(F)
      /\ \A i, j \in 1..Len(F) : F[i] = F[j] => i = j
  BY FeedIsList DEF Inv, Deduplicated
<1>2. Len(F) \in Nat /\ DOMAIN F = 1..Len(F)
  BY <1>1 DEF IsSequence
<1>3. first = Picked(self, J) /\ J \in SUBSET (1..Len(F))
  BY <1>2 DEF DedupKept
<1>4. \A i \in J : self[i] = i
  OBVIOUS
<1>5. kept' = [i \in DOMAIN first |-> F[first[i]]]
  BY DEF Dedup
<1>6. pc = "dedup" /\ pc' = "live" /\ UNCHANGED <<scenario, run, batch, done, disk>>
  BY DEF Dedup
<1> HIDE DEF first, self, J, nodes
<1>7. IsSequence(first) /\ Elements(first) = {self[i] : i \in J}
  BY <1>2, <1>3, PickedElements
<1>8. \A i \in 1..Len(first) : first[i] \in 1..Len(F)
  BY <1>3, <1>4, <1>7 DEF Elements
<1>9. ASSUME NEW i \in 1..Len(first), NEW j \in 1..Len(first), first[i] = first[j]
      PROVE  i = j
  <2>1. \A k, l \in J : self[k] = self[l] => k = l
    BY <1>4
  <2> QED
    BY <1>2, <1>3, <1>9, <2>1, PickedApart
<1>10. Len(first) \in Nat /\ DOMAIN first = 1..Len(first)
  BY <1>7 DEF IsSequence
<1> DEFINE m == Len(first)
<1>11. m \in Nat /\ kept' = [i \in 1..m |-> F[first[i]]]
  BY <1>5, <1>10
<1> HIDE DEF m
<1>12. Len(kept') = m /\ DOMAIN kept' = 1..m
  BY <1>11
<1>13. IsSequence(kept')
  BY <1>11, <1>12 DEF IsSequence, Elements
<1>14. \A i, j \in 1..m : kept'[i] = kept'[j] => i = j
  BY <1>1, <1>8, <1>9, <1>11 DEF m
<1>15. Kept' \subseteq Feed'
  BY <1>2, <1>6, <1>8, <1>11 DEF Kept, Feed, AcceptedFeed, m
<1>16. Deduplicated'
  BY <1>6, <1>12, <1>13, <1>14, <1>15 DEF Inv, Deduplicated
<1>17. Scored'
  <2>1. rows' = <<>>
    BY <1>6 DEF Inv, Scored, batch
  <2> QED
    BY <1>6, <2>1, EmptyBatch DEF Scored
<1>18. Staged' /\ Written'
  <2>1. /\ rows' = rows /\ ranked' = ranked /\ unranked' = unranked
        /\ planned' = planned /\ counts' = counts
        /\ run' = run /\ done' = done /\ disk' = disk
    BY <1>6 DEF batch
  <2>2. pc \notin RankingStages /\ pc' \notin RankingStages
        /\ pc \notin BundleStages /\ pc' \notin BundleStages
    BY <1>6 DEF RankingStages, BundleStages
  <2>3. Staged'
    BY <1>6, <2>1, <2>2 DEF Inv, Staged
  <2>4. Written'
    BY <1>6, <2>1, Zenon DEF Inv, Written, Ids
  <2> QED
    BY <2>3, <2>4
<1> QED
  BY <1>16, <1>17, <1>18 DEF Inv

\* The live stages make a batch of rows for nodes that were kept.
LEMMA LiveInv == Inv /\ Live => Inv'
<1> SUFFICES ASSUME Inv, Live PROVE Inv'
  OBVIOUS
<1>1. /\ pc = "live" /\ pc' = "rank"
      /\ scenario' = scenario /\ run' = run /\ kept' = kept /\ ranked' = ranked
      /\ unranked' = unranked /\ planned' = planned /\ counts' = counts
      /\ done' = done /\ disk' = disk
  BY DEF Live
<1>2. scenario \in Scenarios /\ IsSequence(kept) /\ Kept \subseteq Feed
      /\ \A i, j \in 1..Len(kept) : kept[i] = kept[j] => i = j
  BY DEF Inv, Deduplicated
<1>3. PICK lost \in SUBSET {kept[i] : i \in DOMAIN kept} :
         LET left == Picked(kept, {n \in DOMAIN kept : kept[n] \notin lost})
         IN \E world \in [DOMAIN left -> scenario.worlds] :
              LET found == [i \in DOMAIN left |-> Candidate(left[i], world[i])]
              IN rows' = [i \in DOMAIN found |->
                            [node |-> found[i], outcome |-> Outcome(found[i])]]
  BY DEF Live
<1> DEFINE I == {n \in DOMAIN kept : kept[n] \notin lost}
           left == Picked(kept, I)
<1>4. PICK world \in [DOMAIN left -> scenario.worlds] :
         LET found == [i \in DOMAIN left |-> Candidate(left[i], world[i])]
         IN rows' = [i \in DOMAIN found |->
                       [node |-> found[i], outcome |-> Outcome(found[i])]]
  BY <1>3
<1> DEFINE node(i) == Candidate(left[i], world[i])
<1>5. rows' = [i \in DOMAIN left |-> [node |-> node(i), outcome |-> Outcome(node(i))]]
  BY <1>4
<1>6. Len(kept) \in Nat /\ DOMAIN kept = 1..Len(kept) /\ I \in SUBSET (1..Len(kept))
  BY <1>2 DEF IsSequence
<1> HIDE DEF I, left
<1>7. /\ IsSequence(left) /\ Elements(left) = {kept[i] : i \in I}
  BY <1>6, PickedElements DEF left
<1> DEFINE m == Len(left)
<1>8. m \in Nat /\ DOMAIN left = 1..m
  BY <1>7 DEF IsSequence
<1>9. \A i \in 1..m : left[i] \in Kept
  BY <1>6, <1>7 DEF Elements, Kept
<1>10. ASSUME NEW i \in 1..m, NEW j \in 1..m, left[i] = left[j] PROVE i = j
  BY <1>2, <1>6, <1>10, PickedApart DEF left
<1> HIDE DEF m, node
<1>11. rows' = [i \in 1..m |-> [node |-> node(i), outcome |-> Outcome(node(i))]]
  BY <1>5, <1>8
<1>12. Len(rows') = m /\ DOMAIN rows' = 1..m
  BY <1>8, <1>11
<1>13. ASSUME NEW i \in 1..m
       PROVE  rows'[i].node = node(i) /\ rows'[i].outcome = Outcome(node(i))
  BY <1>11
<1>14. ASSUME NEW i \in 1..m
       PROVE  /\ node(i).id = left[i] /\ node(i).content = left[i]
              /\ node(i).identity = scenario.order[left[i]]
              /\ node(i).ms = world[i].ms /\ node(i).jitter = world[i].jitter
  BY DEF node, Candidate
<1>15. ASSUME NEW i \in 1..m PROVE IsRow(rows'[i])
  <2>1. left[i] \in DOMAIN scenario.feed /\ left[i] \in Nat
    BY <1>2, <1>9, FeedIsList
  <2>2. scenario.order[left[i]] \in Int
    BY <1>2, <2>1, ScenarioAssumption
  <2>3. world[i] \in scenario.worlds
    BY <1>8
  <2>4. world[i].ms \in Int \cup {Missing} /\ world[i].jitter \in Int \cup {Missing}
    BY <1>2, <2>3, ScenarioAssumption
  <2> QED
    BY <1>13, <1>14, <2>1, <2>2, <2>4 DEF IsRow
<1>16. IsSequence(rows')
  <2> DEFINE r(i) == [node |-> node(i), outcome |-> Outcome(node(i))]
  <2>1. rows' = [i \in 1..m |-> r(i)]
    BY <1>11
  <2> HIDE DEF r
  <2>2. rows' \in [1..m -> {rows'[i] : i \in 1..m}]
    BY <2>1
  <2> QED
    BY <1>8, <1>12, <2>2 DEF IsSequence, Elements
<1>17. ASSUME NEW i \in 1..m, NEW j \in 1..m, rows'[i].node.id = rows'[j].node.id
       PROVE  i = j
  BY <1>10, <1>13, <1>14, <1>17
<1>18. IsBatch(rows')
  BY <1>12, <1>15, <1>16, <1>17 DEF IsBatch
<1>19. Ids(rows') \subseteq Kept'
  BY <1>1, <1>9, <1>12, <1>13, <1>14 DEF Ids, Kept
<1>20. Deduplicated'
  <2>1. Kept' = Kept
    BY <1>1 DEF Kept
  <2>2. Feed' = Feed
    BY <1>1 DEF Feed, AcceptedFeed
  <2>3. scenario.runs = scenario'.runs /\ run' \in 1..scenario'.runs
    BY <1>1 DEF Inv, Deduplicated
  <2>4. IsSequence(kept') /\ \A i, j \in 1..Len(kept') : kept'[i] = kept'[j] => i = j
    BY <1>1, <1>2
  <2> QED
    BY <1>1, <1>2, <2>1, <2>2, <2>3, <2>4 DEF Deduplicated
<1>21. Scored'
  BY <1>1, <1>18, <1>19 DEF Scored
<1>22. Staged' /\ Written'
  <2>1. pc \notin RankingStages /\ pc' \notin RankingStages
        /\ pc \notin BundleStages /\ pc' \notin BundleStages
    BY <1>1 DEF RankingStages, BundleStages
  <2>2. Staged'
    BY <1>1, <2>1 DEF Inv, Staged
  <2>3. Written'
    BY <1>1, Zenon DEF Inv, Written, Ids
  <2> QED
    BY <2>2, <2>3
<1> QED
  BY <1>20, <1>21, <1>22 DEF Inv

\* A batch and what was kept stay as they are.
LEMMA SameBatch ==
    ASSUME Deduplicated, Scored, pc \notin {"dedup", "live"},
           UNCHANGED <<scenario, run, kept, rows>>,
           pc' \in {"build", "plan", "write", "written", "failed", "refused"}
    PROVE  Deduplicated' /\ Scored'
<1>1. Kept' = Kept /\ Ids(rows)' = Ids(rows)
  BY DEF Kept, Ids
<1>2. Feed' = Feed
  BY DEF Feed, AcceptedFeed
<1>3. Deduplicated'
  <2>1. IsSequence(kept') /\ \A i, j \in 1..Len(kept') : kept'[i] = kept'[j] => i = j
    BY DEF Deduplicated
  <2>2. Kept' \subseteq Feed' /\ scenario' \in Scenarios /\ run' \in 1..scenario'.runs
    BY <1>1, <1>2 DEF Deduplicated
  <2> QED
    BY <2>1, <2>2 DEF Deduplicated, Ended
<1>4. Scored'
  <2>1. IsBatch(rows')
    BY DEF Scored
  <2> QED
    BY <1>1, <2>1 DEF Scored
<1> QED
  BY <1>3, <1>4

\* Nothing is written before the loop of write_outputs.
LEMMA NothingWritten ==
    ASSUME Written, pc \notin {"write", "written", "failed"},
           UNCHANGED <<run, done, disk>>, Len(planned') \in Nat
    PROVE  Written'
<1>1. done = 0 /\ done' = 0
  BY DEF Written
<1>2. \A p \in DOMAIN disk : disk[p].run \in 1..run /\ disk[p].run # run
  BY <1>1 DEF Written
<1>3. \A p \in DOMAIN disk' : disk'[p].run \in 1..run' /\ disk'[p].run # run'
  BY <1>2
<1> QED
  BY <1>1, <1>3 DEF Written

\* Ranking accepts the batch.
LEMMA RankInv == Inv /\ Rank => Inv'
<1> SUFFICES ASSUME Inv, Rank PROVE Inv'
  OBVIOUS
<1>1. \A i \in DOMAIN rows : Sound(rows[i])
  <2>1. IsBatch(rows) /\ DOMAIN rows = 1..Len(rows)
    BY DEF Inv, Scored, IsBatch, IsSequence
  <2> QED
    BY <2>1, RowsAreSound DEF IsBatch
<1>2. /\ pc = "rank" /\ pc' = "build"
      /\ ranked' = TopN(Ranked(rows), scenario.top_n) /\ unranked' = Unranked(rows)
      /\ UNCHANGED <<scenario, run, kept, rows, planned, counts, done, disk>>
  BY <1>1 DEF Rank
<1>3. Deduplicated' /\ Scored'
  BY <1>2, SameBatch DEF Inv
<1>4. Staged'
  <2>1. pc \notin BundleStages /\ pc' \notin BundleStages /\ pc' \in RankingStages
    BY <1>2 DEF RankingStages, BundleStages
  <2>2. planned' = <<>>
    BY <1>2, <2>1 DEF Inv, Staged
  <2>3. ranked' = TopN(Ranked(rows'), scenario'.top_n) /\ unranked' = Unranked(rows')
    BY <1>2
  <2> QED
    BY <1>2, <2>1, <2>2, <2>3 DEF Staged
<1>5. Written'
  <2>1. planned' = <<>>
    BY <1>2 DEF Inv, Staged, BundleStages, RankingStages
  <2> QED
    BY <1>2, <2>1, NothingWritten, EmptyBatch DEF Inv
<1> QED
  BY <1>3, <1>4, <1>5 DEF Inv

\* The order of a batch is a ranking of its rows, cut to top_n.
LEMMA RankedRows ==
    ASSUME Inv, pc \in RankingStages
    PROVE  /\ IsRanking(ranked)
           /\ Elements(ranked) \subseteq RowsAt(rows, ScoredAt(rows))
<1>1. IsBatch(rows) /\ scenario \in Scenarios /\ ranked = TopN(Ranked(rows), scenario.top_n)
  BY DEF Inv, Deduplicated, Scored, Staged
<1>2. scenario.top_n = Missing \/ scenario.top_n \in Nat \ {0}
  BY <1>1, ScenarioAssumption
<1>3. IsBatch(Ranked(rows)) /\ Elements(Ranked(rows)) = RowsAt(rows, ScoredAt(rows))
  BY <1>1, RankedIsBatch
<1>4. IsBatch(ranked) /\ Elements(ranked) \subseteq Elements(Ranked(rows))
  BY <1>1, <1>2, <1>3, TopIsBatch
<1>5. \A i \in 1..Len(ranked) : ranked[i] \in RowsAt(rows, ScoredAt(rows))
  BY <1>3, <1>4 DEF Elements
<1>6. \A r \in RowsAt(rows, ScoredAt(rows)) : r.outcome.status = "scored"
  BY DEF RowsAt, ScoredAt
<1> QED
  BY <1>3, <1>4, <1>5, <1>6 DEF IsRanking

\* build_outputs has at least the full lists to hand over.
LEMMA BuildInv == Inv /\ Build => Inv'
<1> SUFFICES ASSUME Inv, Build PROVE Inv'
  OBVIOUS
<1>1. /\ pc = "build" /\ pc' = "plan"
      /\ planned' = Artifacts(ranked) /\ counts' = Counts(ranked, unranked)
      /\ UNCHANGED <<scenario, run, kept, rows, ranked, unranked, done, disk>>
  BY DEF Build
<1>2. Deduplicated' /\ Scored'
  BY <1>1, SameBatch DEF Inv
<1>3. Staged'
  <2>1. pc \in RankingStages /\ pc' \in RankingStages /\ pc' \in BundleStages
    BY <1>1 DEF RankingStages, BundleStages
  <2>2. ranked' = TopN(Ranked(rows'), scenario'.top_n) /\ unranked' = Unranked(rows')
    BY <1>1, <2>1 DEF Inv, Staged
  <2>3. planned' = Artifacts(ranked') /\ counts' = Counts(ranked', unranked')
    BY <1>1
  <2> QED
    BY <1>1, <2>1, <2>2, <2>3 DEF Staged
<1>4. Written'
  <2>1. IsBatch(ranked)
    BY <1>1, RankedRows DEF RankingStages, IsRanking
  <2>2. Len(planned') \in Nat
    BY <1>1, <2>1, ArtifactsAreBundled DEF Bundled, Arranged, IsSequence
  <2> QED
    BY <1>1, <2>2, NothingWritten DEF Inv
<1> QED
  BY <1>2, <1>3, <1>4 DEF Inv

\* The bundle while it is planned and written.
LEMMA BundleAtHand ==
    ASSUME Inv, pc \in BundleStages
    PROVE  /\ IsBatch(ranked) /\ IsSequence(planned) /\ Len(planned) \in Nat
           /\ Bundled(planned, ByProtocol(ranked), ByTransport(ranked), ByCountry(ranked),
                      ranked)
<1>1. planned = Artifacts(ranked)
  BY DEF Inv, Staged
<1>2. IsBatch(ranked)
  BY RankedRows DEF BundleStages, IsRanking
<1>3. Bundled(planned, ByProtocol(ranked), ByTransport(ranked), ByCountry(ranked), ranked)
  BY <1>1, <1>2, ArtifactsAreBundled
<1>4. IsSequence(planned) /\ Len(planned) \in Nat
  BY <1>3 DEF Bundled, Arranged, IsSequence
<1> QED
  BY <1>2, <1>3, <1>4

\* A step that leaves everything but the stage keeps the bundle.
LEMMA SameBundle ==
    ASSUME Inv, pc \in BundleStages, pc' \in BundleStages,
           UNCHANGED <<scenario, run, kept, batch>>,
           pc' = "write" => Plannable(planned)
    PROVE  Deduplicated' /\ Scored' /\ Staged'
<1>1. UNCHANGED <<rows, ranked, unranked, planned, counts>>
  BY DEF batch
<1>2. Deduplicated' /\ Scored'
  BY <1>1, SameBatch DEF Inv, BundleStages, RankingStages
<1>3. pc \in RankingStages /\ pc' \in RankingStages /\ pc' # "integrity_error"
  BY DEF BundleStages, RankingStages
<1>4. ranked = TopN(Ranked(rows), scenario.top_n) /\ unranked = Unranked(rows)
      /\ planned = Artifacts(ranked) /\ counts = Counts(ranked, unranked)
  BY <1>3 DEF Inv, Staged
<1>5. ranked' = TopN(Ranked(rows'), scenario'.top_n) /\ unranked' = Unranked(rows')
      /\ planned' = Artifacts(ranked') /\ counts' = Counts(ranked', unranked')
  BY <1>1, <1>4
<1>6. pc' = "write" => Plannable(planned')
  BY <1>1
<1> QED
  BY <1>2, <1>3, <1>5, <1>6 DEF Staged

\* plan_outputs lets a bundle through that is safe to write.
LEMMA PlanInv == Inv /\ Plan => Inv'
<1> SUFFICES ASSUME Inv, Plan PROVE Inv'
  OBVIOUS
<1>1. /\ pc = "plan" /\ pc' \in {"write", "refused"}
      /\ pc' = "write" => Plannable(planned)
      /\ UNCHANGED <<scenario, run, kept, batch, done, disk>>
  BY DEF Plan
<1>2. pc \in BundleStages /\ pc' \in BundleStages
  BY <1>1 DEF BundleStages, RankingStages
<1>3. Deduplicated' /\ Scored' /\ Staged'
  BY <1>1, <1>2, SameBundle
<1>4. Written'
  <2>1. Len(planned') \in Nat
    BY <1>1, <1>2, BundleAtHand DEF batch
  <2> QED
    BY <1>1, <2>1, NothingWritten DEF Inv
<1> QED
  BY <1>3, <1>4 DEF Inv

\* No other artifact has the path of all.txt, in whatever case.
LEMMA AllIsApart ==
    ASSUME NEW A, NEW P, NEW T, NEW C, NEW rs, Arranged(A, P, T, C, rs), Plannable(A),
           NEW i \in 1..Len(A)
    PROVE  /\ FoldedPath(A[1].path) = <<Root, "all">>
           /\ FoldedPath(A[i].path) = <<Root, "all">> => i = 1
<1>1. A[1].path = <<Root, "all">> /\ IsSequence(A)
  BY DEF Arranged
<1>2. FoldedPath(A[1].path) = <<Root, "all">>
  BY <1>1, FoldAssumption DEF FoldedPath
<1>3. DOMAIN A = 1..Len(A) /\ 1 \in DOMAIN A
  BY <1>1 DEF IsSequence
<1>4. \A k, l \in DOMAIN A : FoldedPath(A[k].path) = FoldedPath(A[l].path) => k = l
  BY DEF Plannable
<1> QED
  BY <1>2, <1>3, <1>4

\* The first artifact is all.txt, with every node; the others write elsewhere.
LEMMA WriteInv == Inv /\ Write => Inv'
<1> SUFFICES ASSUME Inv, Write PROVE Inv'
  OBVIOUS
<1> DEFINE item == planned[done + 1]
           path == FoldedPath(item.path)
           ids == Ids(item.rows)
           all == <<Root, "all">>
<1>1. /\ pc = "write" /\ done < Len(planned) /\ done' = done + 1
      /\ disk' = [p \in DOMAIN disk \cup {path} |->
                    IF p = path THEN [run |-> run, ids |-> ids] ELSE disk[p]]
      /\ pc' \in {"write", "written"}
      /\ UNCHANGED <<scenario, run, kept, batch>>
  BY DEF Write
<1>2. pc \in BundleStages /\ pc' \in BundleStages
  BY <1>1 DEF BundleStages, RankingStages
<1>3. Plannable(planned) /\ Written
  BY <1>1 DEF Inv, Staged
<1>4. Deduplicated' /\ Scored' /\ Staged'
  BY <1>1, <1>2, <1>3, SameBundle
<1>5. /\ IsBatch(ranked) /\ Len(planned) \in Nat
      /\ Bundled(planned, ByProtocol(ranked), ByTransport(ranked), ByCountry(ranked), ranked)
  BY <1>2, BundleAtHand
<1>6. done \in Nat /\ done + 1 \in 1..Len(planned)
  BY <1>1, <1>3, <1>5 DEF Written
<1>7. ids \subseteq Ids(ranked)
  BY <1>5, <1>6, ArtifactKeepsOrder DEF Follows
<1>8. ASSUME done = 0 PROVE path = all /\ ids = Ids(ranked)
  <2>1. item = planned[1]
    BY <1>8
  <2>2. Arranged(planned, ByProtocol(ranked), ByTransport(ranked), ByCountry(ranked), ranked)
    BY <1>5 DEF Bundled
  <2>3. planned[1].rows = ranked
    BY <2>2 DEF Arranged
  <2>4. FoldedPath(planned[1].path) = all
    BY <1>3, <1>6, <2>2, AllIsApart
  <2> QED
    BY <2>1, <2>3, <2>4
<1>9. done # 0 => path # all
  BY <1>5, <1>3, <1>6, AllIsApart DEF Bundled
<1> HIDE DEF item, path, ids, all
<1>10. DOMAIN disk' = DOMAIN disk \cup {path}
  BY <1>1
<1>11. disk'[path].run = run /\ disk'[path].ids = ids
  BY <1>1
<1>12. \A p \in DOMAIN disk : p # path => disk'[p] = disk[p]
  BY <1>1
<1>13. run \in Nat /\ run \in 1..run
  <2>1. scenario.runs \in Nat /\ run \in 1..scenario.runs
    BY ScenarioAssumption DEF Inv, Deduplicated
  <2> QED
    BY <2>1
<1>14. \A p \in DOMAIN disk' : disk'[p].run \in 1..run
  BY <1>3, <1>10, <1>11, <1>12, <1>13 DEF Written
<1>15. \A p \in DOMAIN disk' : disk'[p].run = run => disk'[p].ids \subseteq Ids(ranked)
  BY <1>3, <1>7, <1>10, <1>11, <1>12 DEF Written
<1>16. all \in DOMAIN disk' /\ disk'[all].run = run /\ disk'[all].ids = Ids(ranked)
  <2>1. CASE done = 0
    BY <1>8, <1>10, <1>11, <2>1
  <2>2. CASE done # 0
    <3>1. all \in DOMAIN disk /\ disk[all].run = run /\ disk[all].ids = Ids(ranked)
      BY <1>3, <2>2 DEF Written, all
    <3>2. disk'[all] = disk[all]
      BY <1>9, <1>12, <2>2, <3>1
    <3> QED
      BY <1>10, <3>1, <3>2
  <2> QED
    BY <2>1, <2>2
<1>17. run' = run /\ ranked' = ranked /\ planned' = planned /\ Ids(ranked)' = Ids(ranked)
  BY <1>1 DEF batch, Ids
<1>18. done' \in 0..Len(planned') /\ done' # 0 /\ pc' \in {"write", "written", "failed"}
  BY <1>1, <1>5, <1>6, <1>17
<1>19. Written'
  BY <1>14, <1>15, <1>16, <1>17, <1>18 DEF Written, all
<1> QED
  BY <1>4, <1>19 DEF Inv

\* A write that fails leaves the disk as it is.
LEMMA FailInv == Inv /\ Fail => Inv'
<1> SUFFICES ASSUME Inv, Fail PROVE Inv'
  OBVIOUS
<1>1. pc = "write" /\ pc' = "failed" /\ UNCHANGED <<scenario, run, kept, batch, done, disk>>
  BY DEF Fail
<1>2. pc \in BundleStages /\ pc' \in BundleStages
  BY <1>1 DEF BundleStages, RankingStages
<1>3. Deduplicated' /\ Scored' /\ Staged'
  BY <1>1, <1>2, SameBundle
<1>4. Written'
  <2>1. UNCHANGED <<run, done, disk, planned, ranked>> /\ Ids(ranked)' = Ids(ranked)
    BY <1>1 DEF batch, Ids
  <2> QED
    BY <1>1, <2>1 DEF Inv, Written
<1> QED
  BY <1>3, <1>4 DEF Inv

\* The next run finds nothing of itself on the disk.
LEMMA AgainInv == Inv /\ Again => Inv'
<1> SUFFICES ASSUME Inv, Again PROVE Inv'
  OBVIOUS
<1>1. /\ run < scenario.runs /\ run' = run + 1 /\ pc' = "dedup" /\ done' = 0
      /\ kept' = <<>> /\ rows' = <<>> /\ ranked' = <<>> /\ unranked' = <<>>
      /\ planned' = <<>> /\ scenario' = scenario /\ disk' = disk
  BY DEF Again
<1>2. scenario \in Scenarios /\ scenario.runs \in Nat /\ run \in 1..scenario.runs
  BY ScenarioAssumption DEF Inv, Deduplicated
<1>3. Deduplicated'
  <2>1. Kept' = {}
    BY <1>1 DEF Kept
  <2>2. run' \in 1..scenario'.runs
    BY <1>1, <1>2
  <2> QED
    BY <1>1, <1>2, <2>1, <2>2, EmptyBatch DEF Deduplicated
<1>4. Scored'
  BY <1>1, EmptyBatch DEF Scored
<1>5. Staged'
  BY <1>1 DEF Staged, RankingStages, BundleStages
<1>6. Written'
  <2>1. \A p \in DOMAIN disk' : disk'[p].run \in 1..run' /\ disk'[p].run # run'
    BY <1>1, <1>2 DEF Inv, Written
  <2> QED
    BY <1>1, <2>1, EmptyBatch DEF Written
<1> QED
  BY <1>3, <1>4, <1>5, <1>6 DEF Inv

\* A step that changes nothing.
LEMMA StutterInv == Inv /\ UNCHANGED vars => Inv'
<1> SUFFICES ASSUME Inv, UNCHANGED vars PROVE Inv'
  OBVIOUS
<1>1. UNCHANGED <<scenario, run, pc, kept, rows, ranked, unranked, planned, counts, done,
                  disk>>
  BY DEF vars, batch
<1>2. Kept' = Kept /\ Ids(rows)' = Ids(rows) /\ Ids(ranked)' = Ids(ranked)
  BY <1>1 DEF Kept, Ids
<1>3. Feed' = Feed
  BY <1>1 DEF Feed, AcceptedFeed
<1>4. Deduplicated'
  BY <1>1, <1>2, <1>3 DEF Inv, Deduplicated
<1>5. Scored'
  BY <1>1, <1>2 DEF Inv, Scored
<1>6. Staged'
  BY <1>1 DEF Inv, Staged
<1>7. Written'
  BY <1>1, <1>2 DEF Inv, Written
<1> QED
  BY <1>4, <1>5, <1>6, <1>7 DEF Inv

\* The invariant of every run after run.
THEOREM PublishInvariant == Spec => []Inv
<1>1. Init => Inv
  BY InitInv
<1>2. Inv /\ [Next]_vars => Inv'
  BY DedupInv, LiveInv, RankInv, BuildInv, PlanInv, WriteInv, FailInv, AgainInv, StutterInv
     DEF Next
<1> QED
  BY <1>1, <1>2, PTL DEF Spec

-----------------------------------------------------------------------------
(* What follows for every feed *)

\* The rows of a batch are as many as their nodes.
LEMMA BatchCounts ==
    ASSUME NEW rs, IsBatch(rs)
    PROVE  Len(rs) = Cardinality(Ids(rs))
<1> DEFINE n == Len(rs)
           f == [i \in 1..n |-> rs[i].node.id]
<1>1. n \in Nat /\ DOMAIN rs = 1..n
  BY DEF IsBatch, IsSequence
<1>2. \A i, j \in 1..n : rs[i].node.id = rs[j].node.id => i = j
  BY DEF IsBatch
<1> HIDE DEF n
<1>3. Ids(rs) = {f[i] : i \in 1..n}
  BY <1>1 DEF Ids
<1>4. f \in Bijection(1..n, Ids(rs))
  BY <1>2, <1>3 DEF Bijection, Injection, Surjection, IsInjective
<1> HIDE DEF f
<1>5. Cardinality(Ids(rs)) = n
  BY <1>1, <1>4, FS_CountingElements DEF ExistsBijection
<1> QED
  BY <1>5 DEF n

\* The rows that are ranked are not among those that are not, and both are rows
\* of the batch.
LEMMA PartsAreApart ==
    ASSUME Inv, pc \in RankingStages
    PROVE  /\ Ids(ranked) \cup Ids(unranked) \subseteq Ids(rows)
           /\ Ids(ranked) \cap Ids(unranked) = {}
<1>1. IsBatch(rows) /\ unranked = Unranked(rows)
  BY DEF Inv, Scored, Staged
<1>2. IsBatch(unranked) /\ Elements(unranked) = RowsAt(rows, UnscoredAt(rows))
  BY <1>1, UnrankedIsBatch
<1>3. IsBatch(ranked) /\ Elements(ranked) \subseteq RowsAt(rows, ScoredAt(rows))
  BY RankedRows DEF IsRanking
<1>4. ASSUME NEW i \in DOMAIN ranked
      PROVE  \E k \in ScoredAt(rows) : ranked[i] = rows[k]
  <2>1. DOMAIN ranked = 1..Len(ranked)
    BY <1>3 DEF IsBatch, IsSequence
  <2> QED
    BY <1>3, <2>1 DEF Elements, RowsAt
<1>5. ASSUME NEW i \in DOMAIN unranked
      PROVE  \E k \in UnscoredAt(rows) : unranked[i] = rows[k]
  <2>1. DOMAIN unranked = 1..Len(unranked)
    BY <1>2 DEF IsBatch, IsSequence
  <2> QED
    BY <1>2, <2>1 DEF Elements, RowsAt
<1>6. /\ ScoredAt(rows) \subseteq DOMAIN rows /\ UnscoredAt(rows) \subseteq DOMAIN rows
      /\ \A k \in ScoredAt(rows), l \in UnscoredAt(rows) : k # l
      /\ \A k, l \in DOMAIN rows : rows[k].node.id = rows[l].node.id => k = l
  <2>1. DOMAIN rows = 1..Len(rows)
    BY <1>1 DEF IsBatch, IsSequence
  <2> QED
    BY <1>1, <2>1 DEF ScoredAt, UnscoredAt, IsBatch
<1>7. Ids(ranked) \cup Ids(unranked) \subseteq Ids(rows)
  BY <1>4, <1>5, <1>6 DEF Ids
<1>8. ASSUME NEW d \in Ids(ranked), d \in Ids(unranked) PROVE FALSE
  <2>1. PICK i \in DOMAIN ranked : d = ranked[i].node.id
    BY DEF Ids
  <2>2. PICK j \in DOMAIN unranked : d = unranked[j].node.id
    BY <1>8 DEF Ids
  <2>3. PICK k \in ScoredAt(rows) : ranked[i] = rows[k]
    BY <1>4
  <2>4. PICK l \in UnscoredAt(rows) : unranked[j] = rows[l]
    BY <1>5
  <2> QED
    BY <1>6, <2>1, <2>2, <2>3, <2>4
<1> QED
  BY <1>7, <1>8

\* The batch holds nodes of the feed, each at most once, and is shared out between
\* the ranked and the unranked list.
THEOREM PublishTypeCorrect == Spec => []TypeOK
<1>1. ASSUME Inv PROVE TypeOK
  <2>1. /\ scenario \in Scenarios /\ run \in 1..scenario.runs
        /\ pc \in {"dedup", "live", "rank", "build", "plan", "write"} \cup Ended
        /\ Kept \subseteq Feed /\ Ids(rows) \subseteq Kept
        /\ done \in 0..Len(planned)
        /\ \A p \in DOMAIN disk : disk[p].run \in 1..run
    BY <1>1 DEF Inv, Deduplicated, Scored, Written
  <2>2. Len(rows) = Cardinality(Ids(rows))
    BY <1>1, BatchCounts DEF Inv, Scored
  <2>3. /\ Ids(ranked) \cup Ids(unranked) \subseteq Ids(rows)
        /\ Ids(ranked) \cap Ids(unranked) = {}
    <3>1. CASE pc \in RankingStages
      BY <1>1, <3>1, PartsAreApart
    <3>2. CASE pc \notin RankingStages
      BY <1>1, <3>2, EmptyBatch DEF Inv, Staged
    <3> QED
      BY <3>1, <3>2
  <2> QED
    BY <2>1, <2>2, <2>3 DEF TypeOK
<1>2. Inv => TypeOK
  BY <1>1
<1> QED
  BY <1>2, PublishInvariant, PTL

\* No run is lost to a ScoreIntegrityError: scoring hands ranking no batch that
\* rank_candidates refuses.
THEOREM IntegrityAlwaysHolds == Spec => []IntegrityHolds
<1>1. Inv => IntegrityHolds
  BY DEF Inv, Staged, IntegrityHolds
<1> QED
  BY <1>1, PublishInvariant, PTL

\* The ranked and the unranked list depend on the rows that the live stages
\* delivered and never on the order in which they came.
THEOREM RankingForgetsOrder == Spec => []OrderFree
<1>1. ASSUME Inv PROVE OrderFree
  <2> SUFFICES ASSUME pc = "build", NEW p \in Bijection(DOMAIN rows, DOMAIN rows),
                      NEW shuffled, shuffled = [i \in DOMAIN rows |-> rows[p[i]]]
               PROVE  /\ TopN(Ranked(shuffled), scenario.top_n) = ranked
                      /\ Unranked(shuffled) = unranked
    BY DEF OrderFree
  <2>1. IsBatch(rows) /\ DOMAIN rows = 1..Len(rows)
    BY <1>1 DEF Inv, Scored, IsBatch, IsSequence
  <2>2. ranked = TopN(Ranked(rows), scenario.top_n) /\ unranked = Unranked(rows)
    BY <1>1 DEF Inv, Staged, RankingStages
  <2>3. Ranked(shuffled) = Ranked(rows) /\ Unranked(shuffled) = Unranked(rows)
    BY <2>1, RankingIsOrderFree
  <2> QED
    BY <2>2, <2>3
<1>2. Inv => OrderFree
  BY <1>1
<1> QED
  BY <1>2, PublishInvariant, PTL

\* Every artifact keeps the order of the ranking, the files of a directory share
\* its nodes out, and the tiers are nested.
THEOREM FilesAlwaysFollowOrder == Spec => []FilesFollowOrder
<1>1. ASSUME Inv PROVE FilesFollowOrder
  <2>1. CASE pc = "plan"
    <3>1. pc \in RankingStages /\ pc \in BundleStages
      BY <2>1 DEF RankingStages, BundleStages
    <3>2. IsRanking(ranked)
      BY <1>1, <3>1, RankedRows
    <3>3. planned = Artifacts(ranked)
      BY <1>1, <3>1 DEF Inv, Staged
    <3> QED
      BY <3>2, <3>3, BundleFollows
  <2>2. CASE pc # "plan"
    BY <2>2 DEF FilesFollowOrder
  <2> QED
    BY <2>1, <2>2
<1>2. Inv => FilesFollowOrder
  BY <1>1
<1> QED
  BY <1>2, PublishInvariant, PTL

\* The counts of the bundle, which _in_tier and the others compute apart, are
\* those of the artifacts.
THEOREM CountsAlwaysAgree == Spec => []CountsAgree
<1>1. ASSUME Inv PROVE CountsAgree
  <2>1. CASE pc = "plan"
    <3>1. pc \in RankingStages /\ pc \in BundleStages
      BY <2>1 DEF RankingStages, BundleStages
    <3>2. IsRanking(ranked)
      BY <1>1, <3>1, RankedRows
    <3>3. /\ planned = Artifacts(ranked) /\ counts = Counts(ranked, unranked)
          /\ IsBatch(rows) /\ unranked = Unranked(rows)
      BY <1>1, <3>1 DEF Inv, Scored, Staged
    <3> QED
      BY <3>2, <3>3, BundleCounts
  <2>2. CASE pc # "plan"
    BY <2>2 DEF CountsAgree
  <2> QED
    BY <2>1, <2>2
<1>2. Inv => CountsAgree
  BY <1>1
<1> QED
  BY <1>2, PublishInvariant, PTL

\* At every moment, also after a failed write, all.txt of this run lists what any
\* other artifact of this run lists.
THEOREM AllIsAlwaysWhole == Spec => []ListedInAll
<1>1. ASSUME Inv PROVE ListedInAll
  <2> SUFFICES ASSUME NEW p \in DOMAIN disk, disk[p].run = run
               PROVE  /\ <<Root, "all">> \in DOMAIN disk
                      /\ disk[<<Root, "all">>].run = run
                      /\ disk[p].ids \subseteq disk[<<Root, "all">>].ids
    BY Zenon DEF ListedInAll, Root
  <2>1. done # 0
    BY <1>1 DEF Inv, Written
  <2> QED
    BY <1>1, <2>1 DEF Inv, Written
<1>2. Inv => ListedInAll
  BY <1>1
<1> QED
  BY <1>2, PublishInvariant, PTL

-----------------------------------------------------------------------------
(* Dedup *)

\* The feed is in the order of its positions.
LEMMA FeedIsOrdered ==
    ASSUME scenario \in Scenarios
    PROVE  \A k, l \in 1..Len(AcceptedFeed) : k < l => AcceptedFeed[k] < AcceptedFeed[l]
<1> DEFINE n == Len(scenario.feed)
           self == [i \in DOMAIN scenario.feed |-> i]
           I == {i \in DOMAIN scenario.feed : Accepted(scenario.feed[i])}
<1>1. n \in Nat /\ DOMAIN scenario.feed = 1..n
  BY ScenarioAssumption
<1>2. I \in SUBSET (1..n) /\ AcceptedFeed = Picked(self, I)
  BY <1>1 DEF AcceptedFeed
<1>3. \A i \in I : self[i] = i
  OBVIOUS
<1> HIDE DEF self, I, n
<1>4. PICK at : Places(at, self, I)
  BY <1>1, <1>2, PickedPositions
<1>5. Len(AcceptedFeed) = Cardinality(I)
  BY <1>1, <1>2, PickedLength
<1>6. \A p \in 1..Cardinality(I) : at[p] \in I /\ AcceptedFeed[p] = at[p]
  BY <1>2, <1>3, <1>4 DEF Places
<1> QED
  BY <1>4, <1>5, <1>6 DEF Places

\* The links of the feed of which no earlier one has the same key.
KeyAt(i) == DedupKey(Parse(scenario.feed[i]))
Firsts == {i \in Feed : \A j \in Feed : j < i => KeyAt(j) # KeyAt(i)}

\* What the step of dedup_nodes keeps.
LEMMA DedupFirsts ==
    ASSUME Inv, Dedup
    PROVE  Kept' = Firsts
<1> DEFINE F == AcceptedFeed
           nodes == [i \in DOMAIN F |-> Parse(scenario.feed[F[i]])]
           self == [i \in DOMAIN nodes |-> i]
           J == {i \in DOMAIN nodes :
                   \A j \in 1..(i - 1) : DedupKey(nodes[j]) # DedupKey(nodes[i])}
           first == DedupKept(nodes)
           n == Len(F)
<1>1. /\ IsSequence(F) /\ \A k, l \in 1..n : k < l => F[k] < F[l]
      /\ Feed \subseteq Nat
  BY FeedIsList, FeedIsOrdered DEF Inv, Deduplicated
<1>2. n \in Nat /\ DOMAIN F = 1..n
  BY <1>1 DEF IsSequence
<1>3. first = Picked(self, J) /\ J \in SUBSET (1..n)
  BY <1>2 DEF DedupKept
<1>4. \A i \in J : self[i] = i
  OBVIOUS
<1>5. kept' = [i \in DOMAIN first |-> F[first[i]]]
  BY DEF Dedup
<1>6. J = {i \in 1..n : \A j \in 1..(i - 1) : KeyAt(F[j]) # KeyAt(F[i])}
  <2>1. \A i \in 1..n : nodes[i] = Parse(scenario.feed[F[i]])
    BY <1>2
  <2>2. DOMAIN nodes = 1..n
    BY <1>2
  <2>3. \A i \in 1..n : \A j \in 1..(i - 1) : j \in 1..n
    BY <1>2
  <2> HIDE DEF nodes
  <2> QED
    BY <2>1, <2>2, <2>3 DEF KeyAt
<1>7. Feed = {F[i] : i \in 1..n}
  BY <1>2 DEF Feed
<1> HIDE DEF first, self, J, nodes
<1>8. IsSequence(first) /\ Elements(first) = {self[i] : i \in J}
  BY <1>2, <1>3, PickedElements
<1>9. Elements(first) = J /\ DOMAIN first = 1..Len(first)
  BY <1>4, <1>8 DEF IsSequence
<1>10. Kept' = {F[i] : i \in J}
  BY <1>5, <1>9 DEF Kept, Elements
<1> HIDE DEF F, n
<1>11. \A i \in 1..n : F[i] \in Nat
  BY <1>1, <1>7
<1>12. \A i \in 1..n : i \in J <=> F[i] \in Firsts
  <2>1. ASSUME NEW i \in 1..n, i \in J PROVE F[i] \in Firsts
    <3>1. ASSUME NEW j \in 1..n, F[j] < F[i] PROVE KeyAt(F[j]) # KeyAt(F[i])
      <4>1. j < i
        BY <1>1, <1>2, <1>11, <3>1
      <4> QED
        BY <1>6, <1>2, <2>1, <4>1
    <3> QED
      BY <1>7, <3>1 DEF Firsts
  <2>2. ASSUME NEW i \in 1..n, F[i] \in Firsts PROVE i \in J
    <3>1. ASSUME NEW j \in 1..(i - 1) PROVE KeyAt(F[j]) # KeyAt(F[i])
      <4>1. j \in 1..n /\ j < i
        BY <1>2
      <4> QED
        BY <1>1, <1>7, <2>2, <4>1 DEF Firsts
    <3> QED
      BY <1>6, <3>1
  <2> QED
    BY <2>1, <2>2
<1> QED
  BY <1>3, <1>7, <1>10, <1>12 DEF Firsts

\* dedup_nodes, which looks at the nodes one after the other, keeps exactly the
\* first link of every key: none is lost that has no like before it, and no two
\* of what is kept have one key.
THEOREM DedupKeepsFirsts == Spec => [][Dedup => Kept' = Firsts]_vars
<1>1. Inv /\ [Next]_vars => [Dedup => Kept' = Firsts]_vars
  BY DedupFirsts
<1> QED
  BY <1>1, PublishInvariant, PTL DEF Spec

\* Between dedup and the live stages the kept links are the first of their keys.
KeptFirsts == pc = "live" => Kept = Firsts

\* Nothing but dedup leads there, and nothing changes the feed.
LEMMA KeptFirstsHolds == Spec => []KeptFirsts
<1>1. Init => KeptFirsts
  BY DEF Init, KeptFirsts
<1>2. ASSUME Inv, KeptFirsts, [Next]_vars
      PROVE  KeptFirsts'
  <2> SUFFICES ASSUME pc' = "live" PROVE Kept' = Firsts'
    BY DEF KeptFirsts
  <2>1. CASE Dedup
    <3>1. scenario' = scenario
      BY <2>1 DEF Dedup
    <3>2. Firsts' = Firsts
      BY <3>1 DEF Firsts, Feed, AcceptedFeed, KeyAt
    <3> QED
      BY <1>2, <2>1, <3>2, DedupFirsts
  <2>2. CASE UNCHANGED vars
    <3>1. scenario' = scenario /\ kept' = kept /\ pc = "live"
      BY <2>2 DEF vars
    <3>2. Firsts' = Firsts /\ Kept' = Kept
      BY <3>1 DEF Firsts, Feed, AcceptedFeed, KeyAt, Kept
    <3> QED
      BY <1>2, <3>1, <3>2 DEF KeptFirsts
  <2>3. CASE Live \/ Rank \/ Build \/ Plan \/ Write \/ Fail \/ Again
    <3>1. pc' # "live"
      BY <2>3 DEF Live, Rank, Build, Plan, Write, Fail, Again
    <3> QED
      BY <3>1
  <2> QED
    BY <1>2, <2>1, <2>2, <2>3 DEF Next
<1> QED
  BY <1>1, <1>2, PublishInvariant, PTL DEF Spec

\* The links of the feed are links that parse.
LEMMA FeedIsAccepted ==
    ASSUME scenario \in Scenarios, NEW i \in Feed
    PROVE  /\ i \in DOMAIN scenario.feed
           /\ Accepted(scenario.feed[i]) /\ IsLink(scenario.feed[i])
<1> DEFINE n == Len(scenario.feed)
           self == [k \in DOMAIN scenario.feed |-> k]
           I == {k \in DOMAIN scenario.feed : Accepted(scenario.feed[k])}
<1>1. n \in Nat /\ DOMAIN scenario.feed = 1..n
  BY ScenarioAssumption
<1>2. I \in SUBSET (1..n) /\ AcceptedFeed = Picked(self, I)
  BY <1>1 DEF AcceptedFeed
<1>3. \A k \in I : self[k] = k
  OBVIOUS
<1> HIDE DEF self, n
<1>4. IsSequence(AcceptedFeed) /\ Elements(AcceptedFeed) = {self[k] : k \in I}
  BY <1>1, <1>2, PickedElements
<1>5. i \in Elements(AcceptedFeed)
  <2>1. DOMAIN AcceptedFeed = 1..Len(AcceptedFeed)
    BY <1>4 DEF IsSequence
  <2> QED
    BY <2>1 DEF Feed, Elements
<1>6. i \in I
  BY <1>3, <1>4, <1>5
<1>7. \A k \in DOMAIN scenario.feed : IsLink(scenario.feed[k])
  BY ScenarioAssumption
<1> QED
  BY <1>6, <1>7

\* KeyIsMeaning: whatever the feed, a careful link is dropped if an earlier careful
\* one means the same, and only for the sake of one that does or of a careless one of
\* its account.
THEOREM KeysAreMeanings == Spec => []KeyIsMeaning
<1>1. ASSUME Inv, KeptFirsts, pc = "live", NEW i \in Feed, Careful(scenario.feed[i])
      PROVE  LET link(k) == scenario.feed[k]
                 Same(j) == Careful(link(j)) /\ Meaning(link(j)) = Meaning(link(i))
                 Excused(j) == ~Careful(link(j)) /\ Account(link(j)) = Account(link(i))
                 Earlier == {j \in Feed : j < i}
             IN /\ (\E j \in Earlier : Same(j)) => i \notin Kept
                /\ i \notin Kept => \E j \in Earlier : Same(j) \/ Excused(j)
  <2> DEFINE link(k) == scenario.feed[k]
             Same(j) == Careful(link(j)) /\ Meaning(link(j)) = Meaning(link(i))
             Excused(j) == ~Careful(link(j)) /\ Account(link(j)) = Account(link(i))
             Earlier == {j \in Feed : j < i}
  <2>1. \A k \in Feed : Accepted(link(k)) /\ IsLink(link(k))
    BY <1>1, FeedIsAccepted DEF Inv, Deduplicated
  <2>2. ASSUME NEW j \in Feed
        PROVE  /\ Careful(link(j)) => (KeyAt(i) = KeyAt(j) <=> Meaning(link(i)) = Meaning(link(j)))
               /\ KeyAt(i) = KeyAt(j) => Account(link(i)) = Account(link(j))
    BY <1>1, <2>1, KeyMeans DEF KeyAt
  <2>3. i \in Kept <=> \A j \in Earlier : KeyAt(j) # KeyAt(i)
    BY <1>1 DEF KeptFirsts, Firsts
  <2> QED
    BY <2>2, <2>3
<1>2. Inv /\ KeptFirsts => KeyIsMeaning
  BY <1>1 DEF KeyIsMeaning
<1> QED
  BY <1>2, PublishInvariant, KeptFirstsHolds, PTL
===============================================================================
