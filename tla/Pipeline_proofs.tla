---------------------------- MODULE Pipeline_proofs ----------------------------
(***************************************************************************)
(* Theorems about Pipeline, for any configurations, any answers of DNS and *)
(* any outcome of every lookup, connection and probe.                      *)
(*                                                                         *)
(*   Typing     types, together with Naming: a source is numbered no       *)
(*              higher than its place, so its name is one of the run's.    *)
(*   Accounts   each line has one place in the lists, counted line by line *)
(*              (Hits), and what was read is at or before the reader.      *)
(*   Pinning    the address a line was dialled at is the one it bears.     *)
(*   FirstsOnly what has passed dedup has no equal before it.              *)
(*   Earned     a line that is past a stage was dialled by it.             *)
(*   WorkRunsOut   each step leaves the run less to do.                    *)
(***************************************************************************)
EXTENDS Pipeline, FiniteSetTheorems, SequenceTheorems, WellFoundedInduction,
        NaturalsInduction, TLAPS

\* No label has been used more often than there were sources, and the source that
\* is being read has used its own.
Naming ==
    /\ \A x \in Labels : names[x] <= IF pos > 0 THEN src ELSE src - 1
    /\ pos > 0 => src <= Len(config.sources) /\ names[Source.label] >= 1

Typing == TypeOK /\ Naming

-----------------------------------------------------------------------------
(* Sequences and sets *)

\* Taking the first element off a sequence, or adding one, as the solvers need it.
LEMMA HeadTail ==
    ASSUME NEW S, NEW s \in Seq(S), s # <<>>
    PROVE  /\ Head(s) \in S
           /\ Tail(s) \in Seq(S)
           /\ Len(s) \in Nat \ {0}
           /\ Head(s) = s[1]
           /\ Len(Tail(s)) = Len(s) - 1
           /\ \A i \in 1..(Len(s) - 1) : Tail(s)[i] = s[i + 1]
OBVIOUS

\* What Append adds, and where.
LEMMA Appended ==
    ASSUME NEW S, NEW s \in Seq(S), NEW x \in S
    PROVE  /\ Append(s, x) \in Seq(S)
           /\ Len(Append(s, x)) = Len(s) + 1
           /\ Append(s, x)[Len(s) + 1] = x
           /\ \A i \in 1..Len(s) : Append(s, x)[i] = s[i]
OBVIOUS

\* Its type alone.
LEMMA AppendType ==
    ASSUME NEW S, NEW s \in Seq(S), NEW x \in S
    PROVE  Append(s, x) \in Seq(S)
OBVIOUS

\* A set of positions has a last one.
LEMMA LastPosition ==
    ASSUME NEW n \in Nat, NEW S \in SUBSET (1..n), S # {}
    PROVE  Max(S) \in S /\ \A y \in S : Max(S) >= y
<1> DEFINE R == {ss \in Nat \X Nat : ss[1] < ss[2]}
           T == {n - x : x \in S}
<1>1. T \subseteq Nat /\ T # {}
  <2>1. PICK x \in S : TRUE
    OBVIOUS
  <2>2. n - x \in T
    OBVIOUS
  <2>3. \A z \in S : n - z \in Nat
    OBVIOUS
  <2> QED
    BY <2>2, <2>3
<1>2. IsWellFoundedOn(R, Nat)
  BY NatLessThanWellFounded DEF OpToRel
<1>3. PICK t \in T : \A y \in T : ~(<<y, t>> \in R)
  <2> HIDE DEF R, T
  <2> QED
    BY <1>1, <1>2, WFMin
<1>4. \A y \in T : t <= y
  <2> TAKE y \in T
  <2>1. y \in Nat /\ t \in Nat
    BY <1>1
  <2>2. ~(y < t)
    <3>1. y < t => <<y, t>> \in R
      BY <2>1
    <3> QED
      BY <1>3, <3>1
  <2> QED
    BY <2>1, <2>2
<1>5. PICK m \in S : t = n - m
  OBVIOUS
<1>6. \A y \in S : m >= y
  <2> TAKE y \in S
  <2>1. n - y \in T
    OBVIOUS
  <2> QED
    BY <1>4, <1>5, <2>1
<1> QED
  BY <1>5, <1>6 DEF Max

\* What a sequence holds is of the type of its elements.
LEMMA RangeType ==
    ASSUME NEW S, NEW s \in Seq(S)
    PROVE  Range(s) \subseteq S /\ IsFiniteSet(Range(s))
<1>1. s \in [1..Len(s) -> S] /\ Len(s) \in Nat
  OBVIOUS
<1>2. Range(s) \subseteq S
  BY <1>1 DEF Range
<1>3. s \in Surjection(1..Len(s), Range(s))
  BY <1>1 DEF Surjection, Range
<1>4. IsFiniteSet(1..Len(s))
  BY <1>1, FS_Interval
<1> QED
  BY <1>2, <1>3, <1>4, FS_Surjection

\* Where the elements of a sequence go.
LEMMA RangeAppend ==
    ASSUME NEW S, NEW s \in Seq(S), NEW x \in S
    PROVE  Range(Append(s, x)) = Range(s) \cup {x}
<1> DEFINE t == Append(s, x)
<1>1. /\ t \in Seq(S) /\ Len(t) = Len(s) + 1 /\ Len(s) \in Nat
      /\ t[Len(s) + 1] = x
      /\ \A i \in 1..Len(s) : t[i] = s[i]
  BY Appended
<1>2. DOMAIN t = 1..(Len(s) + 1) /\ DOMAIN s = 1..Len(s)
  BY <1>1
<1> HIDE DEF t
<1>3. \A i \in DOMAIN t : t[i] \in Range(s) \cup {x}
  BY <1>1, <1>2 DEF Range
<1>4. \A i \in DOMAIN s : s[i] \in Range(t)
  BY <1>1, <1>2 DEF Range
<1>5. x \in Range(t)
  BY <1>1, <1>2 DEF Range
<1>6. Range(t) \subseteq Range(s) \cup {x}
  BY <1>3 DEF Range
<1>7. Range(s) \subseteq Range(t)
  BY <1>4 DEF Range
<1> QED
  BY <1>5, <1>6, <1>7 DEF t

\* The head of a queue and the rest of it are elements of the queue.
LEMMA RangeTail ==
    ASSUME NEW S, NEW s \in Seq(S), s # <<>>
    PROVE  Range(Tail(s)) \subseteq Range(s) /\ Head(s) \in Range(s)
<1>1. /\ Tail(s) \in Seq(S) /\ Len(s) \in Nat \ {0} /\ Head(s) = s[1]
      /\ Len(Tail(s)) = Len(s) - 1
      /\ \A i \in 1..(Len(s) - 1) : Tail(s)[i] = s[i + 1]
  BY HeadTail
<1>2. DOMAIN Tail(s) = 1..(Len(s) - 1) /\ DOMAIN s = 1..Len(s)
  BY <1>1
<1>3. \A i \in DOMAIN Tail(s) : i + 1 \in DOMAIN s /\ Tail(s)[i] = s[i + 1]
  BY <1>1, <1>2
<1>4. 1 \in DOMAIN s
  BY <1>1, <1>2
<1> QED
  BY <1>1, <1>3, <1>4 DEF Range

\* The empty list has no element.
LEMMA RangeEmpty == Range(<<>>) = {}
BY DEF Range

\* How often a sequence holds an element of a set.
Hits(s, T) == Cardinality({j \in DOMAIN s : s[j] \in T})

\* How many elements of a list are in a set is a number, 0 if there is none.
LEMMA HitsType ==
    ASSUME NEW S, NEW s \in Seq(S), NEW T
    PROVE  /\ Hits(s, T) \in Nat
           /\ IsFiniteSet({j \in DOMAIN s : s[j] \in T})
           /\ Hits(s, T) = 0 => \A x \in Range(s) : x \notin T
<1> DEFINE H == {j \in DOMAIN s : s[j] \in T}
<1>1. IsFiniteSet(1..Len(s)) /\ DOMAIN s = 1..Len(s)
  BY FS_Interval
<1>2. IsFiniteSet(H)
  BY <1>1, FS_Subset
<1>3. Hits(s, T) \in Nat
  BY <1>2, FS_CardinalityType DEF Hits
<1>4. ASSUME Hits(s, T) = 0, NEW x \in Range(s)
      PROVE  x \notin T
  <2>1. H = {}
    BY <1>2, <1>4, FS_EmptySet DEF Hits
  <2>2. PICK j \in DOMAIN s : s[j] = x
    BY DEF Range
  <2> QED
    BY <2>1, <2>2
<1> QED
  BY <1>2, <1>3, <1>4

\* An element in the set counts; if it is the only one, it has one place.
LEMMA HitsSome ==
    ASSUME NEW S, NEW s \in Seq(S), NEW T, NEW j \in DOMAIN s, s[j] \in T
    PROVE  /\ Hits(s, T) # 0
           /\ Hits(s, T) = 1 => \A i \in DOMAIN s : s[i] \in T => i = j
<1> DEFINE H == {i \in DOMAIN s : s[i] \in T}
<1>1. IsFiniteSet(H) /\ j \in H
  BY HitsType
<1>2. Hits(s, T) # 0
  BY HitsType DEF Range
<1>3. ASSUME Hits(s, T) = 1 PROVE \A i \in H : i = j
  <2> HIDE DEF H
  <2>1. \E x : H = {x}
    BY <1>1, <1>3, FS_Singleton DEF Hits, H
  <2> QED
    BY <1>1, <2>1
<1> QED
  BY <1>2, <1>3

\* The empty list has no hit.
LEMMA HitsEmpty == \A T : Hits(<<>>, T) = 0
<1> TAKE T
<1>1. {j \in DOMAIN <<>> : <<>>[j] \in T} = {}
  OBVIOUS
<1> QED
  BY <1>1, FS_EmptySet DEF Hits

\* An element added counts once if it is in the set.
LEMMA HitsAppend ==
    ASSUME NEW S, NEW s \in Seq(S), NEW x \in S, NEW T
    PROVE  Hits(Append(s, x), T) = Hits(s, T) + (IF x \in T THEN 1 ELSE 0)
<1> DEFINE t == Append(s, x)
           n == Len(s) + 1
           H == {j \in DOMAIN s : s[j] \in T}
           G == {j \in DOMAIN t : t[j] \in T}
<1>1. /\ Len(s) \in Nat
      /\ DOMAIN t = 1..n /\ DOMAIN s = 1..Len(s)
      /\ t[n] = x
      /\ \A i \in 1..Len(s) : t[i] = s[i]
  BY Appended
<1>2. IsFiniteSet(H) /\ Cardinality(H) \in Nat /\ n \notin H
  <2>1. IsFiniteSet(H) /\ Cardinality(H) \in Nat
    BY HitsType DEF Hits
  <2>2. n \notin H
    BY <1>1
  <2> QED
    BY <2>1, <2>2
<1> HIDE DEF t
<1>3. CASE x \in T
  <2>1. G = H \cup {n}
    BY <1>1, <1>3
  <2> HIDE DEF H, G
  <2>2. Cardinality(G) = Cardinality(H) + 1
    BY <1>2, <2>1, FS_AddElement
  <2> QED
    BY <1>3, <2>2 DEF Hits, t, H, G
<1>4. CASE x \notin T
  <2>1. G = H
    BY <1>1, <1>4
  <2> HIDE DEF H, G
  <2>2. Cardinality(G) = Cardinality(H) + 0
    BY <1>2, <2>1
  <2> QED
    BY <1>4, <2>2 DEF Hits, t, H, G
<1> QED
  BY <1>3, <1>4

\* So does an element taken off the head.
LEMMA HitsTail ==
    ASSUME NEW S, NEW s \in Seq(S), s # <<>>, NEW T
    PROVE  Hits(s, T) = Hits(Tail(s), T) + (IF Head(s) \in T THEN 1 ELSE 0)
<1> DEFINE t == Tail(s)
           H == {j \in DOMAIN s : s[j] \in T}
           G == {j \in DOMAIN t : t[j] \in T}
           F == {j + 1 : j \in G}
           f == [j \in G |-> j + 1]
<1>1. /\ t \in Seq(S) /\ Len(s) \in Nat \ {0} /\ Head(s) = s[1]
      /\ DOMAIN t = 1..(Len(s) - 1) /\ DOMAIN s = 1..Len(s)
      /\ \A i \in 1..(Len(s) - 1) : t[i] = s[i + 1]
  BY HeadTail
<1>2. IsFiniteSet(G) /\ IsFiniteSet(H) /\ Cardinality(G) \in Nat
  <2>1. G \subseteq 1..(Len(s) - 1) /\ H \subseteq 1..Len(s)
    BY <1>1
  <2>2. IsFiniteSet(1..(Len(s) - 1)) /\ IsFiniteSet(1..Len(s))
    BY <1>1, FS_Interval
  <2> HIDE DEF G, H
  <2>3. IsFiniteSet(G) /\ IsFiniteSet(H)
    BY <2>1, <2>2, FS_Subset
  <2> QED
    BY <2>3, FS_CardinalityType
<1> HIDE DEF t
<1>3. f \in Bijection(G, F)
  <2>1. \A i, j \in G : f[i] = f[j] => i = j
    BY <1>1
  <2>2. f \in [G -> F] /\ \A x \in F : \E j \in G : f[j] = x
    OBVIOUS
  <2> HIDE DEF G, F, f
  <2> QED
    <3>1. f \in Injection(G, F)
      BY <2>1, <2>2 DEF Injection, IsInjective
    <3>2. f \in Surjection(G, F)
      BY <2>2 DEF Surjection
    <3> QED
      BY <3>1, <3>2 DEF Bijection
<1>4. ExistsBijection(G, F)
  BY <1>3 DEF ExistsBijection
<1>5. IsFiniteSet(F) /\ Cardinality(F) = Cardinality(G) /\ 1 \notin F
  <2>1. 1 \notin F
    BY <1>1
  <2> HIDE DEF G, F, f
  <2> QED
    BY <1>2, <1>4, <2>1, FS_Bijection
<1>6. \A j \in H : j = 1 \/ j \in F
  <2> TAKE j \in H
  <2>1. j # 1 => j - 1 \in G /\ (j - 1) + 1 = j
    BY <1>1
  <2> QED
    BY <2>1
<1>7. F \subseteq H
  BY <1>1
<1>8. CASE Head(s) \in T
  <2>1. H = F \cup {1}
    BY <1>1, <1>6, <1>7, <1>8
  <2> HIDE DEF H, G, F
  <2>2. Cardinality(H) = Cardinality(G) + 1
    BY <1>5, <2>1, FS_AddElement
  <2> QED
    BY <1>8, <2>2 DEF Hits, t, H, G
<1>9. CASE Head(s) \notin T
  <2>1. H = F
    BY <1>1, <1>6, <1>7, <1>9
  <2> HIDE DEF H, G, F
  <2>2. Cardinality(H) = Cardinality(G) + 0
    BY <1>2, <1>5, <2>1
  <2> QED
    BY <1>9, <2>2 DEF Hits, t, H, G
<1> QED
  BY <1>8, <1>9

-----------------------------------------------------------------------------
(* Types *)

\* The source that is being read.
LEMMA SourceType ==
    ASSUME TypeOK, src <= Len(config.sources)
    PROVE  /\ Source \in Sources
           /\ Source.label \in Labels
           /\ Source.lines \in Seq(Nodes \cup {Blank, Bad})
           /\ src <= MaxSources
<1>1. config \in ConfigSpace /\ Len(config.sources) <= MaxSources
  BY ConfigAssumption DEF TypeOK
<1>2. config.sources \in Seq(Sources)
  BY <1>1 DEF ConfigSpace
<1>3. Source \in Sources
  BY <1>2 DEF Source, TypeOK
<1>4. MaxSources \in Nat /\ Len(config.sources) \in Nat
  BY <1>2, ConfigAssumption
<1> QED
  BY <1>1, <1>3, <1>4 DEF Sources, TypeOK

\* Within the run a label and a number make a name.
LEMMA OriginType ==
    ASSUME NEW x \in Labels, NEW n \in 1..MaxSources
    PROVE  OriginName(x, n) \in Names
<1>1. CASE n = 1
  BY <1>1, ConfigAssumption DEF OriginName
<1>2. CASE n # 1
  <2>1. <<x, n>> \in Labels \X (2..MaxSources)
    BY <1>2, ConfigAssumption
  <2>2. Numbered[<<x, n>>] \in Names
    BY <2>1, ConfigAssumption
  <2> QED
    BY <1>2, <2>2 DEF OriginName
<1> QED
  BY <1>1, <1>2

\* A host name is pinned to an address that was public in the answer.
LEMMA FirstPublicIsPublic ==
    ASSUME NEW infos, NEW ip \in FirstPublic(infos)
    PROVE  ip \in PublicIPs /\ ip \in IPs
BY AnswersAssumption DEF FirstPublic

\* Every stage takes its nodes from the front of its queue.
LEMMA HandleType ==
    ASSUME TypeOK, NEW stage, Handle(stage)
    PROVE  /\ Head(queue) \in Wrappers
           /\ queue' \in Seq(Wrappers)
           /\ pc = stage /\ pc' = pc
           /\ UNCHANGED <<config, error, src, pos, names, seen, nodes, errors,
                          ranked, rows>>
BY DEF TypeOK, Handle, ingestVars

\* What a stage writes on a node leaves the rest of it alone.
SameLine(v, w) ==
    v.node = w.node /\ v.at = w.at /\ v.origin = w.origin /\ v.line = w.line

\* A line that is pinned is the same line.
LEMMA PinnedType ==
    ASSUME NEW w \in Wrappers, NEW ip \in IPs
    PROVE  /\ Pinned(w, ip) \in Wrappers
           /\ SameLine(Pinned(w, ip), w)
           /\ Pinned(w, ip).ip = ip /\ Pinned(w, ip).measured = w.measured
BY DEF Wrappers, Pinned, SameLine

\* A line that gets its measurements is the same line.
LEMMA AttachedType ==
    ASSUME NEW w \in Wrappers, NEW m \in {"one", "two"}, NEW r \in BOOLEAN
    PROVE  /\ Attached(w, m, r) \in Wrappers
           /\ SameLine(Attached(w, m, r), w)
           /\ Attached(w, m, r).ip = w.ip /\ Attached(w, m, r).measured = m
<1> DEFINE M == [w EXCEPT !.measured = m]
           v == [M EXCEPT !.inRange = r]
<1>1. M \in Wrappers /\ SameLine(M, w) /\ M.ip = w.ip /\ M.measured = m
  BY DEF Wrappers, SameLine
<1> HIDE DEF M
<1>2. v \in Wrappers /\ SameLine(v, M) /\ v.ip = M.ip /\ v.measured = M.measured
  BY <1>1 DEF Wrappers, SameLine
<1> HIDE DEF v
<1>3. v \in Wrappers /\ SameLine(v, w) /\ v.ip = w.ip /\ v.measured = m
  BY <1>1, <1>2 DEF SameLine
<1> QED
  BY <1>3 DEF v, M, Attached

\* What the six stages that take one node at a time do with it, of all that the
\* properties ask about: the node is handed on, dropped, failed or given its
\* outcome; dedup drops it if its key has been kept; one that is handed on is still
\* the same line; only the lookups pin an
\* address, only the measurer measures; and a component of the run hands on no node
\* that it has not dialled, at its pinned and public address.
Stages == {"dedup", "dns", "tcp", "handshake", "measure", "score"}
Diallers == {"tcp", "handshake", "measure"}

Provided(stage) ==
    CASE stage = "tcp" -> config.tcp
      [] stage = "handshake" -> config.handshake
      [] stage = "measure" -> config.measurer

\* A host name has no address but a public one.
PinnedPublic(w) == w.node.host = Hostname /\ w.ip # NoIP => w.ip \in PublicIPs

Onward(w, v) ==
    /\ SameLine(v, w)
    /\ IF pc = "dns" THEN PinnedPublic(v) ELSE v.ip = w.ip
    /\ v.measured # "none" => w.measured # "none" \/ (pc = "measure" /\ config.measurer)

Dials1(w) == pc \in Diallers /\ Provided(pc) /\ w.ip \in PublicIPs /\ Dial(w)

HandedOn(w) ==
    /\ pc # "score"
    /\ pc = "dedup" => \A v \in Range(out) : v.node.key # w.node.key
    /\ \E v \in Wrappers : Onward(w, v) /\ out' = Append(out, v)
    /\ UNCHANGED <<dropped, failed, outcomes>>
    /\ IF pc \in Diallers /\ Provided(pc) THEN Dials1(w) ELSE UNCHANGED dials
DroppedNow(w) ==
    /\ pc = "dedup"
    /\ \E v \in Range(out) : v.node.key = w.node.key
    /\ dropped' = Append(dropped, w)
    /\ UNCHANGED <<out, failed, outcomes, dials>>
FailedNow(w) ==
    /\ pc \in LiveStages
    /\ failed' = Append(failed, [w |-> w, stage |-> pc])
    /\ UNCHANGED <<out, dropped, outcomes>>
    /\ Dials1(w) \/ UNCHANGED dials
ScoredNow(w) ==
    /\ pc = "score"
    /\ outcomes' = Append(outcomes, [w |-> w, scored |-> Scored(w)])
    /\ UNCHANGED <<out, dropped, failed, dials>>

Handled ==
    /\ pc \in Stages
    /\ Handle(pc)
    /\ LET w == Head(queue)
       IN  HandedOn(w) \/ DroppedNow(w) \/ FailedNow(w) \/ ScoredNow(w)

\* The three dialling stages move the head of the queue and nothing else.
LEMMA DialStage ==
    ASSUME TypeOK, TcpConnect \/ Handshake \/ Measure
    PROVE  Handled
<1> DEFINE w == Head(queue)
<1>1. CASE TcpConnect
  <2>1. Handle("tcp")
    BY <1>1 DEF TcpConnect, Probe
  <2>2. w \in Wrappers /\ pc = "tcp"
    BY <2>1, HandleType
  <2>3. Onward(w, w) /\ pc \in Diallers /\ pc \in Stages /\ pc \in LiveStages
    BY <2>2 DEF Onward, SameLine, Diallers, Stages, LiveStages
  <2>4. Provided(pc) = config.tcp
    BY <2>2 DEF Provided
  <2> HIDE DEF w
  <2>5. HandedOn(w) \/ FailedNow(w)
    BY <1>1, <2>2, <2>3, <2>4
    DEF TcpConnect, Probe, HandedOn, FailedNow, Dials1, Keep, Fail, Allowed, w
  <2> QED
    BY <2>1, <2>2, <2>3, <2>5 DEF Handled, w
<1>2. CASE Handshake
  <2>1. Handle("handshake")
    BY <1>2 DEF Handshake, Probe
  <2>2. w \in Wrappers /\ pc = "handshake"
    BY <2>1, HandleType
  <2>3. Onward(w, w) /\ pc \in Diallers /\ pc \in Stages /\ pc \in LiveStages
    BY <2>2 DEF Onward, SameLine, Diallers, Stages, LiveStages
  <2>4. Provided(pc) = config.handshake
    BY <2>2 DEF Provided
  <2> HIDE DEF w
  <2>5. HandedOn(w) \/ FailedNow(w)
    BY <1>2, <2>2, <2>3, <2>4
    DEF Handshake, Probe, HandedOn, FailedNow, Dials1, Keep, Fail, Allowed, w
  <2> QED
    BY <2>1, <2>2, <2>3, <2>5 DEF Handled, w
<1>3. CASE Measure
  <2>1. Handle("measure")
    BY <1>3 DEF Measure, Probe
  <2>2. w \in Wrappers /\ pc = "measure"
    BY <2>1, HandleType
  <2> DEFINE measured == {Attached(w, m, r) : m \in {"one", "two"}, r \in BOOLEAN}
  <2>3. ASSUME NEW v \in measured, config.measurer
        PROVE  v \in Wrappers /\ Onward(w, v)
    <3>1. PICK m \in {"one", "two"}, r \in BOOLEAN : v = Attached(w, m, r)
      OBVIOUS
    <3> DEFINE a == Attached(w, m, r)
    <3>2. a \in Wrappers /\ SameLine(a, w) /\ a.ip = w.ip /\ a.measured = m
      <4> HIDE DEF w
      <4>1. m \in {"one", "two"} /\ r \in BOOLEAN
        OBVIOUS
      <4> QED
        BY <2>2, <4>1, AttachedType, SMTT(30)
    <3> HIDE DEF a
    <3>3. v = a
      BY <3>1 DEF a
    <3> QED
      BY <2>2, <2>3, <3>2, <3>3 DEF Onward, SameLine
  <2>4. pc \in Diallers /\ pc \in Stages /\ pc \in LiveStages
    BY <2>2 DEF Diallers, Stages, LiveStages
  <2>5. Provided(pc) = config.measurer /\ Onward(w, w)
    BY <2>2 DEF Provided, Onward, SameLine
  <2> HIDE DEF w
  <2>6. HandedOn(w) \/ FailedNow(w)
    BY <1>3, <2>2, <2>3, <2>4, <2>5
    DEF Measure, Probe, HandedOn, FailedNow, Dials1, Keep, Fail, Allowed, w
  <2> QED
    BY <2>1, <2>2, <2>4, <2>6 DEF Handled, w
<1> QED
  BY <1>1, <1>2, <1>3

\* So does every stage that goes node by node.
LEMMA StageStep ==
    ASSUME TypeOK, Dedup \/ Resolve \/ TcpConnect \/ Handshake \/ Measure \/ Score
    PROVE  Handled
<1> DEFINE w == Head(queue)
<1>1. CASE Dedup
  <2>1. Handle("dedup")
    BY <1>1 DEF Dedup
  <2>2. w \in Wrappers /\ pc = "dedup"
    BY <2>1, HandleType
  <2>3. Onward(w, w) /\ pc \notin Diallers /\ pc \in Stages
    BY <2>2 DEF Onward, SameLine, Diallers, Stages
  <2> HIDE DEF w
  <2>4. HandedOn(w) \/ DroppedNow(w)
    BY <1>1, <2>2, <2>3 DEF Dedup, HandedOn, DroppedNow, Keep, w
  <2> QED
    BY <2>1, <2>2, <2>3, <2>4 DEF Handled, w
<1>2. CASE Resolve
  <2>1. Handle("dns")
    BY <1>2 DEF Resolve
  <2>2. w \in Wrappers /\ pc = "dns"
    BY <2>1, HandleType
  <2>3. pc \notin Diallers /\ pc \in Stages /\ pc \in LiveStages
    BY <2>2 DEF Diallers, Stages, LiveStages
  <2>4. ASSUME NEW ip \in IPs, w.node.host = Hostname => ip \in PublicIPs
        PROVE  Pinned(w, ip) \in Wrappers /\ Onward(w, Pinned(w, ip))
    <3> DEFINE v == Pinned(w, ip)
    <3> HIDE DEF w
    <3>1. v \in Wrappers /\ SameLine(v, w) /\ v.ip = ip /\ v.measured = w.measured
      BY <2>2, PinnedType
    <3> HIDE DEF v
    <3>2. Onward(w, v)
      BY <2>2, <2>4, <3>1 DEF Onward, SameLine, PinnedPublic
    <3> QED
      BY <3>1, <3>2 DEF v
  <2>5. w.node.host # Hostname => w.node.host \in IPs
    BY <2>2 DEF Wrappers, Nodes
  <2> HIDE DEF w
  <2>6. HandedOn(w) \/ FailedNow(w)
    <3>1. UNCHANGED <<dropped, outcomes, dials>>
      BY <1>2 DEF Resolve
    <3>2. \/ Fail(w) /\ UNCHANGED out
          \/ /\ UNCHANGED failed
             /\ \E ip \in IPs : /\ w.node.host = Hostname => ip \in PublicIPs
                                /\ Keep(Pinned(w, ip))
      BY <1>2, <2>5, FirstPublicIsPublic DEF Resolve, w
    <3> QED
      BY <2>2, <2>3, <2>4, <3>1, <3>2 DEF HandedOn, FailedNow, Keep, Fail
  <2> QED
    BY <2>1, <2>2, <2>3, <2>6 DEF Handled, w
<1>3. CASE Score
  <2>1. Handle("score")
    BY <1>3 DEF Score
  <2>2. pc = "score" /\ pc \in Stages
    BY <2>1, HandleType DEF Stages
  <2> QED
    BY <1>3, <2>1, <2>2 DEF Score, ScoredNow, Handled
<1> QED
  BY <1>1, <1>2, <1>3, DialStage

\* Moving the head of the queue keeps the types.
LEMMA HandledType ==
    ASSUME TypeOK, Handled
    PROVE  TypeOK' /\ UNCHANGED <<config, src, pos, names>>
<1> DEFINE w == Head(queue)
<1>1. /\ w \in Wrappers /\ queue' \in Seq(Wrappers) /\ pc' = pc
      /\ UNCHANGED <<config, error, src, pos, names, seen, nodes, errors, ranked, rows>>
  BY HandleType DEF Handled
<1>2. /\ out \in Seq(Wrappers) /\ dropped \in Seq(Wrappers) /\ failed \in Seq(Losses)
      /\ outcomes \in Seq(Outcomes) /\ dials \subseteq Dials
  BY DEF TypeOK
<1>3. Dials1(w) \/ UNCHANGED dials
  BY DEF Handled, HandedOn, DroppedNow, FailedNow, ScoredNow
<1>4. dials' \subseteq Dials
  <2>1. CASE Dials1(w)
    <3>1. [at |-> w.at, stage |-> pc, ip |-> w.ip] \in Dials
      BY <1>1, <2>1, AnswersAssumption DEF Wrappers, Dials, LiveStages, Dials1, Diallers
    <3> QED
      BY <1>2, <2>1, <3>1 DEF Dial, Dials1
  <2> QED
    BY <1>2, <1>3, <2>1
<1>5. HandedOn(w) \/ DroppedNow(w) \/ FailedNow(w) \/ ScoredNow(w)
  BY DEF Handled
<1> HIDE DEF w
<1>6. CASE HandedOn(w)
  <2>1. out' \in Seq(Wrappers)
    BY <1>2, <1>6, AppendType DEF HandedOn
  <2> QED
    BY <1>1, <1>2, <1>4, <1>6, <2>1 DEF HandedOn, TypeOK
<1>7. CASE DroppedNow(w)
  <2>1. dropped' \in Seq(Wrappers)
    BY <1>1, <1>2, <1>7, AppendType DEF DroppedNow
  <2> QED
    BY <1>1, <1>2, <1>4, <1>7, <2>1 DEF DroppedNow, TypeOK
<1>8. CASE FailedNow(w)
  <2> DEFINE x == [w |-> w, stage |-> pc]
  <2>1. x \in Losses
    BY <1>1, <1>8 DEF Losses, FailedNow
  <2>2. failed' = Append(failed, x)
    BY <1>8 DEF FailedNow
  <2> HIDE DEF x
  <2>3. failed' \in Seq(Losses)
    BY <1>2, <2>1, <2>2, AppendType
  <2> QED
    BY <1>1, <1>2, <1>4, <1>8, <2>3 DEF FailedNow, TypeOK
<1>9. CASE ScoredNow(w)
  <2> DEFINE x == [w |-> w, scored |-> Scored(w)]
  <2>1. x \in Outcomes
    BY <1>1 DEF Outcomes, Scored, Wrappers
  <2>2. outcomes' = Append(outcomes, x)
    BY <1>9 DEF ScoredNow
  <2> HIDE DEF x
  <2>3. outcomes' \in Seq(Outcomes)
    BY <1>2, <2>1, <2>2, AppendType
  <2> QED
    BY <1>1, <1>2, <1>4, <1>9, <2>3 DEF ScoredNow, TypeOK
<1> QED
  BY <1>5, <1>6, <1>7, <1>8, <1>9

\* The status and the stage of a row are those the loops write.
LEMMA RowType ==
    ASSUME TypeOK, NEW k \in Names \X Nat
    PROVE  Row(k) \in Rows
<1>1. Verdict(k)[1] \in Statuses
      /\ Verdict(k)[2] \in LiveStages \cup {"", "ingest", "dedup", "score"}
  <2>1. Failures(k) # {} => failed[Max(Failures(k))].stage \in LiveStages
    <3>1. Failures(k) \in SUBSET (1..Len(failed)) /\ Len(failed) \in Nat
      BY DEF Failures, TypeOK
    <3>2. Failures(k) # {} => Max(Failures(k)) \in 1..Len(failed)
      BY <3>1, LastPosition
    <3>3. \A i \in 1..Len(failed) : failed[i] \in Losses
      BY DEF TypeOK
    <3>4. Failures(k) # {} => failed[Max(Failures(k))] \in Losses
      BY <3>2, <3>3
    <3> QED
      BY <3>4 DEF Losses
  <2> QED
    BY <2>1 DEF Verdict, Statuses
<1>2. Ranks(k) # {} => Max(Ranks(k)) \in Nat
  <2>1. Ranks(k) \in SUBSET (1..Len(ranked)) /\ Len(ranked) \in Nat
    BY DEF Ranks, TypeOK
  <2>2. Ranks(k) # {} => Max(Ranks(k)) \in Ranks(k)
    BY <2>1, LastPosition
  <2> QED
    BY <2>1, <2>2
<1> QED
  BY <1>1, <1>2 DEF Row, Rows

\* The names of the sources are settled by ingest alone.
LEMMA NamingKept ==
    ASSUME Naming, UNCHANGED <<config, src, pos, names>>
    PROVE  Naming'
BY DEF Naming, Source

\* The steps of ingest keep the types.
LEMMA IngestTyping ==
    ASSUME Typing, OpenSource \/ ReadLine \/ CloseSource \/ EndIngest
    PROVE  Typing'
<1> USE DEF Typing
<1>0. /\ src \in Nat \ {0} /\ pos \in Nat /\ seen \in Nat /\ names \in [Labels -> Nat]
      /\ nodes \in Seq(Wrappers) /\ errors \in Seq(Rejections) /\ MaxSources \in Nat
  BY ConfigAssumption DEF TypeOK
<1>1. CASE OpenSource
  <2>1. src <= Len(config.sources) /\ pos = 0
    BY <1>1 DEF OpenSource
  <2>2. Source.label \in Labels /\ src <= MaxSources
    BY <2>1, SourceType
  <2>3. names' = [names EXCEPT ![Source.label] = @ + 1]
    BY <1>1 DEF OpenSource
  <2>4. FileError(Source.label) \in Rejections
    <3>1. names[Source.label] + 1 \in 1..MaxSources
      BY <1>0, <2>1, <2>2 DEF Naming
    <3>2. OriginName(Source.label, names[Source.label] + 1) \in Names
      BY <2>2, <3>1, OriginType
    <3>3. <<src, 0>> \in Nat \X Nat
      BY <1>0
    <3> QED
      BY <1>0, <3>2, <3>3 DEF FileError, Rejections
  <2>5. errors' \in Seq(Rejections)
    <3>1. errors' = errors \/ errors' = Append(errors, FileError(Source.label))
      BY <1>1 DEF OpenSource
    <3> QED
      BY <1>0, <2>4, <3>1, AppendType
  <2>6. \/ pos' = 1 /\ src' = src
        \/ pos' = 0 /\ src' = src + 1
    BY <1>1, <2>1 DEF OpenSource, AfterFailure
  <2>7. names' \in [Labels -> Nat]
    BY <1>0, <2>2, <2>3
  <2>8. UNCHANGED <<config, pc, error, seen, nodes, queue, out, dropped, failed,
                    outcomes, ranked, rows, dials>>
    BY <1>1 DEF OpenSource
  <2>9. TypeOK'
    BY <1>0, <2>5, <2>6, <2>7, <2>8, SMTT(30) DEF TypeOK
  <2>10. Naming'
    <3>1. \A x \in Labels : names'[x] <= src
      BY <1>0, <2>1, <2>2, <2>3 DEF Naming
    <3>2. names'[Source.label] >= 1
      BY <1>0, <2>2, <2>3
    <3>3. CASE pos' = 1 /\ src' = src
      BY <1>0, <2>1, <2>8, <3>1, <3>2, <3>3 DEF Naming, Source
    <3>4. CASE pos' = 0 /\ src' = src + 1
      BY <1>0, <3>1, <3>4 DEF Naming
    <3> QED
      BY <2>6, <3>3, <3>4
  <2> QED
    BY <2>9, <2>10
<1>2. CASE ReadLine
  <2>1. pos > 0 /\ src <= Len(config.sources) /\ names[Source.label] >= 1
    BY <1>2 DEF ReadLine, Naming
  <2>2. Source.label \in Labels /\ src <= MaxSources
    BY <2>1, SourceType
  <2>3. names[Source.label] \in 1..MaxSources
    BY <1>0, <2>1, <2>2 DEF Naming
  <2>4. OriginName(Source.label, names[Source.label]) \in Names
    BY <2>2, <2>3, OriginType
  <2> DEFINE line == Source.lines[pos]
             origin == OriginName(Source.label, names[Source.label])
             e == [origin |-> origin, line |-> seen + 1, at |-> <<src, pos>>]
             w == [node |-> line, origin |-> origin, line |-> seen + 1,
                   at |-> <<src, pos>>, ip |-> NoIP, measured |-> "none",
                   inRange |-> FALSE]
  <2>5. <<src, pos>> \in Nat \X Nat /\ seen + 1 \in Nat
    BY <1>0
  <2>6. e \in Rejections
    BY <2>4, <2>5 DEF Rejections
  <2>7. line \in Nodes => w \in Wrappers
    BY <2>4, <2>5 DEF Wrappers
  <2>8. /\ \/ errors' = errors
           \/ errors' = Append(errors, e)
        /\ \/ nodes' = nodes
           \/ line \in Nodes /\ nodes' = Append(nodes, w)
    BY <1>2 DEF ReadLine
  <2> HIDE DEF e, w, line
  <2>9. errors' \in Seq(Rejections) /\ nodes' \in Seq(Wrappers)
    <3>1. errors' \in Seq(Rejections)
      BY <1>0, <2>6, <2>8, AppendType
    <3>2. nodes' \in Seq(Wrappers)
      BY <1>0, <2>7, <2>8, AppendType
    <3> QED
      BY <3>1, <3>2
  <2>10. pos' = pos + 1 /\ seen' = seen + 1
    BY <1>2 DEF ReadLine
  <2>11. UNCHANGED <<config, pc, error, src, names, queue, out, dropped, failed,
                     outcomes, ranked, rows, dials>>
    BY <1>2 DEF ReadLine
  <2>12. TypeOK'
    BY <1>0, <2>9, <2>10, <2>11 DEF TypeOK
  <2>13. Naming'
    BY <1>0, <2>1, <2>10, <2>11 DEF Naming, Source
  <2> QED
    BY <2>12, <2>13
<1>3. CASE CloseSource
  <2>1. pos > 0 /\ pos' = 0 /\ src' = src + 1
    BY <1>3 DEF CloseSource
  <2>2. UNCHANGED <<config, pc, error, names, seen, nodes, errors, queue, out,
                    dropped, failed, outcomes, ranked, rows, dials>>
    BY <1>3 DEF CloseSource
  <2>3. TypeOK'
    BY <1>0, <2>1, <2>2 DEF TypeOK
  <2>4. Naming'
    BY <1>0, <2>1, <2>2 DEF Naming
  <2> QED
    BY <2>3, <2>4
<1>4. CASE EndIngest
  <2>1. pc' = "dedup" /\ queue' = nodes
    BY <1>4 DEF EndIngest
  <2>2. UNCHANGED <<config, error, src, pos, names, seen, nodes, errors, out, dropped,
                    failed, outcomes, ranked, rows, dials>>
    BY <1>4 DEF EndIngest, ingestVars
  <2>3. TypeOK'
    BY <2>1, <2>2 DEF TypeOK
  <2> QED
    BY <2>2, <2>3, NamingKept
<1> QED
  BY <1>1, <1>2, <1>3, <1>4

\* The stages keep the types.
LEMMA StageTyping ==
    ASSUME Typing, Handled \/ AnnotateGeo \/ NextStage
    PROVE  Typing'
<1>0. TypeOK /\ Naming /\ out \in Seq(Wrappers) /\ queue \in Seq(Wrappers)
  BY DEF Typing, TypeOK
<1>1. CASE Handled
  BY <1>0, <1>1, HandledType, NamingKept DEF Typing
<1>2. CASE AnnotateGeo
  <2>1. out' = queue /\ queue' = <<>>
    BY <1>2 DEF AnnotateGeo
  <2>2. UNCHANGED <<config, pc, error, src, pos, names, seen, nodes, errors, dropped,
                    failed, outcomes, ranked, rows, dials>>
    BY <1>2 DEF AnnotateGeo, ingestVars
  <2>3. queue' \in Seq(Wrappers)
    BY <2>1
  <2>4. TypeOK'
    BY <1>0, <2>1, <2>2, <2>3 DEF TypeOK
  <2> QED
    BY <1>0, <2>2, <2>4, NamingKept DEF Typing
<1>3. CASE NextStage
  <2>1. pc' \in {"dns", "geo", "tcp", "handshake", "measure", "score", "rank"}
    BY <1>3 DEF NextStage, Following
  <2>2. queue' = out /\ out' = <<>>
    BY <1>3 DEF NextStage
  <2>3. UNCHANGED <<config, error, src, pos, names, seen, nodes, errors, dropped, failed,
                    outcomes, ranked, rows, dials>>
    BY <1>3 DEF NextStage, ingestVars
  <2>4. out' \in Seq(Wrappers)
    BY <2>2
  <2>5. TypeOK'
    BY <1>0, <2>1, <2>2, <2>3, <2>4 DEF TypeOK, LiveStages
  <2> QED
    BY <1>0, <2>3, <2>5, NamingKept DEF Typing
<1> QED
  BY <1>1, <1>2, <1>3

\* The scored nodes are finitely many.
LEMMA ScoredType ==
    ASSUME TypeOK
    PROVE  ScoredNodes \subseteq Wrappers /\ IsFiniteSet(ScoredNodes)
<1>1. Range(outcomes) \subseteq Outcomes /\ IsFiniteSet(Range(outcomes))
  BY RangeType DEF TypeOK
<1> DEFINE S == {x \in Range(outcomes) : x.scored}
<1>2. S \subseteq Outcomes /\ IsFiniteSet(S)
  BY <1>1, FS_Subset
<1>3. ScoredNodes \subseteq Wrappers
  BY <1>2 DEF ScoredNodes, Outcomes
<1> DEFINE f == [o \in S |-> o.w]
<1>4. f \in Surjection(S, ScoredNodes)
  BY DEF Surjection, ScoredNodes
<1> HIDE DEF S, f
<1> QED
  BY <1>2, <1>3, <1>4, FS_Surjection

\* The ranking is a list of scored nodes.
LEMMA RankType ==
    ASSUME TypeOK, Rank
    PROVE  /\ ranked' \in Seq(Wrappers)
           /\ ranked' = ranked \/ Range(ranked') \subseteq ScoredNodes
<1>1. CASE UNCHANGED ranked
  BY <1>1 DEF TypeOK
<1>2. CASE ~UNCHANGED ranked
  <2> DEFINE n == Cardinality(ScoredNodes)
  <2>1. n \in Nat
    BY ScoredType, FS_CardinalityType
  <2>2. config.top_n # 0 /\ (config.top_n = NoLimit \/ config.top_n \in Nat)
    BY <1>2, ConfigAssumption DEF Rank, TypeOK, ConfigSpace
  <2>3. PICK order \in Bijection(1..n, ScoredNodes) :
           ranked' = IF config.top_n = NoLimit \/ config.top_n >= n
                     THEN order ELSE SubSeq(order, 1, config.top_n)
    BY <1>2 DEF Rank
  <2>4. order \in [1..n -> ScoredNodes]
    BY <2>3 DEF Bijection, Injection
  <2> HIDE DEF n
  <2>5. order \in Seq(ScoredNodes) /\ Len(order) = n
    BY <2>1, <2>4
  <2>6. ranked' \in Seq(ScoredNodes)
    <3>1. CASE ranked' = order
      BY <2>5, <3>1
    <3>2. CASE config.top_n \in Nat /\ config.top_n < n /\ ranked' = SubSeq(order, 1, config.top_n)
      BY <2>1, <2>2, <2>5, <3>2
    <3> QED
      BY <2>1, <2>2, <2>3, <3>1, <3>2
  <2>7. Range(ranked') \subseteq ScoredNodes
    BY <2>6, RangeType
  <2>8. ranked' \in Seq(Wrappers)
    BY <2>6, ScoredType
  <2> QED
    BY <2>7, <2>8
<1> QED
  BY <1>1, <1>2

\* What follows the stages keeps the types.
LEMMA EndTyping ==
    ASSUME Typing, CheckInputs \/ Rank \/ BuildOutputs \/ WriteOutputs \/ MergeReports
    PROVE  Typing'
<1>0. TypeOK /\ Naming
  BY DEF Typing
<1>1. CASE CheckInputs
  BY <1>0, <1>1, NamingKept DEF CheckInputs, TypeOK, Typing, ingestVars
<1>2. CASE Rank
  BY <1>0, <1>2, RankType, NamingKept DEF Rank, TypeOK, Typing, ingestVars
<1>3. CASE BuildOutputs
  BY <1>0, <1>3, NamingKept DEF BuildOutputs, TypeOK, Typing, ingestVars
<1>4. CASE WriteOutputs
  BY <1>0, <1>4, NamingKept DEF WriteOutputs, TypeOK, Typing, ingestVars
<1>5. CASE MergeReports
  <2>1. \A e \in Range(errors) : Key(e) \in Names \X Nat
    <3>1. Range(errors) \subseteq Rejections
      BY <1>0, RangeType DEF TypeOK
    <3> QED
      BY <3>1 DEF Rejections, Key
  <2>2. \A w \in Range(nodes) : Key(w) \in Names \X Nat
    <3>1. Range(nodes) \subseteq Wrappers
      BY <1>0, RangeType DEF TypeOK
    <3> QED
      BY <3>1 DEF Wrappers, Key
  <2>3. \A k \in Names \X Nat : Row(k) \in Rows
    BY <1>0, RowType
  <2>4. rows' \subseteq Rows
    BY <1>5, <2>1, <2>2, <2>3 DEF MergeReports
  <2> QED
    BY <1>0, <1>5, <2>4, NamingKept DEF MergeReports, TypeOK, Typing, ingestVars
<1> QED
  BY <1>1, <1>2, <1>3, <1>4, <1>5

\* Types and names hold in every run.
LEMMA TypingHolds == Spec => []Typing
<1>1. Init => Typing
  <2> SUFFICES ASSUME Init PROVE Typing
    OBVIOUS
  <2>1. <<>> \in Seq(Wrappers) /\ <<>> \in Seq(Losses) /\ <<>> \in Seq(Outcomes)
        /\ <<>> \in Seq(Rejections) /\ {} \subseteq Rows /\ {} \subseteq Dials
    OBVIOUS
  <2>2. TypeOK
    BY <2>1 DEF Init, TypeOK
  <2>3. Naming
    BY DEF Init, Naming
  <2> QED
    BY <2>2, <2>3 DEF Typing
<1>2. Typing /\ [Next]_vars => Typing'
  <2> SUFFICES ASSUME Typing, [Next]_vars PROVE Typing'
    OBVIOUS
  <2>0. TypeOK
    BY DEF Typing
  <2>1. CASE OpenSource \/ ReadLine \/ CloseSource \/ EndIngest
    BY <2>1, IngestTyping
  <2>2. CASE Dedup \/ Resolve \/ TcpConnect \/ Handshake \/ Measure \/ Score
    BY <2>0, <2>2, StageStep, StageTyping
  <2>3. CASE AnnotateGeo \/ NextStage
    BY <2>3, StageTyping
  <2>4. CASE CheckInputs \/ Rank \/ BuildOutputs \/ WriteOutputs \/ MergeReports
    BY <2>4, EndTyping
  <2>5. CASE UNCHANGED vars
    BY <2>5 DEF vars, Typing, TypeOK, Naming, Source
  <2> QED
    BY <2>1, <2>2, <2>3, <2>4, <2>5 DEF Next
<1> QED
  BY <1>1, <1>2, PTL DEF Spec

\* Every state of every run has its type: the lists hold nodes, the names stay
\* within the run's, and a row never has a status or a stage that no loop writes.
THEOREM PipelineTypeCorrect == Spec => []TypeOK
<1>1. Typing => TypeOK
  BY DEF Typing
<1> QED
  BY <1>1, TypingHolds, PTL

-----------------------------------------------------------------------------
(* What becomes of the lines *)

\* The places of the source and the line that have been read.
Behind(at) == at[1] < src \/ (at[1] = src /\ at[2] < pos)

\* What stands for a line in the lists of the run, and how often it stands there.
NodesAt(at)    == {w \in Wrappers : w.at = at}
LossesAt(at)   == {f \in Losses : f.w.at = at}
OutcomesAt(at) == {o \in Outcomes : o.w.at = at}
Total(at) ==
    Hits(queue, NodesAt(at)) + Hits(out, NodesAt(at)) + Hits(dropped, NodesAt(at))
        + Hits(failed, LossesAt(at)) + Hits(outcomes, OutcomesAt(at))

\* Until ingest has ended nothing is on its way.
Waiting ==
    /\ pc = "start" => nodes = <<>>
    /\ pc \in {"start", "ingest"} =>
         /\ queue = <<>> /\ out = <<>> /\ dropped = <<>>
         /\ failed = <<>> /\ outcomes = <<>>
         /\ \A i \in DOMAIN nodes : nodes[i].ip = NoIP /\ nodes[i].measured = "none"

\* No two nodes come from one line.
Distinct ==
    /\ \A i \in DOMAIN nodes : Behind(nodes[i].at)
    /\ \A i, j \in DOMAIN nodes : nodes[i].at = nodes[j].at => i = j

\* What is on its way is one of the nodes ingest found.
Comes(w) == \E i \in DOMAIN nodes : SameLine(nodes[i], w)
Travelling ==
    UNION {Range(queue), Range(out), Range(dropped),
           {f.w : f \in Range(failed)}, {o.w : o \in Range(outcomes)}}
Traced == \A w \in Travelling : Comes(w)

\* Each of them is in one place.
Counted ==
    /\ pc = "geo" /\ queue # <<>> => out = <<>>
    /\ pc \notin {"start", "ingest"} => \A i \in DOMAIN nodes : Total(nodes[i].at) = 1

Accounts == Waiting /\ Distinct /\ Traced /\ Counted

\* The steps of ingest, of all that the lines are about: the source and the line
\* only move on, and a node comes from the line that is read.
Ingesting ==
    /\ pc = "ingest" /\ pc' = "ingest"
    /\ UNCHANGED <<config, queue, out, dropped, failed, outcomes, ranked, rows, dials>>
    /\ \A at \in Nat \X Nat : Behind(at) => Behind(at)'
    /\ \/ UNCHANGED nodes
       \/ \E x \in Wrappers :
             /\ nodes' = Append(nodes, x)
             /\ ~Behind(x.at) /\ Behind(x.at)'
             /\ x.ip = NoIP /\ x.measured = "none"

\* The steps of ingest add at most one entry, for the line being read.
LEMMA IngestStep ==
    ASSUME Typing, OpenSource \/ ReadLine \/ CloseSource
    PROVE  Ingesting
<1>0. src \in Nat \ {0} /\ pos \in Nat /\ TypeOK'
  BY IngestTyping DEF Typing, TypeOK
<1>1. CASE OpenSource
  <2>1. /\ pos = 0
        /\ \/ pos' = 1 /\ src' = src
           \/ pos' = 0 /\ src' = src + 1
    BY <1>1 DEF OpenSource, AfterFailure
  <2>2. \A at \in Nat \X Nat : Behind(at) => Behind(at)'
    BY <1>0, <2>1 DEF Behind
  <2> QED
    BY <1>1, <2>2 DEF OpenSource, Ingesting
<1>2. CASE ReadLine
  <2>1. pos' = pos + 1 /\ src' = src
    BY <1>2 DEF ReadLine
  <2>2. \A at \in Nat \X Nat : Behind(at) => Behind(at)'
    BY <1>0, <2>1 DEF Behind
  <2>3. PICK x : /\ x = [node |-> Source.lines[pos],
                          origin |-> OriginName(Source.label, names[Source.label]),
                          line |-> seen + 1, at |-> <<src, pos>>, ip |-> NoIP,
                          measured |-> "none", inRange |-> FALSE]
                 /\ nodes' = nodes \/ nodes' = Append(nodes, x)
    BY <1>2 DEF ReadLine
  <2>4. ~Behind(x.at) /\ Behind(x.at)'
    <3>1. x.at = <<src, pos>>
      BY <2>3
    <3> QED
      BY <1>0, <2>1, <3>1 DEF Behind
  <2>5. x.ip = NoIP /\ x.measured = "none"
    BY <2>3
  <2>6. nodes' = Append(nodes, x) => x \in Wrappers
    <3>1. nodes \in Seq(Wrappers)
      BY DEF Typing, TypeOK
    <3>2. nodes' \in Seq(Wrappers)
      BY <1>0 DEF TypeOK
    <3>3. nodes' = Append(nodes, x) => nodes'[Len(nodes) + 1] = x /\ Len(nodes') = Len(nodes) + 1
      BY <3>1
    <3> QED
      BY <3>1, <3>2, <3>3
  <2>7. \/ UNCHANGED nodes
        \/ \E y \in Wrappers : /\ nodes' = Append(nodes, y)
                                /\ ~Behind(y.at) /\ Behind(y.at)'
                                /\ y.ip = NoIP /\ y.measured = "none"
    <3>1. CASE nodes' = nodes
      BY <3>1
    <3>2. CASE nodes' = Append(nodes, x)
      <4>1. x \in Wrappers
        BY <2>6, <3>2
      <4> QED
        BY <2>4, <2>5, <3>2, <4>1
    <3> QED
      BY <2>3, <3>1, <3>2
  <2> QED
    BY <1>2, <2>2, <2>7 DEF ReadLine, Ingesting
<1>3. CASE CloseSource
  <2>1. pos' = 0 /\ src' = src + 1
    BY <1>3 DEF CloseSource
  <2>2. \A at \in Nat \X Nat : Behind(at) => Behind(at)'
    <3> TAKE at \in Nat \X Nat
    <3>1. at[1] \in Nat
      OBVIOUS
    <3>2. Behind(at) => at[1] < src + 1
      BY <1>0, <3>1 DEF Behind
    <3> QED
      BY <2>1, <3>2 DEF Behind
  <2> QED
    BY <1>3, <2>2 DEF CloseSource, Ingesting
<1> QED
  BY <1>1, <1>2, <1>3

\* What follows the stages touches none of their lists, and ranks what was scored.
Closing ==
    /\ pc \in {"rank", "output", "write", "report"}
    /\ pc' \in {"output", "write", "report", "end"}
    /\ UNCHANGED <<config, src, pos, nodes, queue, out, dropped, failed, outcomes, dials>>
    /\ ranked' = ranked \/ Range(ranked') \subseteq ScoredNodes

\* The steps of a run, as the invariants below see them.
LEMMA Steps ==
    ASSUME Typing, [Next]_vars
    PROVE  \/ CheckInputs \/ Ingesting \/ EndIngest
           \/ Handled \/ AnnotateGeo \/ NextStage
           \/ Closing
           \/ UNCHANGED vars
<1>0. TypeOK
  BY DEF Typing
<1>1. CASE Rank
  BY <1>0, <1>1, RankType DEF Rank, Closing, ingestVars
<1>2. CASE BuildOutputs
  BY <1>2 DEF BuildOutputs, Closing, ingestVars
<1>3. CASE WriteOutputs
  BY <1>3 DEF WriteOutputs, Closing, ingestVars
<1>4. CASE MergeReports
  BY <1>4 DEF MergeReports, Closing, ingestVars
<1> QED
  BY <1>0, <1>1, <1>2, <1>3, <1>4, IngestStep, StageStep DEF Next

\* A stage takes a line from one place to one other.
LEMMA HandledCount ==
    ASSUME TypeOK, Handled, NEW a
    PROVE  Total(a)' = Total(a)
<1> DEFINE w == Head(queue)
           one == IF w.at = a THEN 1 ELSE 0
           N == NodesAt(a)
           L == LossesAt(a)
           O == OutcomesAt(a)
<1>1. /\ queue # <<>> /\ queue' = Tail(queue) /\ w \in Wrappers
      /\ queue \in Seq(Wrappers) /\ out \in Seq(Wrappers) /\ dropped \in Seq(Wrappers)
      /\ failed \in Seq(Losses) /\ outcomes \in Seq(Outcomes)
  BY HandleType DEF Handled, Handle, TypeOK
<1>2. HandedOn(w) \/ DroppedNow(w) \/ FailedNow(w) \/ ScoredNow(w)
  BY DEF Handled
<1>3. (IF w \in N THEN 1 ELSE 0) = one
  BY <1>1 DEF NodesAt
<1> HIDE DEF N, L, O, one
<1>4. Hits(queue, N) = Hits(queue', N) + one
  BY <1>1, <1>3, HitsTail
<1>5. /\ Hits(queue, N) \in Nat /\ Hits(out, N) \in Nat /\ Hits(dropped, N) \in Nat
      /\ Hits(failed, L) \in Nat /\ Hits(outcomes, O) \in Nat
  BY <1>1, HitsType
<1>6. Hits(queue', N) \in Nat /\ one \in Nat
  <2>1. queue' \in Seq(Wrappers)
    BY <1>1
  <2> QED
    BY <2>1, HitsType DEF one
<1> HIDE DEF w
<1>7. CASE HandedOn(w)
  <2>1. PICK v \in Wrappers : Onward(w, v) /\ out' = Append(out, v)
    BY <1>7 DEF HandedOn
  <2>2. (IF v \in N THEN 1 ELSE 0) = one
    BY <2>1 DEF Onward, SameLine, N, NodesAt, one
  <2>3. Hits(out', N) = Hits(out, N) + one
    BY <1>1, <2>1, <2>2, HitsAppend
  <2> QED
    BY <1>4, <1>5, <1>6, <1>7, <2>3 DEF HandedOn, Total, N, L, O
<1>8. CASE DroppedNow(w)
  <2>1. Hits(dropped', N) = Hits(dropped, N) + one
    BY <1>1, <1>3, <1>8, HitsAppend DEF DroppedNow
  <2> QED
    BY <1>4, <1>5, <1>6, <1>8, <2>1 DEF DroppedNow, Total, N, L, O
<1>9. CASE FailedNow(w)
  <2> DEFINE x == [w |-> w, stage |-> pc]
  <2>1. x \in Losses /\ failed' = Append(failed, x)
    BY <1>1, <1>9 DEF FailedNow, Losses
  <2>2. (IF x \in L THEN 1 ELSE 0) = one
    BY <2>1 DEF L, LossesAt, one
  <2> HIDE DEF x
  <2>3. Hits(failed', L) = Hits(failed, L) + one
    BY <1>1, <2>1, <2>2, HitsAppend
  <2> QED
    BY <1>4, <1>5, <1>6, <1>9, <2>3 DEF FailedNow, Total, N, L, O
<1>10. CASE ScoredNow(w)
  <2> DEFINE x == [w |-> w, scored |-> Scored(w)]
  <2>1. x \in Outcomes /\ outcomes' = Append(outcomes, x)
    BY <1>1, <1>10 DEF ScoredNow, Outcomes, Scored, Wrappers
  <2>2. (IF x \in O THEN 1 ELSE 0) = one
    BY <2>1 DEF O, OutcomesAt, one
  <2> HIDE DEF x
  <2>3. Hits(outcomes', O) = Hits(outcomes, O) + one
    BY <1>1, <2>1, <2>2, HitsAppend
  <2>4. out' = out /\ dropped' = dropped /\ failed' = failed
    BY <1>10 DEF ScoredNow
  <2> QED
    BY <1>4, <1>5, <1>6, <2>3, <2>4 DEF Total, N, L, O
<1> QED
  BY <1>2, <1>7, <1>8, <1>9, <1>10 DEF w

\* Every step keeps each line in one place.
LEMMA AccountsStep ==
    ASSUME Typing, Typing', Accounts, [Next]_vars
    PROVE  Accounts'
<1>0. /\ TypeOK /\ TypeOK' /\ nodes \in Seq(Wrappers)
      /\ queue \in Seq(Wrappers) /\ out \in Seq(Wrappers) /\ dropped \in Seq(Wrappers)
      /\ failed \in Seq(Losses) /\ outcomes \in Seq(Outcomes)
  BY DEF Typing, TypeOK
<1>a. Waiting /\ Distinct /\ Traced /\ Counted
  BY DEF Accounts
<1>1. CASE CheckInputs
  <2>1. /\ pc = "start" /\ pc' \in {"ingest", "end"}
        /\ UNCHANGED <<src, pos, nodes, queue, out, dropped, failed, outcomes>>
    BY <1>1 DEF CheckInputs, ingestVars
  <2>2. /\ nodes = <<>> /\ queue = <<>> /\ out = <<>>
        /\ dropped = <<>> /\ failed = <<>> /\ outcomes = <<>>
    BY <1>a, <2>1 DEF Waiting
  <2>3. Waiting'
    BY <1>a, <2>1, <2>2 DEF Waiting
  <2>4. Distinct'
    BY <2>1, <2>2 DEF Distinct
  <2>5. Traced'
    BY <2>1, <2>2, RangeEmpty DEF Traced, Travelling
  <2>6. Counted'
    BY <2>1, <2>2 DEF Counted
  <2> QED
    BY <2>3, <2>4, <2>5, <2>6 DEF Accounts
<1>2. CASE Ingesting
  <2>1. /\ pc = "ingest" /\ pc' = "ingest"
        /\ UNCHANGED <<queue, out, dropped, failed, outcomes>>
    BY <1>2 DEF Ingesting
  <2>2. /\ queue = <<>> /\ out = <<>>
        /\ dropped = <<>> /\ failed = <<>> /\ outcomes = <<>>
    BY <1>a, <2>1 DEF Waiting
  <2>3. \A at \in Nat \X Nat : Behind(at) => Behind(at)'
    BY <1>2 DEF Ingesting
  <2>4. \A i \in DOMAIN nodes : nodes[i].at \in Nat \X Nat
    <3>1. \A i \in DOMAIN nodes : nodes[i] \in Wrappers
      BY <1>0
    <3> QED
      BY <3>1 DEF Wrappers
  <2>5. Waiting' /\ Distinct'
    <3>1. CASE UNCHANGED nodes
      BY <1>a, <2>1, <2>3, <2>4, <3>1 DEF Waiting, Distinct
    <3>2. CASE ~UNCHANGED nodes
      <4>1. PICK x \in Wrappers : /\ nodes' = Append(nodes, x)
                                  /\ ~Behind(x.at) /\ Behind(x.at)'
                                  /\ x.ip = NoIP /\ x.measured = "none"
        BY <1>2, <3>2 DEF Ingesting
      <4>2. /\ DOMAIN nodes = 1..Len(nodes) /\ Len(nodes) \in Nat
            /\ DOMAIN nodes' = 1..(Len(nodes) + 1)
            /\ nodes'[Len(nodes) + 1] = x
            /\ \A i \in 1..Len(nodes) : nodes'[i] = nodes[i]
        BY <1>0, <4>1, Appended
      <4>3. \A i \in DOMAIN nodes' : i \in DOMAIN nodes \/ i = Len(nodes) + 1
        BY <4>2
      <4>4. \A i \in DOMAIN nodes : nodes[i].at # x.at
        BY <1>a, <4>1 DEF Distinct
      <4>5. Waiting'
        BY <1>a, <2>1, <4>1, <4>2, <4>3 DEF Waiting
      <4>6. \A i \in DOMAIN nodes' : Behind(nodes[i].at)'
        <5> TAKE i \in DOMAIN nodes'
        <5>1. PICK a : a = nodes'[i].at
          OBVIOUS
        <5>2. CASE i \in DOMAIN nodes
          <6>1. a = nodes[i].at
            BY <4>2, <5>1, <5>2
          <6>2. Behind(a)'
            BY <1>a, <2>3, <2>4, <5>2, <6>1 DEF Distinct
          <6> QED
            BY <5>1, <6>2 DEF Behind
        <5>3. CASE i = Len(nodes) + 1
          <6>1. a = x.at
            BY <4>2, <5>1, <5>3
          <6> QED
            BY <4>1, <5>1, <6>1 DEF Behind
        <5> QED
          BY <4>3, <5>2, <5>3
      <4>7. \A i, j \in DOMAIN nodes' : nodes'[i].at = nodes'[j].at => i = j
        BY <1>a, <4>2, <4>3, <4>4 DEF Distinct
      <4> QED
        BY <4>5, <4>6, <4>7 DEF Distinct
    <3> QED
      BY <3>1, <3>2
  <2>6. Traced'
    BY <2>1, <2>2, RangeEmpty DEF Traced, Travelling
  <2>7. Counted'
    BY <2>1 DEF Counted
  <2> QED
    BY <2>5, <2>6, <2>7 DEF Accounts
<1>3. CASE EndIngest
  <2>1. /\ pc = "ingest" /\ pc' = "dedup" /\ queue' = nodes
        /\ UNCHANGED <<src, pos, nodes, out, dropped, failed, outcomes>>
    BY <1>3 DEF EndIngest, ingestVars
  <2>2. out = <<>> /\ dropped = <<>> /\ failed = <<>> /\ outcomes = <<>>
    BY <1>a, <2>1 DEF Waiting
  <2>3. Waiting'
    BY <2>1 DEF Waiting
  <2>4. Distinct'
    BY <1>a, <2>1 DEF Distinct, Behind
  <2>5. Traced'
    <3>1. \A w \in Range(nodes) : Comes(w)'
      BY <2>1 DEF Range, Comes, SameLine
    <3> QED
      BY <2>1, <2>2, <3>1, RangeEmpty DEF Traced, Travelling
  <2>6. ASSUME NEW i \in DOMAIN nodes
        PROVE  Total(nodes[i].at)' = 1
    <3> DEFINE N == NodesAt(nodes[i].at)
    <3>1. {j \in DOMAIN nodes : nodes[j] \in N} = {i}
      BY <1>0, <1>a DEF Distinct, NodesAt
    <3>2. Hits(nodes, N) = 1
      BY <3>1, FS_Singleton DEF Hits
    <3>3. Total(nodes[i].at)' = Hits(nodes, N) + 0 + 0 + 0 + 0
      BY <2>1, <2>2, HitsEmpty DEF Total
    <3> QED
      BY <3>2, <3>3
  <2>7. Counted'
    BY <2>1, <2>6 DEF Counted
  <2> QED
    BY <2>3, <2>4, <2>5, <2>7 DEF Accounts
<1>4. CASE Handled
  <2> DEFINE w == Head(queue)
  <2>1. /\ pc \in Stages /\ pc' = pc /\ UNCHANGED <<src, pos, nodes>>
        /\ queue # <<>> /\ queue' = Tail(queue) /\ w \in Wrappers
    BY <1>0, <1>4, HandleType DEF Handled, Handle
  <2>2. pc \notin {"start", "ingest", "geo"}
    BY <2>1 DEF Stages
  <2>3. Waiting'
    BY <2>1, <2>2 DEF Waiting
  <2>4. Distinct'
    BY <1>a, <2>1 DEF Distinct, Behind
  <2>5. Traced'
    <3>1. Range(queue') \subseteq Range(queue) /\ w \in Range(queue)
      BY <1>0, <2>1, RangeTail
    <3>2. \A v : Comes(v) => Comes(v)'
      BY <2>1 DEF Comes
    <3>3. Comes(w)
      BY <1>a, <3>1 DEF Traced, Travelling
    <3>4. HandedOn(w) \/ DroppedNow(w) \/ FailedNow(w) \/ ScoredNow(w)
      BY <1>4 DEF Handled
    <3> HIDE DEF w
    <3>5. \A v \in Travelling' : v \in Travelling \/ SameLine(v, w)
      <4>1. CASE HandedOn(w)
        <5>1. PICK v \in Wrappers : Onward(w, v) /\ out' = Append(out, v)
          BY <4>1 DEF HandedOn
        <5>2. Range(out') = Range(out) \cup {v} /\ SameLine(v, w)
          BY <1>0, <5>1, RangeAppend DEF Onward
        <5> QED
          BY <3>1, <4>1, <5>2 DEF HandedOn, Travelling
      <4>2. CASE DroppedNow(w)
        <5>1. Range(dropped') = Range(dropped) \cup {w} /\ SameLine(w, w)
          BY <1>0, <2>1, <4>2, RangeAppend DEF DroppedNow, SameLine, w
        <5> QED
          BY <3>1, <4>2, <5>1 DEF DroppedNow, Travelling
      <4>3. CASE FailedNow(w)
        <5>1. PICK x \in Losses : x.w = w /\ failed' = Append(failed, x)
          <6> DEFINE y == [w |-> w, stage |-> pc]
          <6>1. y \in Losses /\ y.w = w
            BY <2>1, <4>3 DEF Losses, FailedNow, w
          <6>2. failed' = Append(failed, y)
            BY <4>3 DEF FailedNow
          <6> HIDE DEF y
          <6> QED
            BY <6>1, <6>2
        <5>2. Range(failed') = Range(failed) \cup {x} /\ SameLine(x.w, w)
          BY <1>0, <5>1, RangeAppend DEF SameLine
        <5> QED
          BY <3>1, <4>3, <5>2 DEF FailedNow, Travelling
      <4>4. CASE ScoredNow(w)
        <5>1. PICK x \in Outcomes : x.w = w /\ outcomes' = Append(outcomes, x)
          <6> DEFINE y == [w |-> w, scored |-> Scored(w)]
          <6>1. y \in Outcomes /\ y.w = w
            BY <2>1 DEF Outcomes, Scored, Wrappers, w
          <6>2. outcomes' = Append(outcomes, y)
            BY <4>4 DEF ScoredNow
          <6> HIDE DEF y
          <6> QED
            BY <6>1, <6>2
        <5>2. Range(outcomes') = Range(outcomes) \cup {x} /\ SameLine(x.w, w)
          BY <1>0, <5>1, RangeAppend DEF SameLine
        <5> QED
          BY <3>1, <4>4, <5>2 DEF ScoredNow, Travelling
      <4> QED
        BY <3>4, <4>1, <4>2, <4>3, <4>4
    <3>6. ASSUME NEW v, SameLine(v, w)
          PROVE  Comes(v)
      BY <3>3, <3>6 DEF Comes, SameLine
    <3>7. \A v \in Travelling' : Comes(v)
      BY <1>a, <3>5, <3>6 DEF Traced
    <3> QED
      BY <3>2, <3>7 DEF Traced
  <2>6. Counted'
    BY <1>0, <1>a, <1>4, <2>1, <2>2, HandledCount DEF Counted
  <2> QED
    BY <2>3, <2>4, <2>5, <2>6 DEF Accounts
<1>5. CASE AnnotateGeo
  <2>1. /\ pc = "geo" /\ queue # <<>> /\ out' = queue /\ queue' = <<>>
        /\ UNCHANGED <<pc, src, pos, nodes, dropped, failed, outcomes>>
    BY <1>5 DEF AnnotateGeo, ingestVars
  <2>2. out = <<>>
    BY <1>a, <2>1 DEF Counted
  <2>3. Waiting' /\ Distinct'
    BY <1>a, <2>1 DEF Waiting, Distinct, Behind
  <2>4. Traced'
    <3>1. Travelling' \subseteq Travelling
      BY <2>1, RangeEmpty DEF Travelling
    <3> QED
      BY <1>a, <2>1, <3>1 DEF Traced, Comes
  <2>5. ASSUME NEW a PROVE Total(a)' = Total(a)
    <3>1. Hits(queue, NodesAt(a)) \in Nat
      BY <1>0, HitsType
    <3>2. Hits(queue', NodesAt(a)) = 0 /\ Hits(out, NodesAt(a)) = 0
      BY <2>1, <2>2, HitsEmpty
    <3> QED
      BY <2>1, <3>1, <3>2 DEF Total
  <2>6. Counted'
    BY <1>a, <2>1, <2>5 DEF Counted
  <2> QED
    BY <2>3, <2>4, <2>6 DEF Accounts
<1>6. CASE NextStage
  <2>1. /\ queue = <<>> /\ queue' = out /\ out' = <<>>
        /\ UNCHANGED <<src, pos, nodes, dropped, failed, outcomes>>
    BY <1>6 DEF NextStage, ingestVars
  <2>2. pc \notin {"start", "ingest"} /\ pc' \notin {"start", "ingest"}
    BY <1>6 DEF NextStage, Following
  <2>3. Waiting' /\ Distinct'
    BY <1>a, <2>1, <2>2 DEF Waiting, Distinct, Behind
  <2>4. Traced'
    <3>1. Travelling' \subseteq Travelling
      BY <2>1, RangeEmpty DEF Travelling
    <3> QED
      BY <1>a, <2>1, <3>1 DEF Traced, Comes
  <2>5. ASSUME NEW a PROVE Total(a)' = Total(a)
    <3>1. Hits(out, NodesAt(a)) \in Nat
      BY <1>0, HitsType
    <3>2. Hits(queue, NodesAt(a)) = 0 /\ Hits(out', NodesAt(a)) = 0
      BY <2>1, HitsEmpty
    <3> QED
      BY <2>1, <3>1, <3>2 DEF Total
  <2>6. Counted'
    BY <1>a, <2>1, <2>2, <2>5 DEF Counted
  <2> QED
    BY <2>3, <2>4, <2>6 DEF Accounts
<1>7. CASE Closing
  <2>1. /\ pc \notin {"start", "ingest", "geo"} /\ pc' \notin {"start", "ingest", "geo"}
        /\ UNCHANGED <<src, pos, nodes, queue, out, dropped, failed, outcomes>>
    BY <1>7 DEF Closing
  <2> QED
    BY <1>a, <2>1 DEF Accounts, Waiting, Distinct, Behind, Traced, Travelling,
           Comes, Counted, Total
<1>8. CASE UNCHANGED vars
  BY <1>a, <1>8 DEF vars, Accounts, Waiting, Distinct, Behind, Traced, Travelling,
           Comes, Counted, Total
<1> QED
  BY <1>1, <1>2, <1>3, <1>4, <1>5, <1>6, <1>7, <1>8, Steps

\* So it is in every run.
LEMMA AccountsHold == Spec => []Accounts
<1>1. Init => Accounts
  <2> SUFFICES ASSUME Init PROVE Accounts
    OBVIOUS
  <2>1. /\ pc = "start" /\ nodes = <<>> /\ queue = <<>> /\ out = <<>> /\ dropped = <<>>
        /\ failed = <<>> /\ outcomes = <<>>
    BY DEF Init
  <2>2. Waiting /\ Distinct /\ Counted
    BY <2>1 DEF Waiting, Distinct, Counted
  <2>3. Traced
    BY <2>1, RangeEmpty DEF Traced, Travelling
  <2> QED
    BY <2>2, <2>3 DEF Accounts
<1>2. Typing /\ Typing' /\ Accounts /\ [Next]_vars => Accounts'
  BY AccountsStep
<1> QED
  BY <1>1, <1>2, TypingHolds, PTL DEF Spec

\* Nothing is lost on the way and nothing gets through twice: from the end of ingest
\* on, each node the sources held is still to be handled, kept, dropped, failed or
\* scored, and in one of these lists only, once.
THEOREM NoLineIsLost == Spec => []Conservation
<1>1. Typing /\ Accounts => Conservation
  <2> SUFFICES ASSUME Typing, Accounts, pc \notin {"start", "ingest", "end"},
                      NEW i \in DOMAIN nodes
               PROVE  LET here(s) == Cardinality({j \in DOMAIN s : s[j].at = nodes[i].at})
                          held(s) == Cardinality({j \in DOMAIN s : s[j].w.at = nodes[i].at})
                      IN  here(queue) + here(out) + here(dropped) + held(failed)
                              + held(outcomes) = 1
    BY DEF Conservation
  <2> DEFINE a == nodes[i].at
  <2>1. ASSUME NEW s \in Seq(Wrappers)
        PROVE  {j \in DOMAIN s : s[j].at = a} = {j \in DOMAIN s : s[j] \in NodesAt(a)}
    BY DEF NodesAt
  <2>2. {j \in DOMAIN failed : failed[j].w.at = a}
          = {j \in DOMAIN failed : failed[j] \in LossesAt(a)}
    BY DEF LossesAt, Typing, TypeOK
  <2>3. {j \in DOMAIN outcomes : outcomes[j].w.at = a}
          = {j \in DOMAIN outcomes : outcomes[j] \in OutcomesAt(a)}
    BY DEF OutcomesAt, Typing, TypeOK
  <2>4. Total(a) = 1
    BY DEF Accounts, Counted
  <2>5. queue \in Seq(Wrappers) /\ out \in Seq(Wrappers) /\ dropped \in Seq(Wrappers)
    BY DEF Typing, TypeOK
  <2> QED
    BY <2>1, <2>2, <2>3, <2>4, <2>5 DEF Total, Hits
<1> QED
  BY <1>1, TypingHolds, AccountsHold, PTL

\* The line a stage takes up is nowhere else on its way.
LEMMA OnlyOne ==
    ASSUME Typing, Accounts, pc \notin {"start", "ingest"}, queue # <<>>
    PROVE  \A v \in Range(Tail(queue)) \cup Range(out) : v.at # Head(queue).at
<1> DEFINE w == Head(queue)
           N == NodesAt(w.at)
<1>1. /\ queue \in Seq(Wrappers) /\ out \in Seq(Wrappers) /\ dropped \in Seq(Wrappers)
      /\ failed \in Seq(Losses) /\ outcomes \in Seq(Outcomes)
  BY DEF Typing, TypeOK
<1>2. Tail(queue) \in Seq(Wrappers) /\ w \in Wrappers
  BY <1>1
<1>3. Hits(queue, N) = Hits(Tail(queue), N) + 1
  BY <1>1, <1>2, HitsTail DEF NodesAt
<1>4. /\ Hits(Tail(queue), N) \in Nat /\ Hits(out, N) \in Nat /\ Hits(dropped, N) \in Nat
      /\ Hits(failed, LossesAt(w.at)) \in Nat /\ Hits(outcomes, OutcomesAt(w.at)) \in Nat
  BY <1>1, <1>2, HitsType
<1>5. Total(w.at) = 1
  <2>1. w \in Range(queue)
    BY <1>1, RangeTail
  <2>2. Comes(w)
    BY <2>1 DEF Accounts, Traced, Travelling
  <2> QED
    BY <2>2 DEF Accounts, Counted, Comes, SameLine
<1>6. Hits(Tail(queue), N) = 0 /\ Hits(out, N) = 0
  BY <1>3, <1>4, <1>5 DEF Total
<1>7. \A v \in Range(Tail(queue)) \cup Range(out) : v \notin N
  BY <1>1, <1>2, <1>6, HitsType
<1>8. \A v \in Range(Tail(queue)) \cup Range(out) : v \in Wrappers
  BY <1>1, <1>2, RangeType
<1> QED
  BY <1>7, <1>8 DEF NodesAt

\* Nothing is dialled before DNS, and what is dialled is dialled at one public
\* address, which the line bears as long as it is in the queue.
Pinning ==
    /\ pc \in {"start", "ingest", "dedup", "dns", "geo"} => dials = {}
    /\ \A d \in dials :
         /\ d.ip \in PublicIPs
         /\ \A e \in dials : d.at = e.at => d.ip = e.ip
         /\ \A w \in Range(queue) \cup Range(out) : w.at = d.at => w.ip = d.ip
    /\ \A w \in Range(queue) \cup Range(out) \cup Range(dropped) : PinnedPublic(w)

\* Every step keeps what is dialled pinned.
LEMMA PinningStep ==
    ASSUME Typing, Accounts, Pinning, [Next]_vars
    PROVE  Pinning'
<1>0. /\ TypeOK /\ nodes \in Seq(Wrappers) /\ queue \in Seq(Wrappers)
      /\ out \in Seq(Wrappers) /\ dropped \in Seq(Wrappers)
  BY DEF Typing, TypeOK
<1>1. CASE CheckInputs
  <2>1. pc = "start" /\ pc' \in {"ingest", "end"}
        /\ UNCHANGED <<queue, out, dropped, dials>>
    BY <1>1 DEF CheckInputs
  <2> QED
    BY <2>1 DEF Pinning, PinnedPublic
<1>2. CASE Ingesting
  BY <1>2 DEF Ingesting, Pinning, PinnedPublic
<1>3. CASE EndIngest
  <2>1. /\ pc = "ingest" /\ pc' = "dedup" /\ queue' = nodes
        /\ UNCHANGED <<out, dropped, dials>>
    BY <1>3 DEF EndIngest
  <2>2. out = <<>> /\ dropped = <<>> /\ dials = {}
    BY <2>1 DEF Accounts, Waiting, Pinning
  <2>3. \A w \in Range(nodes) : PinnedPublic(w)
    BY <2>1 DEF Accounts, Waiting, PinnedPublic, Range
  <2> QED
    BY <2>1, <2>2, <2>3, RangeEmpty DEF Pinning, PinnedPublic
<1>4. CASE Handled
  <2> DEFINE w == Head(queue)
             d == [at |-> w.at, stage |-> pc, ip |-> w.ip]
  <2>1. /\ pc \in Stages /\ pc' = pc
        /\ queue # <<>> /\ queue' = Tail(queue) /\ w \in Wrappers
    BY <1>0, <1>4, HandleType DEF Handled, Handle
  <2>2. Range(queue') \subseteq Range(queue) /\ w \in Range(queue)
    BY <1>0, <2>1, RangeTail
  <2>3. \A v \in Range(queue') \cup Range(out) : v.at # w.at
    BY <2>1, OnlyOne DEF Stages
  <2>4. HandedOn(w) \/ DroppedNow(w) \/ FailedNow(w) \/ ScoredNow(w)
    BY <1>4 DEF Handled
  <2> HIDE DEF w, d
  <2>5. \/ dials' = dials
        \/ pc \in Diallers /\ w.ip \in PublicIPs /\ dials' = dials \cup {d}
    BY <2>4 DEF HandedOn, DroppedNow, FailedNow, ScoredNow, Dials1, Dial, d
  <2>6. d.at = w.at /\ d.ip = w.ip
    BY DEF d
  <2>7. \/ Range(out') = Range(out)
        \/ \E v \in Wrappers : Onward(w, v) /\ Range(out') = Range(out) \cup {v}
    <3>1. CASE HandedOn(w)
      <4>1. PICK v \in Wrappers : Onward(w, v) /\ out' = Append(out, v)
        BY <3>1 DEF HandedOn
      <4>2. Range(out') = Range(out) \cup {v}
        BY <1>0, <4>1, RangeAppend
      <4> QED
        BY <4>1, <4>2
    <3>2. CASE out' = out
      BY <3>2
    <3> QED
      BY <2>4, <3>1, <3>2 DEF DroppedNow, FailedNow, ScoredNow
  <2>8. \/ Range(dropped') = Range(dropped)
        \/ Range(dropped') = Range(dropped) \cup {w}
    <3>1. dropped' = dropped \/ dropped' = Append(dropped, w)
      BY <2>4 DEF HandedOn, DroppedNow, FailedNow, ScoredNow
    <3>2. w \in Wrappers
      BY <2>1 DEF w
    <3>3. Range(Append(dropped, w)) = Range(dropped) \cup {w}
      BY <1>0, <3>2, RangeAppend
    <3> QED
      BY <3>1, <3>3
  <2>9. \A v : Onward(w, v) => v.at = w.at /\ (pc # "dns" => v.ip = w.ip)
    BY DEF Onward, SameLine
  <2>10. pc' \in {"start", "ingest", "dedup", "dns", "geo"} => dials' = {}
    BY <2>1, <2>5 DEF Pinning, Diallers
  <2>11. \A e \in dials : e.at = w.at => e.ip = w.ip
    BY <2>2 DEF Pinning
  <2>12. \A e \in dials' : e.ip \in PublicIPs
    BY <2>5, <2>6 DEF Pinning
  <2>13. \A e, f \in dials' : e.at = f.at => e.ip = f.ip
    BY <2>5, <2>6, <2>11 DEF Pinning
  <2>14. \A e \in dials', v \in Range(queue') \cup Range(out) : v.at = e.at => v.ip = e.ip
    BY <2>2, <2>3, <2>5, <2>6 DEF Pinning
  <2>15. \A e \in dials' : e.at = w.at => e.ip = w.ip
    BY <2>5, <2>6, <2>11
  <2>16. pc = "dns" => dials' = {}
    BY <2>1, <2>10
  <2>17. \A e \in dials', v \in Range(queue') \cup Range(out') : v.at = e.at => v.ip = e.ip
    BY <2>7, <2>9, <2>14, <2>15, <2>16
  <2>18. \A v \in Range(queue') \cup Range(out') \cup Range(dropped') : PinnedPublic(v)
    <3>1. \A v \in Range(queue) \cup Range(out) \cup Range(dropped) : PinnedPublic(v)
      BY DEF Pinning
    <3>2. \A v : Onward(w, v) => PinnedPublic(v)
      BY <2>2, <3>1 DEF Onward, SameLine, PinnedPublic
    <3> QED
      BY <2>2, <2>7, <2>8, <3>1, <3>2
  <2> QED
    BY <2>10, <2>12, <2>13, <2>17, <2>18 DEF Pinning, PinnedPublic
<1>5. CASE AnnotateGeo
  <2>1. pc' = pc /\ out' = queue /\ queue' = <<>> /\ UNCHANGED <<dropped, dials>>
    BY <1>5 DEF AnnotateGeo
  <2> QED
    BY <2>1, RangeEmpty DEF Pinning, PinnedPublic
<1>6. CASE NextStage
  <2>1. queue' = out /\ out' = <<>> /\ UNCHANGED <<dropped, dials>>
    BY <1>6 DEF NextStage
  <2>2. pc' \in {"start", "ingest", "dedup", "dns", "geo"} => pc \in {"dedup", "dns"}
    BY <1>6 DEF NextStage, Following
  <2> QED
    BY <2>1, <2>2, RangeEmpty DEF Pinning, PinnedPublic
<1>7. CASE Closing
  <2>1. /\ pc' \notin {"start", "ingest", "dedup", "dns", "geo"}
        /\ UNCHANGED <<queue, out, dropped, dials>>
    BY <1>7 DEF Closing
  <2> QED
    BY <2>1 DEF Pinning, PinnedPublic
<1>8. CASE UNCHANGED vars
  BY <1>8 DEF vars, Pinning, PinnedPublic
<1> QED
  BY <1>1, <1>2, <1>3, <1>4, <1>5, <1>6, <1>7, <1>8, Steps

\* No connection is ever attempted to an address that is not public, a line is
\* dialled at one address by all the stages, and a host name is pinned to no address
\* the gates would refuse, whatever the answers of DNS hold.
THEOREM DialsArePinned == Spec => []EgressPinned
<1>1. Init => Pinning
  <2> SUFFICES ASSUME Init PROVE Pinning
    OBVIOUS
  <2>1. queue = <<>> /\ out = <<>> /\ dropped = <<>> /\ dials = {}
    BY DEF Init
  <2> QED
    BY <2>1, RangeEmpty DEF Pinning
<1>2. Typing /\ Accounts /\ Pinning /\ [Next]_vars => Pinning'
  BY PinningStep
<1>3. Pinning => EgressPinned
  BY DEF Pinning, EgressPinned, PinnedPublic
<1> QED
  BY <1>1, <1>2, <1>3, TypingHolds, AccountsHold, PTL DEF Spec

\* The i-th node is the first of its key.
First(i) == \A k \in DOMAIN nodes : nodes[k].node.key = nodes[i].node.key => i <= k
FirstAt(at) == \E i \in DOMAIN nodes : nodes[i].at = at /\ First(i)

FirstsOnly ==
    /\ pc \in {"start", "ingest", "dedup"} => dials = {}
    /\ pc = "dedup" =>
         LET n == Len(nodes) - Len(queue)
         IN  /\ n \in Nat
             /\ \A j \in DOMAIN queue : queue[j] = nodes[n + j]
             /\ \A i \in 1..n : \E v \in Range(out) : v.node.key = nodes[i].node.key
    /\ \A w \in Range(out) : FirstAt(w.at)
    /\ pc # "dedup" => \A w \in Range(queue) : FirstAt(w.at)
    /\ \A d \in dials : FirstAt(d.at)

\* Every step keeps duplicates out of what is dialled.
LEMMA FirstsStep ==
    ASSUME Typing, Accounts, FirstsOnly, [Next]_vars
    PROVE  FirstsOnly'
<1>0. /\ TypeOK /\ nodes \in Seq(Wrappers) /\ queue \in Seq(Wrappers)
      /\ out \in Seq(Wrappers)
  BY DEF Typing, TypeOK
<1>1. CASE CheckInputs \/ Ingesting
  <2>1. /\ pc \in {"start", "ingest"} /\ pc' \in {"ingest", "end"}
        /\ UNCHANGED <<queue, out, dials>>
    BY <1>1 DEF CheckInputs, Ingesting
  <2>2. queue = <<>> /\ out = <<>> /\ dials = {}
    BY <2>1 DEF Accounts, Waiting, FirstsOnly
  <2> QED
    BY <2>1, <2>2, RangeEmpty DEF FirstsOnly
<1>2. CASE EndIngest
  <2>1. /\ pc = "ingest" /\ pc' = "dedup" /\ queue' = nodes
        /\ UNCHANGED <<nodes, out, dials>>
    BY <1>2 DEF EndIngest, ingestVars
  <2>2. out = <<>> /\ dials = {}
    BY <2>1 DEF Accounts, Waiting, FirstsOnly
  <2>3. Len(nodes) \in Nat /\ Len(nodes) - Len(nodes) = 0 /\ DOMAIN nodes = 1..Len(nodes)
    BY <1>0
  <2>4. \A j \in DOMAIN queue' : queue'[j] = nodes[0 + j]
    BY <2>1, <2>3
  <2> QED
    BY <2>1, <2>2, <2>3, <2>4, RangeEmpty DEF FirstsOnly
<1>3. CASE Handled
  <2> DEFINE w == Head(queue)
             d == [at |-> w.at, stage |-> pc, ip |-> w.ip]
             n == Len(nodes) - Len(queue)
  <2>1. /\ pc \in Stages /\ pc' = pc /\ UNCHANGED nodes
        /\ queue # <<>> /\ queue' = Tail(queue) /\ w \in Wrappers
    BY <1>0, <1>3, HandleType DEF Handled, Handle
  <2>2. /\ Range(queue') \subseteq Range(queue) /\ w \in Range(queue)
        /\ w = queue[1] /\ Len(queue) \in Nat \ {0} /\ Len(queue') = Len(queue) - 1
        /\ \A j \in 1..(Len(queue) - 1) : queue'[j] = queue[j + 1]
        /\ DOMAIN queue' = 1..(Len(queue) - 1) /\ DOMAIN queue = 1..Len(queue)
        /\ Len(nodes) \in Nat /\ DOMAIN nodes = 1..Len(nodes)
    BY <1>0, <2>1, RangeTail, HeadTail
  <2>3. HandedOn(w) \/ DroppedNow(w) \/ FailedNow(w) \/ ScoredNow(w)
    BY <1>3 DEF Handled
  <2> HIDE DEF w, d
  <2>4. \A a : FirstAt(a) => FirstAt(a)'
    BY <2>1 DEF FirstAt, First
  <2>5. CASE pc = "dedup"
    <3>1. /\ n \in Nat /\ \A j \in DOMAIN queue : queue[j] = nodes[n + j]
          /\ \A i \in 1..n : \E v \in Range(out) : v.node.key = nodes[i].node.key
      BY <2>5 DEF FirstsOnly
    <3>2. /\ Len(nodes') - Len(queue') = n + 1 /\ n + 1 \in Nat
          /\ n + 1 \in DOMAIN nodes /\ nodes[n + 1] = w
      <4>1. Len(nodes') - Len(queue') = n + 1 /\ n + 1 \in Nat /\ n + 1 \in DOMAIN nodes
        BY <2>1, <2>2, <3>1
      <4>2. 1 \in DOMAIN queue
        BY <2>2
      <4> HIDE DEF n
      <4>3. queue[1] = nodes[n + 1]
        BY <3>1, <4>2
      <4> QED
        BY <2>2, <4>1, <4>3
    <3>3. \A j \in DOMAIN queue' : queue'[j] = nodes[(n + 1) + j]
      <4> TAKE j \in DOMAIN queue'
      <4>1. j + 1 \in DOMAIN queue /\ queue'[j] = queue[j + 1]
        BY <2>2
      <4>2. n + (j + 1) = (n + 1) + j
        BY <2>2, <3>1
      <4> QED
        BY <3>1, <4>1, <4>2
    <3>4. dials' = {} /\ dials = {}
      BY <2>3, <2>5 DEF FirstsOnly, HandedOn, DroppedNow, FailedNow, ScoredNow, Dials1,
                        Diallers, LiveStages
    <3>5. /\ Range(out) \subseteq Range(out')
          /\ \E v \in Range(out') : v.node.key = w.node.key
          /\ \A v \in Range(out') : FirstAt(v.at)
      <4>1. CASE HandedOn(w)
        <5>1. PICK v \in Wrappers : Onward(w, v) /\ out' = Append(out, v)
          BY <4>1 DEF HandedOn
        <5>2. Range(out') = Range(out) \cup {v}
          BY <1>0, <5>1, RangeAppend
        <5>3. ASSUME NEW k \in DOMAIN nodes, nodes[k].node.key = nodes[n + 1].node.key
              PROVE  n + 1 <= k
          <6>1. \A x \in Range(out) : x.node.key # w.node.key
            BY <2>5, <4>1 DEF HandedOn
          <6>2. k \notin 1..n
            BY <3>1, <3>2, <5>3, <6>1
          <6> QED
            BY <2>2, <3>1, <6>2
        <5>4. FirstAt(v.at)
          <6>1. nodes[n + 1].at = v.at
            BY <3>2, <5>1 DEF Onward, SameLine
          <6>2. First(n + 1)
            BY <5>3 DEF First
          <6> QED
            BY <3>2, <6>1, <6>2 DEF FirstAt
        <5>5. v.node.key = w.node.key
          BY <5>1 DEF Onward, SameLine
        <5> QED
          BY <5>2, <5>4, <5>5 DEF FirstsOnly
      <4>2. CASE DroppedNow(w)
        BY <4>2 DEF DroppedNow, FirstsOnly
      <4> QED
        BY <2>3, <2>5, <4>1, <4>2 DEF FailedNow, ScoredNow, LiveStages
    <3>6. \A i \in 1..(n + 1) : \E v \in Range(out') : v.node.key = nodes[i].node.key
      <4>0. n \in Nat
        BY <3>1
      <4> TAKE i \in 1..(n + 1)
      <4>1. i \in 1..n \/ i = n + 1
        <5> HIDE DEF n
        <5> QED
          BY <4>0
      <4> QED
        BY <3>1, <3>2, <3>5, <4>1
    <3>7. \A v \in Range(out') : FirstAt(v.at)'
      <4> SUFFICES ASSUME NEW v \in Range(out') PROVE FirstAt(v.at)'
        OBVIOUS
      <4> QED
        BY <2>4, <3>5
    <3> QED
      BY <2>1, <2>5, <3>2, <3>3, <3>4, <3>6, <3>7 DEF FirstsOnly
  <2>6. CASE pc # "dedup"
    <3>1. FirstAt(w.at) /\ (\A v \in Range(queue') : FirstAt(v.at))
      BY <2>2, <2>6 DEF FirstsOnly
    <3>2. \A v \in Range(out') : FirstAt(v.at)
      <4>1. CASE HandedOn(w)
        <5>1. PICK v \in Wrappers : Onward(w, v) /\ out' = Append(out, v)
          BY <4>1 DEF HandedOn
        <5>2. Range(out') = Range(out) \cup {v} /\ v.at = w.at
          BY <1>0, <5>1, RangeAppend DEF Onward, SameLine
        <5> QED
          BY <3>1, <5>2 DEF FirstsOnly
      <4>2. CASE out' = out
        BY <4>2 DEF FirstsOnly
      <4> QED
        BY <2>3, <4>1, <4>2 DEF DroppedNow, FailedNow, ScoredNow
    <3>3. \A e \in dials' : FirstAt(e.at)
      <4>1. dials' = dials \/ dials' = dials \cup {d}
        BY <2>3 DEF HandedOn, DroppedNow, FailedNow, ScoredNow, Dials1, Dial, d
      <4>2. d.at = w.at
        BY DEF d
      <4> QED
        BY <3>1, <4>1, <4>2 DEF FirstsOnly
    <3>4. pc \notin {"start", "ingest", "dedup"}
      BY <2>1, <2>6 DEF Stages
    <3>5. /\ \A v \in Range(out') : FirstAt(v.at)'
          /\ \A v \in Range(queue') : FirstAt(v.at)'
          /\ \A v \in dials' : FirstAt(v.at)'
      BY <2>4, <3>1, <3>2, <3>3
    <3> QED
      BY <2>1, <3>4, <3>5 DEF FirstsOnly
  <2> QED
    BY <2>5, <2>6
<1>4. CASE AnnotateGeo
  <2>1. /\ pc = "geo" /\ pc' = pc /\ out' = queue /\ queue' = <<>>
        /\ UNCHANGED <<nodes, dials>>
    BY <1>4 DEF AnnotateGeo, ingestVars
  <2> QED
    BY <2>1, RangeEmpty DEF FirstsOnly, FirstAt, First
<1>5. CASE NextStage
  <2>1. /\ queue' = out /\ out' = <<>> /\ UNCHANGED <<nodes, dials>>
    BY <1>5 DEF NextStage, ingestVars
  <2>2. pc' \notin {"start", "ingest", "dedup"}
    BY <1>5 DEF NextStage, Following
  <2> QED
    BY <2>1, <2>2, RangeEmpty DEF FirstsOnly, FirstAt, First
<1>6. CASE Closing
  <2>1. /\ pc # "dedup" /\ pc' \notin {"start", "ingest", "dedup"}
        /\ UNCHANGED <<nodes, queue, out, dials>>
    BY <1>6 DEF Closing
  <2> QED
    BY <2>1 DEF FirstsOnly, FirstAt, First
<1>7. CASE UNCHANGED vars
  BY <1>7 DEF vars, FirstsOnly, FirstAt, First
<1> QED
  BY <1>1, <1>2, <1>3, <1>4, <1>5, <1>6, <1>7, Steps

\* Of the lines that mean one configuration only the first is ever dialled, however
\* the copies are spread over the sources.
THEOREM OnlyFirstIsDialled == Spec => []DuplicatesSilent
<1>1. Init => FirstsOnly
  <2> SUFFICES ASSUME Init PROVE FirstsOnly
    OBVIOUS
  <2>1. pc = "start" /\ queue = <<>> /\ out = <<>> /\ dials = {}
    BY DEF Init
  <2> QED
    BY <2>1, RangeEmpty DEF FirstsOnly
<1>2. Typing /\ Accounts /\ FirstsOnly /\ [Next]_vars => FirstsOnly'
  BY FirstsStep
<1>3. Accounts /\ FirstsOnly => DuplicatesSilent
  <2> SUFFICES ASSUME Accounts, FirstsOnly, NEW d \in dials,
                      NEW i \in DOMAIN nodes, NEW j \in DOMAIN nodes,
                      nodes[j].at = d.at, nodes[i].node.key = nodes[j].node.key
               PROVE  j <= i
    BY DEF DuplicatesSilent
  <2>1. PICK k \in DOMAIN nodes : nodes[k].at = d.at /\ First(k)
    BY DEF FirstsOnly, FirstAt
  <2>2. k = j
    BY <2>1 DEF Accounts, Distinct
  <2> QED
    BY <2>1, <2>2 DEF First
<1> QED
  BY <1>1, <1>2, <1>3, TypingHolds, AccountsHold, PTL DEF Spec

\* The dialling stages a node has behind it, by the stage it is at.
Earlier(stage) ==
    CASE stage = "tcp" -> {}
      [] stage = "handshake" -> {"tcp"}
      [] stage = "measure" -> {"tcp", "handshake"}
      [] stage = "score" -> Diallers
      [] OTHER -> {}
DialledBy(w, stages) ==
    \A s \in stages : Provided(s) => [at |-> w.at, stage |-> s, ip |-> w.ip] \in dials
MeasuredIfDone(w) == w.measured # "none" => config.measurer

Earned ==
    /\ \A w \in Range(queue) : DialledBy(w, Earlier(pc)) /\ MeasuredIfDone(w)
    /\ \A w \in Range(out) :
          DialledBy(w, Earlier(pc) \cup (Diallers \cap {pc})) /\ MeasuredIfDone(w)
    /\ \A o \in Range(outcomes) :
          o.scored => DialledBy(o.w, Diallers) /\ config.measurer /\ o.w.measured = "two"
    /\ pc = "score" => out = <<>>
    /\ \A w \in Range(ranked) :
          DialledBy(w, Diallers) /\ config.measurer /\ w.measured = "two"

\* Connections are only added: what has been dialled stays dialled.
LEMMA DialledStays ==
    ASSUME dials \subseteq dials', UNCHANGED config, NEW w, NEW stages, DialledBy(w, stages)
    PROVE  DialledBy(w, stages)'
BY DEF DialledBy, Provided

\* The order of the stages.
LEMMA Follows ==
    ASSUME NextStage
    PROVE  \/ pc = "dedup" /\ pc' = "dns"
           \/ pc = "dns" /\ pc' = "geo"
           \/ pc = "geo" /\ pc' = "tcp"
           \/ pc = "tcp" /\ pc' = "handshake"
           \/ pc = "handshake" /\ pc' = "measure"
           \/ pc = "measure" /\ pc' = "score"
           \/ pc = "score" /\ pc' = "rank"
BY DEF NextStage, Following

\* Every step keeps measurements earned.
LEMMA EarnedStep ==
    ASSUME Typing, Accounts, Earned, [Next]_vars
    PROVE  Earned'
<1>0. /\ TypeOK /\ nodes \in Seq(Wrappers) /\ queue \in Seq(Wrappers)
      /\ out \in Seq(Wrappers) /\ outcomes \in Seq(Outcomes)
  BY DEF Typing, TypeOK
<1>1. CASE CheckInputs \/ Ingesting
  <2>1. /\ pc \in {"start", "ingest"} /\ pc' \in {"ingest", "end"}
        /\ UNCHANGED <<config, queue, out, outcomes, ranked, dials>>
    BY <1>1 DEF CheckInputs, Ingesting
  <2>2. queue = <<>> /\ out = <<>>
    BY <2>1 DEF Accounts, Waiting
  <2> QED
    BY <2>1, <2>2, RangeEmpty DEF Earned, DialledBy, Provided
<1>2. CASE EndIngest
  <2>1. /\ pc = "ingest" /\ pc' = "dedup" /\ queue' = nodes
        /\ UNCHANGED <<config, nodes, out, outcomes, ranked, dials>>
    BY <1>2 DEF EndIngest, ingestVars
  <2>2. out = <<>> /\ \A w \in Range(nodes) : w.measured = "none"
    BY <2>1 DEF Accounts, Waiting, Range
  <2>3. Earlier(pc') = {}
    BY <2>1 DEF Earlier
  <2> QED
    BY <2>1, <2>2, <2>3, RangeEmpty DEF Earned, DialledBy, Provided, MeasuredIfDone
<1>3. CASE Handled
  <2> DEFINE w == Head(queue)
             after == Earlier(pc) \cup (Diallers \cap {pc})
  <2>1. /\ pc \in Stages /\ pc' = pc /\ UNCHANGED <<config, ranked>>
        /\ queue # <<>> /\ queue' = Tail(queue) /\ w \in Wrappers
    BY <1>0, <1>3, HandleType DEF Handled, Handle
  <2>2. Range(queue') \subseteq Range(queue) /\ w \in Range(queue)
    BY <1>0, <2>1, RangeTail
  <2>3. HandedOn(w) \/ DroppedNow(w) \/ FailedNow(w) \/ ScoredNow(w)
    BY <1>3 DEF Handled
  <2> HIDE DEF w
  <2>4. dials \subseteq dials'
    BY <2>3 DEF HandedOn, DroppedNow, FailedNow, ScoredNow, Dials1, Dial
  <2>5. DialledBy(w, Earlier(pc)) /\ MeasuredIfDone(w)
    BY <2>2 DEF Earned
  <2>6. \A v \in Range(queue') : DialledBy(v, Earlier(pc))' /\ MeasuredIfDone(v)'
    <3> SUFFICES ASSUME NEW v \in Range(queue')
                 PROVE  DialledBy(v, Earlier(pc))' /\ MeasuredIfDone(v)'
      OBVIOUS
    <3>1. DialledBy(v, Earlier(pc)) /\ MeasuredIfDone(v)
      BY <2>2 DEF Earned
    <3> QED
      BY <2>1, <2>4, <3>1 DEF DialledBy, Provided, MeasuredIfDone
  <2>7. \A v \in Range(out') : DialledBy(v, after)' /\ MeasuredIfDone(v)'
    <3>1. \A v \in Range(out) : DialledBy(v, after)' /\ MeasuredIfDone(v)'
      BY <2>1, <2>4 DEF Earned, DialledBy, Provided, MeasuredIfDone
    <3>2. CASE HandedOn(w)
      <4>1. PICK v \in Wrappers : Onward(w, v) /\ out' = Append(out, v)
        BY <3>2 DEF HandedOn
      <4>2. Range(out') = Range(out) \cup {v}
        BY <1>0, <4>1, RangeAppend
      <4>3. MeasuredIfDone(v)'
        BY <2>1, <2>5, <4>1 DEF Onward, SameLine, MeasuredIfDone
      <4>4. v.at = w.at /\ (pc # "dns" => v.ip = w.ip)
        BY <4>1 DEF Onward, SameLine
      <4>5. pc = "dns" => after = {}
        BY DEF Earlier, Diallers
      <4>6. pc \in Diallers /\ Provided(pc) => [at |-> w.at, stage |-> pc, ip |-> w.ip] \in dials'
        BY <3>2 DEF HandedOn, Dials1, Dial
      <4>7. ASSUME NEW s \in after, Provided(s)'
            PROVE  [at |-> v.at, stage |-> s, ip |-> v.ip] \in dials'
        <5>1. Provided(s)
          BY <2>1, <4>7 DEF Provided
        <5>2. v.ip = w.ip
          BY <4>4, <4>5, <4>7
        <5>3. CASE s \in Earlier(pc)
          BY <2>4, <2>5, <4>4, <5>1, <5>2, <5>3 DEF DialledBy
        <5>4. CASE s = pc /\ pc \in Diallers
          BY <4>4, <4>6, <5>1, <5>2, <5>4
        <5> QED
          BY <4>7, <5>3, <5>4
      <4>8. DialledBy(v, after)'
        BY <2>1, <4>7 DEF DialledBy
      <4> QED
        BY <3>1, <4>2, <4>3, <4>8
    <3>3. CASE out' = out
      BY <3>1, <3>3
    <3> QED
      BY <2>3, <3>2, <3>3 DEF DroppedNow, FailedNow, ScoredNow
  <2>8. \A o \in Range(outcomes') :
           o.scored => DialledBy(o.w, Diallers)' /\ config'.measurer /\ o.w.measured = "two"
    <3>1. \A o \in Range(outcomes) :
             o.scored => DialledBy(o.w, Diallers)' /\ config'.measurer /\ o.w.measured = "two"
      BY <2>1, <2>4 DEF Earned, DialledBy, Provided
    <3>2. CASE ScoredNow(w)
      <4>1. PICK x \in Outcomes : /\ outcomes' = Append(outcomes, x)
                                  /\ x.w = w /\ x.scored = Scored(w)
        <5> DEFINE y == [w |-> w, scored |-> Scored(w)]
        <5>1. y \in Outcomes /\ y.w = w /\ y.scored = Scored(w)
          BY <2>1 DEF Outcomes, Scored, Wrappers, w
        <5>2. outcomes' = Append(outcomes, y)
          BY <3>2 DEF ScoredNow
        <5> HIDE DEF y
        <5> QED
          BY <5>1, <5>2
      <4>2. Range(outcomes') = Range(outcomes) \cup {x}
        BY <1>0, <4>1, RangeAppend
      <4>3. Scored(w) => config.measurer /\ w.measured = "two"
        BY <2>5 DEF Scored, MeasuredIfDone
      <4>4. DialledBy(x.w, Diallers)'
        <5>1. Earlier(pc) = Diallers
          BY <3>2 DEF ScoredNow, Earlier
        <5>2. DialledBy(x.w, Diallers)
          BY <2>5, <4>1, <5>1
        <5> QED
          BY <2>1, <2>4, <5>2, DialledStays
      <4> QED
        BY <2>1, <3>1, <4>1, <4>2, <4>3, <4>4
    <3>3. CASE outcomes' = outcomes
      BY <3>1, <3>3
    <3> QED
      BY <2>3, <3>2, <3>3 DEF HandedOn, DroppedNow, FailedNow
  <2>9. pc' = "score" => out' = <<>>
    BY <2>1, <2>3 DEF Earned, HandedOn, DroppedNow, FailedNow, ScoredNow, LiveStages
  <2>10. \A v \in Range(ranked') :
            DialledBy(v, Diallers)' /\ config'.measurer /\ v.measured = "two"
    BY <2>1, <2>4 DEF Earned, DialledBy, Provided
  <2> QED
    BY <2>1, <2>6, <2>7, <2>8, <2>9, <2>10 DEF Earned, DialledBy
<1>4. CASE AnnotateGeo
  <2>1. /\ pc = "geo" /\ pc' = pc /\ out' = queue /\ queue' = <<>>
        /\ UNCHANGED <<config, outcomes, ranked, dials>>
    BY <1>4 DEF AnnotateGeo
  <2>2. Earlier(pc) = {} /\ Diallers \cap {pc} = {}
    BY <2>1 DEF Earlier, Diallers
  <2> QED
    BY <2>1, <2>2, RangeEmpty DEF Earned, DialledBy, Provided, MeasuredIfDone
<1>5. CASE NextStage
  <2>1. /\ queue' = out /\ out' = <<>> /\ UNCHANGED <<config, outcomes, ranked, dials>>
    BY <1>5 DEF NextStage
  <2>2. pc' = "rank" => pc = "score"
    BY <1>5, Follows
  <2>3. pc' # "rank" => Earlier(pc') = Earlier(pc) \cup (Diallers \cap {pc})
    BY <1>5, Follows DEF Earlier, Diallers
  <2>4. pc' = "rank" => out = <<>>
    BY <2>2 DEF Earned
  <2> QED
    BY <2>1, <2>3, <2>4, RangeEmpty DEF Earned, DialledBy, Provided, MeasuredIfDone
<1>6. CASE Closing
  <2>1. /\ pc \in {"rank", "output", "write", "report"}
        /\ pc' \in {"output", "write", "report", "end"}
        /\ UNCHANGED <<config, queue, out, outcomes, dials>>
        /\ ranked' = ranked \/ Range(ranked') \subseteq ScoredNodes
    BY <1>6 DEF Closing
  <2>2. Earlier(pc) = {} /\ Earlier(pc') = {} /\ Diallers \cap {pc'} = {}
    BY <2>1 DEF Earlier, Diallers
  <2>3. \A w \in ScoredNodes : DialledBy(w, Diallers) /\ config.measurer /\ w.measured = "two"
    BY DEF Earned, ScoredNodes
  <2>4. \A w \in Range(ranked') : DialledBy(w, Diallers) /\ config.measurer /\ w.measured = "two"
    BY <2>1, <2>3 DEF Earned
  <2> QED
    BY <2>1, <2>2, <2>4 DEF Earned, DialledBy, Provided, MeasuredIfDone
<1>7. CASE UNCHANGED vars
  <2>1. UNCHANGED <<config, pc, queue, out, outcomes, ranked, dials>>
    BY <1>7 DEF vars, ingestVars
  <2>2. Earlier(pc)' = Earlier(pc)
    BY <2>1 DEF Earlier
  <2>3. \A w, stages : DialledBy(w, stages)' <=> DialledBy(w, stages)
    BY <2>1 DEF DialledBy, Provided
  <2>4. \A w : MeasuredIfDone(w)' <=> MeasuredIfDone(w)
    BY <2>1 DEF MeasuredIfDone
  <2> QED
    BY <2>1, <2>2, <2>3, <2>4 DEF Earned
<1> QED
  BY <1>1, <1>2, <1>3, <1>4, <1>5, <1>6, <1>7, Steps

\* So it is in every run.
LEMMA EarnedHolds == Spec => []Earned
<1>1. Init => Earned
  <2> SUFFICES ASSUME Init PROVE Earned
    OBVIOUS
  <2>1. /\ pc = "start" /\ queue = <<>> /\ out = <<>> /\ outcomes = <<>> /\ ranked = <<>>
    BY DEF Init
  <2> QED
    BY <2>1, RangeEmpty DEF Earned
<1>2. Typing /\ Accounts /\ Earned /\ [Next]_vars => Earned'
  BY EarnedStep
<1> QED
  BY <1>1, <1>2, TypingHolds, AccountsHold, PTL DEF Spec

\* A rank is earned: no node is ranked that was not dialled, at its pinned address, by
\* every component the caller provided, or whose latency and jitter were not both
\* measured.
THEOREM RanksAreEarned == Spec => []RankIsEarned
<1>1. Earned => RankIsEarned
  BY DEF Earned, RankIsEarned, DialledBy, Provided, Diallers
<1> QED
  BY <1>1, EarnedHolds, PTL

-----------------------------------------------------------------------------
(* The length of a run *)

\* The stages in their order; what is left to read: sources, and lines of this one.
Order == <<"start", "ingest", "dedup", "dns", "geo", "tcp", "handshake", "measure",
           "score", "rank", "output", "write", "report", "end">>
SourcesLeft == Len(config.sources) + 1 - src
LinesLeft == Len(Source.lines) + 1 - pos

\* Each step leaves its stage for a later one, or leaves the stage less to do: a
\* source, a line of it or a node.  No outcome of a source, a lookup or a
\* connection makes the run do anything again.
StageEnds == \E i, j \in DOMAIN Order : i < j /\ Order[i] = pc /\ Order[j] = pc'
SourceEnds == pc = "ingest" /\ SourcesLeft' \in 0..(SourcesLeft - 1)
LineEnds == /\ pc = "ingest" /\ SourcesLeft' = SourcesLeft
            /\ LinesLeft' \in 0..(LinesLeft - 1)
NodeEnds == pc # "ingest" /\ Len(queue') < Len(queue)
WorkRunsOut ==
    [][StageEnds \/ (pc' = pc /\ (SourceEnds \/ LineEnds \/ NodeEnds))]_vars

\* Ingest goes on to the next line or the next source.
LEMMA IngestReadsOn ==
    ASSUME Typing, OpenSource \/ ReadLine \/ CloseSource
    PROVE  pc' = pc /\ (SourceEnds \/ LineEnds)
<1>1. /\ pc = "ingest" /\ pc' = pc /\ config' = config
      /\ src \in Nat \ {0} /\ pos \in Nat /\ src <= Len(config.sources)
  BY DEF OpenSource, ReadLine, CloseSource, Typing, TypeOK, Naming
<1>2. Len(config.sources) \in Nat /\ Len(Source.lines) \in Nat
  <2>1. config.sources \in Seq(Sources)
    BY ConfigAssumption DEF Typing, TypeOK, ConfigSpace
  <2>2. Source.lines \in Seq(Nodes \cup {Blank, Bad})
    BY <1>1, SourceType DEF Typing
  <2> QED
    BY <2>1, <2>2
<1>3. CASE src' = src + 1
  <2>1. SourcesLeft' = Len(config.sources) + 1 - (src + 1)
    BY <1>1, <1>3 DEF SourcesLeft
  <2>2. SourcesLeft = Len(config.sources) + 1 - src
    BY DEF SourcesLeft
  <2>3. SourcesLeft' \in 0..(SourcesLeft - 1)
    <3> DEFINE n == Len(config.sources)
    <3>1. n \in Nat /\ src \in Nat \ {0} /\ src <= n
      BY <1>1, <1>2
    <3> HIDE DEF n
    <3>2. n + 1 - (src + 1) \in 0..((n + 1 - src) - 1)
      BY <3>1
    <3> QED
      BY <2>1, <2>2, <3>2 DEF n
  <2> QED
    BY <1>1, <2>3 DEF SourceEnds
<1>4. CASE src' = src /\ pos' = pos + 1 /\ pos <= Len(Source.lines)
  <2>1. SourcesLeft' = SourcesLeft /\ Source' = Source
    BY <1>1, <1>4 DEF SourcesLeft, Source
  <2>2. LinesLeft' = Len(Source.lines) + 1 - (pos + 1)
    BY <1>4, <2>1 DEF LinesLeft
  <2>3. LinesLeft = Len(Source.lines) + 1 - pos
    BY DEF LinesLeft
  <2>4. LinesLeft' \in 0..(LinesLeft - 1)
    <3> DEFINE n == Len(Source.lines)
    <3>1. n \in Nat /\ pos \in Nat /\ pos <= n
      BY <1>1, <1>2, <1>4
    <3> HIDE DEF n
    <3>2. n + 1 - (pos + 1) \in 0..((n + 1 - pos) - 1)
      BY <3>1
    <3> QED
      BY <2>2, <2>3, <3>2 DEF n
  <2> QED
    BY <1>1, <2>1, <2>4 DEF LineEnds
<1>5. \/ src' = src + 1
      \/ src' = src /\ pos' = pos + 1 /\ pos <= Len(Source.lines)
  BY <1>1, <1>2 DEF OpenSource, ReadLine, CloseSource, AfterFailure
<1> QED
  BY <1>3, <1>4, <1>5

\* A stage takes its nodes one by one, or all of them at once.
LEMMA StageTakesNode ==
    ASSUME TypeOK, Handled \/ AnnotateGeo
    PROVE  pc' = pc /\ NodeEnds
<1>1. /\ pc # "ingest" /\ pc' = pc /\ queue # <<>>
      /\ queue' = Tail(queue) \/ queue' = <<>>
  BY DEF Handled, Handle, AnnotateGeo, Stages
<1>2. queue \in Seq(Wrappers)
  BY DEF TypeOK
<1>3. /\ Len(queue) \in Nat \ {0} /\ Len(Tail(queue)) = Len(queue) - 1
      /\ Len(<<>>) = 0
  BY <1>1, <1>2, HeadTail
<1> QED
  BY <1>1, <1>3 DEF NodeEnds

\* What is done with its stage goes on to a later one.
LEMMA StageIsLeft ==
    ASSUME \/ CheckInputs \/ EndIngest \/ NextStage
           \/ Rank \/ BuildOutputs \/ WriteOutputs \/ MergeReports
    PROVE  StageEnds
<1>1. CASE pc \in {"start", "ingest"}
  <2>1. \/ pc = "start" /\ pc' \in {"ingest", "end"}
        \/ pc = "ingest" /\ pc' = "dedup"
    BY <1>1 DEF CheckInputs, EndIngest, NextStage, Following, Rank, BuildOutputs,
                WriteOutputs, MergeReports
  <2> QED
    BY <2>1 DEF StageEnds, Order
<1>2. CASE NextStage
  BY <1>2, Follows DEF StageEnds, Order
<1>3. CASE Rank \/ BuildOutputs \/ WriteOutputs \/ MergeReports
  <2>1. \/ pc = "rank" /\ pc' \in {"output", "end"}
        \/ pc = "output" /\ pc' \in {"write", "report", "end"}
        \/ pc = "write" /\ pc' \in {"report", "end"}
        \/ pc = "report" /\ pc' = "end"
    BY <1>3 DEF Rank, BuildOutputs, WriteOutputs, MergeReports
  <2> QED
    BY <2>1 DEF StageEnds, Order
<1>4. CheckInputs \/ EndIngest => pc \in {"start", "ingest"}
  BY DEF CheckInputs, EndIngest
<1> QED
  BY <1>1, <1>2, <1>3, <1>4

\* Each step of a run leaves its stage for a later one, or leaves the stage a
\* source, a line or a node less to do, whatever the outside world answers; so no
\* run is without end.
THEOREM RunRunsOut == Spec => WorkRunsOut
<1> DEFINE Less == StageEnds \/ (pc' = pc /\ (SourceEnds \/ LineEnds \/ NodeEnds))
<1>1. Typing /\ [Next]_vars => [Less]_vars
  BY IngestReadsOn, StageStep, StageTakesNode, StageIsLeft DEF Next, Typing
<1>2. Spec => [][Less]_vars
  <2> HIDE DEF Less
  <2> QED
    BY <1>1, TypingHolds, PTL DEF Spec
<1> QED
  BY <1>2 DEF WorkRunsOut
===============================================================================
