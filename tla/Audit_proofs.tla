----------------------------- MODULE Audit_proofs -----------------------------
(***************************************************************************)
(* What the audit of a run tells, proved: each line a run has read has one *)
(* row, and that row is about this very line, provided no caller names a   *)
(* source as another one is numbered (NamesApart).                         *)
(*                                                                         *)
(*   Owned      an origin belongs to one source, and within it the line    *)
(*              numbers only grow: the key of a row is the line's own.     *)
(*   Ending     what the stages left behind when the rows are merged.      *)
(*                                                                         *)
(* From this, that a run implements AuditTrail, with one invariant more:   *)
(*                                                                         *)
(*   Whole      a source is lost whole or read whole: the lines behind the *)
(*              reader are blank, or stand among the nodes or the errors,  *)
(*              and a source that cannot be read has no line there.        *)
(***************************************************************************)
EXTENDS Pipeline_proofs

\* No source of a configuration bears the name another label gets when numbered.
NamesApart ==
    \A c \in Configs : \A i, j \in DOMAIN c.sources : \A n, m \in 1..MaxSources :
        OriginName(c.sources[i].label, n) = OriginName(c.sources[j].label, m) =>
            c.sources[i].label = c.sources[j].label /\ n = m

\* The lines the audit has a row for.
Entries == Range(nodes) \cup Range(errors)

\* A name that some source of the run has been given.
Given(name) ==
    \E i \in DOMAIN config.sources : \E n \in 1..MaxSources :
        /\ n <= names[config.sources[i].label]
        /\ name = OriginName(config.sources[i].label, n)

Current == OriginName(Source.label, names[Source.label])

Owned ==
    /\ \A x \in Entries : Behind(x.at) /\ Given(x.origin)
    /\ \A x, y \in Entries : x.origin = y.origin => x.at[1] = y.at[1]
    /\ \A x, y \in Entries : Key(x) = Key(y) => x.at = y.at
    /\ pos > 0 => \A x \in Entries : /\ x.at[1] = src <=> x.origin = Current
                                     /\ x.at[1] = src => x.line <= seen

\* No two entries are about one line.
Apart ==
    /\ \A i, j \in DOMAIN errors : errors[i].at = errors[j].at => i = j
    /\ \A w \in Range(nodes), e \in Range(errors) : w.at # e.at

-----------------------------------------------------------------------------
(* The keys of the audit *)

\* What ingest leaves, node or error, has a place, a line number and a name.
LEMMA EntryType ==
    ASSUME TypeOK, NEW x \in Entries
    PROVE  /\ x.at \in Nat \X Nat /\ x.at[1] \in Nat /\ x.at[2] \in Nat
           /\ x.line \in Nat /\ x.origin \in Names
<1>1. Range(nodes) \subseteq Wrappers /\ Range(errors) \subseteq Rejections
  BY RangeType DEF TypeOK
<1>2. x \in Wrappers \/ x \in Rejections
  BY <1>1 DEF Entries
<1>3. x.at \in Nat \X Nat /\ x.line \in Nat /\ x.origin \in Names
  BY <1>2 DEF Wrappers, Rejections
<1> QED
  BY <1>3

\* The name a source is given when it is opened is no one's yet.
LEMMA Fresh ==
    ASSUME NamesApart, Typing, pos = 0, src <= Len(config.sources)
    PROVE  /\ names[Source.label] + 1 \in 1..MaxSources
           /\ ~Given(OriginName(Source.label, names[Source.label] + 1))
<1> DEFINE n == names[Source.label] + 1
<1>1. /\ src \in Nat \ {0} /\ names \in [Labels -> Nat] /\ MaxSources \in Nat
      /\ config \in Configs /\ config.sources \in Seq(Sources) /\ TypeOK
  BY ConfigAssumption DEF Typing, TypeOK, ConfigSpace
<1>2. Source.label \in Labels /\ src <= MaxSources
  BY <1>1, SourceType
<1>3. n \in 1..MaxSources
  BY <1>1, <1>2 DEF Typing, Naming
<1>4. src \in DOMAIN config.sources
  BY <1>1
<1>5. ASSUME NEW i \in DOMAIN config.sources, NEW m \in 1..MaxSources,
             m <= names[config.sources[i].label],
             OriginName(Source.label, n) = OriginName(config.sources[i].label, m)
      PROVE  FALSE
  <2>1. Source.label = config.sources[i].label /\ n = m
    BY <1>1, <1>3, <1>4, <1>5 DEF NamesApart, Source
  <2> QED
    BY <1>1, <1>2, <1>5, <2>1
<1> QED
  BY <1>3, <1>5 DEF Given

\* Once opened, a source has a name.
LEMMA CurrentGiven ==
    ASSUME Typing, pos > 0
    PROVE  Given(Current) /\ src <= Len(config.sources)
<1>1. /\ src \in Nat \ {0} /\ names \in [Labels -> Nat] /\ MaxSources \in Nat /\ TypeOK
      /\ config.sources \in Seq(Sources)
  BY ConfigAssumption DEF Typing, TypeOK, ConfigSpace
<1>2. src <= Len(config.sources) /\ names[Source.label] >= 1
  BY DEF Typing, Naming
<1>3. Source.label \in Labels /\ src <= MaxSources
  BY <1>1, <1>2, SourceType
<1>4. names[Source.label] \in 1..MaxSources /\ src \in DOMAIN config.sources
  BY <1>1, <1>2, <1>3 DEF Typing, Naming
<1> QED
  BY <1>1, <1>2, <1>4 DEF Given, Current, Source

\* A line that is not among those of a sequence may be added.
LEMMA DistinctAppend ==
    ASSUME NEW S, NEW s \in Seq(S), NEW e \in S,
           \A i, j \in DOMAIN s : s[i].at = s[j].at => i = j,
           \A x \in Range(s) : x.at # e.at
    PROVE  \A i, j \in DOMAIN Append(s, e) : Append(s, e)[i].at = Append(s, e)[j].at => i = j
<1> DEFINE t == Append(s, e)
           n == Len(s) + 1
<1>1. /\ Len(s) \in Nat /\ DOMAIN t = 1..n /\ DOMAIN s = 1..Len(s)
      /\ t[n] = e /\ \A i \in 1..Len(s) : t[i] = s[i]
  BY Appended
<1>2. \A i \in DOMAIN s : t[i] = s[i] /\ s[i].at # e.at
  BY <1>1 DEF Range
<1>3. \A i \in DOMAIN t : i \in DOMAIN s \/ i = n
  BY <1>1
<1> HIDE DEF t, n
<1>4. \A i, j \in DOMAIN t : t[i].at = t[j].at => i = j
  BY <1>1, <1>2, <1>3
<1> QED
  BY <1>4 DEF t

\* Origins keep their owners in every step.
LEMMA OwnedStep ==
    ASSUME NamesApart, Typing, Typing', Accounts, Owned, Apart, [Next]_vars
    PROVE  Owned' /\ Apart'
<1>0. /\ TypeOK /\ TypeOK' /\ nodes \in Seq(Wrappers) /\ errors \in Seq(Rejections)
      /\ src \in Nat \ {0} /\ pos \in Nat /\ seen \in Nat /\ names \in [Labels -> Nat]
      /\ names' \in [Labels -> Nat] /\ MaxSources \in Nat
      /\ config.sources \in Seq(Sources)
  BY ConfigAssumption DEF Typing, TypeOK, ConfigSpace
<1>a. \A x \in Entries : /\ x.at \in Nat \X Nat /\ x.at[1] \in Nat /\ x.at[2] \in Nat
                         /\ x.line \in Nat
  BY <1>0, EntryType
<1>1. CASE OpenSource
  <2>1. /\ pos = 0 /\ src <= Len(config.sources) /\ UNCHANGED <<config, nodes, seen>>
        /\ names' = [names EXCEPT ![Source.label] = @ + 1]
    BY <1>1 DEF OpenSource
  <2> DEFINE name == OriginName(Source.label, names[Source.label] + 1)
  <2>2. Source.label \in Labels /\ names'[Source.label] = names[Source.label] + 1
        /\ \A x \in Labels : names[x] <= names'[x]
    BY <1>0, <2>1, SourceType
  <2>3. \A x : Given(x) => Given(x)'
    <3>1. \A i \in DOMAIN config.sources : config.sources[i].label \in Labels
      <4>1. \A i \in DOMAIN config.sources : config.sources[i] \in Sources
        BY <1>0
      <4> QED
        BY <4>1 DEF Sources
    <3>2. \A i \in DOMAIN config.sources, n \in 1..MaxSources :
             n <= names[config.sources[i].label] => n <= names'[config.sources[i].label]
      <4> TAKE i \in DOMAIN config.sources, n \in 1..MaxSources
      <4>1. PICK x \in Labels : x = config.sources[i].label
        BY <3>1
      <4>2. names[x] \in Nat /\ names'[x] \in Nat /\ names[x] <= names'[x] /\ n \in Nat
        BY <1>0, <2>2
      <4> QED
        BY <4>1, <4>2
    <3> QED
      BY <2>1, <3>2 DEF Given
  <2>4. names[Source.label] + 1 \in 1..MaxSources /\ ~Given(name)
    BY <2>1, Fresh
  <2>5. \A x \in Entries : x.at[1] < src /\ x.origin # name /\ Given(x.origin)'
    BY <1>0, <1>a, <2>1, <2>3, <2>4 DEF Owned, Behind
  <2>6. \/ pos' = 1 /\ src' = src /\ UNCHANGED errors
        \/ pos' = 0 /\ src' = src + 1 /\ UNCHANGED errors
        \/ pos' = 0 /\ src' = src + 1 /\ errors' = Append(errors, FileError(Source.label))
    BY <1>1, <2>1 DEF OpenSource, AfterFailure
  <2> HIDE DEF name
  <2>7. CASE UNCHANGED errors
    <3>1. Entries' = Entries
      BY <2>1, <2>7 DEF Entries
    <3>2. \A x \in Entries : Behind(x.at)'
      BY <1>0, <1>a, <2>5, <2>6 DEF Behind
    <3>3. pos' > 0 => src' = src /\ Current' = name
      BY <1>0, <2>1, <2>2, <2>6 DEF Current, Source, name
    <3>4. pos' > 0 => \A x \in Entries : x.at[1] # src' /\ x.origin # Current'
      BY <1>0, <1>a, <2>5, <3>3
    <3>5. Owned'
      BY <2>5, <3>1, <3>2, <3>4 DEF Owned
    <3>6. Apart'
      BY <2>1, <2>7 DEF Apart
    <3> QED
      BY <3>5, <3>6
  <2>8. CASE ~UNCHANGED errors
    <3>1. PICK e : /\ e = FileError(Source.label)
                   /\ pos' = 0 /\ src' = src + 1 /\ errors' = Append(errors, e)
      BY <2>6, <2>8
    <3>2. e.origin = name /\ e.at = <<src, 0>>
      BY <3>1 DEF FileError, name
    <3>3. e \in Rejections
      <4>1. errors' \in Seq(Rejections)
        BY <1>0 DEF TypeOK
      <4>2. errors'[Len(errors) + 1] = e /\ Len(errors') = Len(errors) + 1
        BY <1>0, <3>1
      <4> QED
        BY <1>0, <4>1, <4>2
    <3>4. Entries' = Entries \cup {e}
      BY <1>0, <2>1, <3>1, <3>3, RangeAppend DEF Entries
    <3>5. Given(e.origin)'
      <4>1. src \in DOMAIN config.sources
        BY <1>0, <2>1
      <4> QED
        BY <1>0, <2>1, <2>2, <2>4, <3>2, <4>1, SMTT(30) DEF Given, Source, name
    <3>6. \A x \in Entries' : Behind(x.at)' /\ Given(x.origin)'
      BY <1>0, <1>a, <2>5, <3>1, <3>2, <3>4, <3>5 DEF Behind
    <3>7. \A x \in Entries : x.origin # e.origin /\ x.at # e.at
      BY <1>0, <1>a, <2>5, <3>2
    <3>8. \A x, y \in Entries' : x.origin = y.origin => x.at[1] = y.at[1]
      BY <3>4, <3>7 DEF Owned
    <3>9. \A x, y \in Entries' : Key(x) = Key(y) => x.at = y.at
      BY <3>4, <3>7 DEF Owned, Key
    <3>10. Owned'
      BY <3>1, <3>6, <3>8, <3>9 DEF Owned
    <3>11. Apart'
      <4>1. \A i, j \in DOMAIN errors' : errors'[i].at = errors'[j].at => i = j
        <5>1. \A x \in Range(errors) : x.at # e.at
          BY <3>7 DEF Entries
        <5>2. \A i, j \in DOMAIN errors : errors[i].at = errors[j].at => i = j
          BY DEF Apart
        <5> QED
          <6>1. \A i, j \in DOMAIN Append(errors, e) :
                   Append(errors, e)[i].at = Append(errors, e)[j].at => i = j
            BY <1>0, <3>3, <5>1, <5>2, DistinctAppend
          <6> QED
            BY <3>1, <6>1
      <4>2. Range(errors') = Range(errors) \cup {e}
        BY <1>0, <3>1, <3>3, RangeAppend
      <4> QED
        BY <2>1, <3>7, <4>1, <4>2 DEF Apart, Entries
    <3> QED
      BY <3>10, <3>11
  <2> QED
    BY <2>7, <2>8
<1>2. CASE ReadLine
  <2>1. /\ pos > 0 /\ pos' = pos + 1 /\ src' = src /\ seen' = seen + 1
        /\ UNCHANGED <<config, names>>
    BY <1>2 DEF ReadLine
  <2>2. Current' = Current /\ Given(Current) /\ \A x : Given(x) => Given(x)'
    BY <2>1, CurrentGiven DEF Current, Source, Given
  <2>3. PICK x : /\ x.origin = Current /\ x.line = seen + 1 /\ x.at = <<src, pos>>
                 /\ \/ UNCHANGED <<nodes, errors>>
                    \/ nodes' = Append(nodes, x) /\ UNCHANGED errors
                    \/ errors' = Append(errors, x) /\ UNCHANGED nodes
    <3> DEFINE line == Source.lines[pos]
               e == [origin |-> Current, line |-> seen + 1, at |-> <<src, pos>>]
               w == [node |-> line, origin |-> Current, line |-> seen + 1,
                     at |-> <<src, pos>>, ip |-> NoIP, measured |-> "none",
                     inRange |-> FALSE]
    <3>1. \/ UNCHANGED <<nodes, errors>>
          \/ nodes' = Append(nodes, w) /\ UNCHANGED errors
          \/ errors' = Append(errors, e) /\ UNCHANGED nodes
      BY <1>2 DEF ReadLine, Current
    <3>2. /\ e.origin = Current /\ e.line = seen + 1 /\ e.at = <<src, pos>>
          /\ w.origin = Current /\ w.line = seen + 1 /\ w.at = <<src, pos>>
      OBVIOUS
    <3> HIDE DEF e, w
    <3> QED
      BY <3>1, <3>2
  <2>4. \A y \in Entries : y.at # x.at /\ (y.origin = Current => y.line <= seen)
    BY <1>0, <1>a, <2>1, <2>3 DEF Owned, Behind
  <2>5. /\ nodes' = Append(nodes, x) => x \in Wrappers
        /\ errors' = Append(errors, x) => x \in Rejections
    <3>1. nodes' \in Seq(Wrappers) /\ errors' \in Seq(Rejections)
      BY <1>0 DEF TypeOK
    <3>2. nodes' = Append(nodes, x) =>
             nodes'[Len(nodes) + 1] = x /\ Len(nodes') = Len(nodes) + 1
      BY <1>0
    <3>3. errors' = Append(errors, x) =>
             errors'[Len(errors) + 1] = x /\ Len(errors') = Len(errors) + 1
      BY <1>0
    <3>4. Len(nodes) \in Nat /\ Len(errors) \in Nat
      BY <1>0
    <3>5. ASSUME nodes' = Append(nodes, x) PROVE x \in Wrappers
      BY <3>1, <3>2, <3>4, <3>5
    <3>6. ASSUME errors' = Append(errors, x) PROVE x \in Rejections
      BY <3>1, <3>3, <3>4, <3>6
    <3> QED
      BY <3>5, <3>6
  <2>6. Entries' \subseteq Entries \cup {x}
    <3>1. CASE nodes' = Append(nodes, x) /\ UNCHANGED errors
      <4>1. Range(nodes') = Range(nodes) \cup {x}
        BY <1>0, <2>5, <3>1, RangeAppend
      <4> QED
        BY <3>1, <4>1 DEF Entries
    <3>2. CASE errors' = Append(errors, x) /\ UNCHANGED nodes
      <4>1. Range(errors') = Range(errors) \cup {x}
        BY <1>0, <2>5, <3>2, RangeAppend
      <4> QED
        BY <3>2, <4>1 DEF Entries
    <3>3. CASE UNCHANGED <<nodes, errors>>
      BY <3>3 DEF Entries
    <3> QED
      BY <2>3, <3>1, <3>2, <3>3
  <2>7. Behind(x.at)' /\ x.at[1] = src /\ x.line <= seen'
    BY <1>0, <2>1, <2>3 DEF Behind
  <2>8. \A y \in Entries : /\ Behind(y.at)'
                           /\ y.at[1] = src => y.line <= seen'
    <3> TAKE y \in Entries
    <3>1. Behind(y.at)'
      BY <1>0, <1>a, <2>1 DEF Owned, Behind
    <3>2. y.at[1] = src => y.line <= seen'
      BY <1>0, <1>a, <2>1 DEF Owned
    <3> QED
      BY <3>1, <3>2
  <2>9. \A y \in Entries : y.origin = x.origin <=> y.at[1] = src
    BY <2>1, <2>3 DEF Owned
  <2>10. \A y \in Entries : Key(y) # Key(x)
    <3>1. \A y \in Entries : y.origin = Current => y.line # seen + 1
      BY <1>0, <1>a, <2>4
    <3> QED
      BY <2>3, <3>1 DEF Key
  <2>11. \A y \in Entries' : Behind(y.at)' /\ Given(y.origin)'
    BY <2>2, <2>3, <2>6, <2>7, <2>8 DEF Owned
  <2>12. \A y, z \in Entries' : y.origin = z.origin => y.at[1] = z.at[1]
    BY <2>6, <2>7, <2>9 DEF Owned
  <2>13. \A y, z \in Entries' : Key(y) = Key(z) => y.at = z.at
    BY <2>6, <2>10 DEF Owned
  <2>14. \A y \in Entries' : /\ y.at[1] = src' <=> y.origin = Current'
                             /\ y.at[1] = src' => y.line <= seen'
    BY <2>1, <2>2, <2>3, <2>6, <2>7, <2>8, <2>9
  <2>15. Owned'
    BY <2>11, <2>12, <2>13, <2>14 DEF Owned
  <2>16. Apart'
    <3>1. CASE nodes' = Append(nodes, x) /\ UNCHANGED errors
      <4>1. Range(nodes') = Range(nodes) \cup {x}
        BY <1>0, <2>5, <3>1, RangeAppend
      <4> QED
        BY <2>4, <3>1, <4>1 DEF Apart, Entries
    <3>2. CASE errors' = Append(errors, x) /\ UNCHANGED nodes
      <4>1. \A i, j \in DOMAIN errors' : errors'[i].at = errors'[j].at => i = j
        <5>1. \A y \in Range(errors) : y.at # x.at
          BY <2>4 DEF Entries
        <5>2. \A i, j \in DOMAIN errors : errors[i].at = errors[j].at => i = j
          BY DEF Apart
        <5>3. x \in Rejections
          BY <2>5, <3>2
        <5> QED
          BY <1>0, <3>2, <5>1, <5>2, <5>3, DistinctAppend
      <4>2. Range(errors') = Range(errors) \cup {x}
        BY <1>0, <2>5, <3>2, RangeAppend
      <4> QED
        BY <2>4, <3>2, <4>1, <4>2 DEF Apart, Entries
    <3>3. CASE UNCHANGED <<nodes, errors>>
      BY <3>3 DEF Apart
    <3> QED
      BY <2>3, <3>1, <3>2, <3>3
  <2> QED
    BY <2>15, <2>16
<1>3. CASE CloseSource
  <2>1. pos' = 0 /\ src' = src + 1 /\ UNCHANGED <<config, names, seen, nodes, errors>>
    BY <1>3 DEF CloseSource
  <2>2. \A x \in Entries : Behind(x.at)'
    <3> TAKE x \in Entries
    <3>1. x.at[1] < src + 1
      <4>1. Behind(x.at)
        BY DEF Owned
      <4>2. x.at[1] \in Nat
        BY <1>a
      <4> QED
        BY <1>0, <4>1, <4>2 DEF Behind
    <3> QED
      BY <2>1, <3>1 DEF Behind
  <2>3. Entries' = Entries /\ \A x : Given(x) => Given(x)'
    BY <2>1 DEF Entries, Given
  <2> QED
    BY <2>1, <2>2, <2>3 DEF Owned, Apart
<1>4. CASE UNCHANGED <<config, src, pos, names, seen, nodes, errors>>
  BY <1>4 DEF Owned, Apart, Entries, Behind, Given, Current, Source
<1>5. Next => OpenSource \/ ReadLine \/ CloseSource
              \/ UNCHANGED <<config, src, pos, names, seen, nodes, errors>>
  <2> SUFFICES ASSUME Next, ~(OpenSource \/ ReadLine \/ CloseSource)
               PROVE  UNCHANGED <<config, src, pos, names, seen, nodes, errors>>
    OBVIOUS
  <2>1. Handled => UNCHANGED <<config, src, pos, names, seen, nodes, errors>>
    BY <1>0, HandleType DEF Handled
  <2>2. CheckInputs \/ EndIngest \/ AnnotateGeo \/ NextStage \/ Rank \/ BuildOutputs
          \/ WriteOutputs \/ MergeReports
        => UNCHANGED <<config, src, pos, names, seen, nodes, errors>>
    BY DEF CheckInputs, EndIngest, AnnotateGeo, NextStage, Rank, BuildOutputs,
           WriteOutputs, MergeReports, ingestVars
  <2> QED
    BY <1>0, <2>1, <2>2, StageStep DEF Next
<1> QED
  BY <1>1, <1>2, <1>3, <1>4, <1>5 DEF vars

\* They do so for ever, and no two entries have one key.
LEMMA OwnedHolds ==
    ASSUME NamesApart
    PROVE  Spec => [](Owned /\ Apart)
<1>1. Init => Owned /\ Apart
  <2> SUFFICES ASSUME Init PROVE Owned /\ Apart
    OBVIOUS
  <2>1. nodes = <<>> /\ errors = <<>> /\ Entries = {}
    BY RangeEmpty DEF Init, Entries
  <2> QED
    BY <2>1, RangeEmpty DEF Owned, Apart
<1>2. Typing /\ Typing' /\ Accounts /\ (Owned /\ Apart) /\ [Next]_vars => (Owned /\ Apart)'
  BY OwnedStep
<1> QED
  BY <1>1, <1>2, TypingHolds, AccountsHold, PTL DEF Spec

\* Where no caller names a source as another one is numbered, the key under which the
\* reports of a run are merged, (origin, line_no), tells its lines apart.
THEOREM JoinKeysUnique ==
    ASSUME NamesApart
    PROVE  Spec => []JoinKeyUnique
<1>1. Owned => JoinKeyUnique
  BY DEF Owned, JoinKeyUnique, Entries
<1> QED
  BY <1>1, OwnedHolds, PTL

-----------------------------------------------------------------------------
(* The end of a run *)

\* The keys of the audit, and what rank_candidates hands on.
AuditKeys == {Key(e) : e \in Range(errors)} \cup {Key(w) : w \in Range(nodes)}
Ordered ==
    /\ \A i, j \in DOMAIN ranked : ranked[i] = ranked[j] => i = j
    /\ Range(ranked) \subseteq ScoredNodes
    /\ \/ ScoredNodes \subseteq Range(ranked)
       \/ Len(ranked) = config.top_n

Ending ==
    /\ pc # "end" => error = "none"
    /\ pc \in {"rank", "output", "write", "report"} \/ Done => queue = <<>> /\ out = <<>>
    /\ pc \in {"output", "write", "report"} \/ Done => Ordered
    /\ Done => rows = {Row(k) : k \in AuditKeys}

\* The ranking lists scored nodes, each once, and all of them unless it is cut.
LEMMA RankOrders ==
    ASSUME TypeOK, Rank, pc' = "output"
    PROVE  Ordered'
<1> DEFINE n == Cardinality(ScoredNodes)
<1>1. n \in Nat
  BY ScoredType, FS_CardinalityType
<1>2. /\ config.top_n = NoLimit \/ config.top_n \in Nat \ {0}
      /\ UNCHANGED <<config, outcomes>>
  <2>1. config.top_n \in Nat \cup {NoLimit}
    BY ConfigAssumption DEF TypeOK, ConfigSpace
  <2> QED
    BY <2>1 DEF Rank
<1>3. PICK order \in Bijection(1..n, ScoredNodes) :
         ranked' = IF config.top_n = NoLimit \/ config.top_n >= n
                   THEN order ELSE SubSeq(order, 1, config.top_n)
  BY DEF Rank
<1>4. /\ order \in [1..n -> ScoredNodes]
      /\ \A i, j \in 1..n : order[i] = order[j] => i = j
      /\ \A w \in ScoredNodes : \E i \in 1..n : order[i] = w
  BY <1>3 DEF Bijection, Injection, Surjection, IsInjective
<1>5. ScoredNodes' = ScoredNodes
  BY <1>2 DEF ScoredNodes
<1> HIDE DEF n
<1>6. CASE ranked' = order
  <2>1. Range(order) = ScoredNodes
    BY <1>4 DEF Range
  <2>2. DOMAIN ranked' = 1..n
    BY <1>4, <1>6
  <2> QED
    BY <1>4, <1>5, <1>6, <2>1, <2>2 DEF Ordered
<1>7. CASE config.top_n \in Nat /\ config.top_n < n /\ ranked' = SubSeq(order, 1, config.top_n)
  <2> DEFINE m == config.top_n
             s == SubSeq(order, 1, m)
  <2>1. order \in Seq(ScoredNodes) /\ Len(order) = n
    BY <1>1, <1>4
  <2>2. Len(s) = m /\ DOMAIN s = 1..m /\ \A i \in 1..m : s[i] = order[i]
    BY <1>1, <1>7, <2>1
  <2>3. \A i \in 1..m : i \in 1..n
    BY <1>1, <1>7
  <2>4. config'.top_n = m
    BY <1>2
  <2> HIDE DEF s, m
  <2>5. \A i, j \in DOMAIN s : s[i] = s[j] => i = j
    BY <1>4, <2>2, <2>3
  <2>6. Range(s) \subseteq ScoredNodes
    BY <1>4, <2>2, <2>3 DEF Range
  <2>7. ranked' = s
    BY <1>7 DEF s, m
  <2> QED
    BY <1>5, <2>2, <2>4, <2>5, <2>6, <2>7 DEF Ordered
<1> QED
  BY <1>1, <1>2, <1>3, <1>6, <1>7

\* The stages leave their results as the merge expects them.
LEMMA EndingStep ==
    ASSUME Typing, Earned, Ending, [Next]_vars
    PROVE  Ending'
<1>0. TypeOK
  BY DEF Typing
<1>a. pc # "end" => error = "none"
  BY DEF Ending
<1>b. UNCHANGED <<config, errors, nodes, dropped, failed, outcomes, ranked>> =>
        /\ \A k : Row(k)' = Row(k)
        /\ AuditKeys' = AuditKeys
        /\ Ordered => Ordered'
  BY DEF Row, Verdict, Unscored, Failures, Dropped, Rejected, Ranks, AuditKeys, Ordered,
         ScoredNodes
<1>1. CASE CheckInputs
  <2>1. /\ pc = "start"
        /\ \/ pc' = "end" /\ error' = "input"
           \/ pc' = "ingest" /\ error' = error
    BY <1>1 DEF CheckInputs
  <2> QED
    BY <1>a, <2>1 DEF Ending, Done
<1>2. CASE OpenSource \/ ReadLine \/ CloseSource \/ EndIngest \/ Handled \/ AnnotateGeo
  <2>1. /\ UNCHANGED error
        /\ pc \in {"ingest", "geo"} \cup Stages /\ pc' \in {"ingest", "dedup", "geo"} \cup Stages
    <3>1. CASE Handled
      BY <1>0, <3>1, HandleType DEF Handled
    <3>2. CASE ~Handled
      BY <1>2, <3>2 DEF OpenSource, ReadLine, CloseSource, EndIngest, AnnotateGeo
    <3> QED
      BY <3>1, <3>2
  <2> QED
    BY <1>a, <2>1 DEF Ending, Done, Stages
<1>3. CASE NextStage
  <2>1. queue' = out /\ out' = <<>> /\ error' = error
    BY <1>3 DEF NextStage
  <2>2. pc' = "rank" => out = <<>>
    BY <1>3, Follows DEF Earned
  <2>3. pc # "end" /\ pc' \notin {"output", "write", "report", "end"}
    BY <1>3, Follows
  <2> QED
    BY <1>a, <2>1, <2>2, <2>3 DEF Ending, Done
<1>4. CASE Rank
  <2>1. /\ pc = "rank" /\ UNCHANGED <<queue, out>>
        /\ \/ pc' = "end" /\ error' = "input"
           \/ pc' = "output" /\ error' = error
    BY <1>4 DEF Rank
  <2>2. pc' = "output" => Ordered'
    BY <1>0, <1>4, RankOrders
  <2> QED
    BY <1>a, <2>1, <2>2 DEF Ending, Done
<1>5. CASE BuildOutputs \/ WriteOutputs
  <2>1. /\ pc \in {"output", "write"} /\ UNCHANGED <<queue, out>>
        /\ \/ pc' = "end" /\ error' \in {"output", "writer"}
           \/ pc' \in {"write", "report"} /\ error' = error
        /\ UNCHANGED <<config, errors, nodes, dropped, failed, outcomes, ranked>>
    BY <1>5 DEF BuildOutputs, WriteOutputs, ingestVars
  <2> QED
    BY <1>a, <1>b, <2>1 DEF Ending, Done
<1>6. CASE MergeReports
  <2>1. /\ pc = "report" /\ pc' = "end" /\ UNCHANGED <<error, queue, out>>
        /\ UNCHANGED <<config, errors, nodes, dropped, failed, outcomes, ranked>>
        /\ rows' = {Row(k) : k \in AuditKeys}
    BY <1>6 DEF MergeReports, ingestVars, AuditKeys
  <2>2. rows' = {Row(k)' : k \in AuditKeys'}
    BY <1>b, <2>1
  <2> QED
    BY <1>a, <1>b, <2>1, <2>2 DEF Ending, Done
<1>7. CASE UNCHANGED vars
  <2>1. UNCHANGED <<pc, error, queue, out, rows>>
        /\ UNCHANGED <<config, errors, nodes, dropped, failed, outcomes, ranked>>
    BY <1>7 DEF vars
  <2>2. Done => rows' = {Row(k)' : k \in AuditKeys'}
    BY <1>b, <2>1 DEF Ending
  <2> QED
    BY <1>b, <2>1, <2>2 DEF Ending, Done
<1> QED
  BY <1>0, <1>1, <1>2, <1>3, <1>4, <1>5, <1>6, <1>7, StageStep DEF Next

\* They do so in every run.
LEMMA EndingHolds == Spec => []Ending
<1>1. Init => Ending
  BY DEF Init, Ending, Done
<1>2. Typing /\ Earned /\ Ending /\ [Next]_vars => Ending'
  BY EndingStep
<1> QED
  BY <1>1, <1>2, TypingHolds, EarnedHolds, PTL DEF Spec

\* Where a key leads.  Each line that has come out of the stages is in one of their
\* reports, once, and no line that ingest rejected is in any.
LEMMA KeyOfLine ==
    ASSUME Typing, Accounts, Owned, Apart
    PROVE  /\ \A v, w \in Travelling : Key(v) = Key(w) => v.at = w.at
           /\ \A v \in Travelling, x \in Range(errors) : Key(v) # Key(x)
<1>1. ASSUME NEW v \in Travelling
      PROVE  \E n \in Range(nodes) : n.at = v.at /\ Key(n) = Key(v)
  <2>1. PICK i \in DOMAIN nodes : SameLine(nodes[i], v)
    BY DEF Accounts, Traced, Comes
  <2>2. nodes[i] \in Range(nodes)
    BY DEF Range
  <2> QED
    BY <2>1, <2>2 DEF SameLine, Key
<1>2. \A n, m \in Range(nodes) : Key(n) = Key(m) => n.at = m.at
  BY DEF Owned, Entries
<1>3. \A n \in Range(nodes), x \in Range(errors) : Key(n) # Key(x)
  BY DEF Owned, Apart, Entries
<1> QED
  BY <1>1, <1>2, <1>3

\* When all stages are through, a line is in one report.
LEMMA OneReport ==
    ASSUME Typing, Accounts, pc \notin {"start", "ingest"}, queue = <<>>, out = <<>>,
           NEW v \in Travelling
    PROVE  LET a == v.at IN
           /\ Hits(dropped, NodesAt(a)) \in Nat /\ Hits(failed, LossesAt(a)) \in Nat
           /\ Hits(outcomes, OutcomesAt(a)) \in Nat
           /\ Hits(dropped, NodesAt(a)) + Hits(failed, LossesAt(a))
                + Hits(outcomes, OutcomesAt(a)) = 1
<1> DEFINE a == v.at
<1>1. PICK i \in DOMAIN nodes : nodes[i].at = a
  BY DEF Accounts, Traced, Comes, SameLine
<1>2. Total(a) = 1
  BY <1>1 DEF Accounts, Counted
<1>3. Hits(queue, NodesAt(a)) = 0 /\ Hits(out, NodesAt(a)) = 0
  BY HitsEmpty
<1>4. dropped \in Seq(Wrappers) /\ failed \in Seq(Losses) /\ outcomes \in Seq(Outcomes)
  BY DEF Typing, TypeOK
<1>5. /\ Hits(dropped, NodesAt(a)) \in Nat /\ Hits(failed, LossesAt(a)) \in Nat
      /\ Hits(outcomes, OutcomesAt(a)) \in Nat
  BY <1>4, HitsType
<1> QED
  BY <1>2, <1>3, <1>5 DEF Total

\* Between two stages no key is in two of the lists, or twice in one.
LEMMA OneFate ==
    ASSUME Typing, Accounts, Owned, Apart, pc \notin {"start", "ingest"},
           queue = <<>>, out = <<>>
    PROVE  /\ \A w \in Range(dropped), f \in Range(failed) : Key(w) # Key(f.w)
           /\ \A w \in Range(dropped), o \in Range(outcomes) : Key(w) # Key(o.w)
           /\ \A f \in Range(failed), o \in Range(outcomes) : Key(f.w) # Key(o.w)
           /\ \A i, j \in DOMAIN failed : Key(failed[i].w) = Key(failed[j].w) => i = j
           /\ \A i, j \in DOMAIN outcomes : Key(outcomes[i].w) = Key(outcomes[j].w) => i = j
<1>0. dropped \in Seq(Wrappers) /\ failed \in Seq(Losses) /\ outcomes \in Seq(Outcomes)
  BY DEF Typing, TypeOK
<1>1. ASSUME NEW i \in DOMAIN dropped, NEW a, dropped[i].at = a
      PROVE  dropped[i] \in Travelling /\ Hits(dropped, NodesAt(a)) # 0
  <2>1. dropped[i] \in Wrappers /\ dropped[i] \in NodesAt(a)
    BY <1>0, <1>1 DEF NodesAt
  <2>2. Hits(dropped, NodesAt(a)) # 0
    BY <1>0, <2>1, HitsSome
  <2> QED
    BY <2>2 DEF Travelling, Range
<1>2. ASSUME NEW i \in DOMAIN failed, NEW a, failed[i].w.at = a
      PROVE  /\ failed[i].w \in Travelling
             /\ Hits(failed, LossesAt(a)) # 0
             /\ Hits(failed, LossesAt(a)) = 1 =>
                   \A j \in DOMAIN failed : failed[j].w.at = a => j = i
  <2>1. \A j \in DOMAIN failed : failed[j].w.at = a => failed[j] \in LossesAt(a)
    BY <1>0 DEF LossesAt
  <2>2. /\ Hits(failed, LossesAt(a)) # 0
        /\ Hits(failed, LossesAt(a)) = 1 =>
              \A j \in DOMAIN failed : failed[j] \in LossesAt(a) => j = i
    BY <1>0, <1>2, <2>1, HitsSome
  <2>3. failed[i].w \in Travelling
    BY DEF Travelling, Range
  <2> QED
    BY <2>1, <2>2, <2>3
<1>3. ASSUME NEW i \in DOMAIN outcomes, NEW a, outcomes[i].w.at = a
      PROVE  /\ outcomes[i].w \in Travelling
             /\ Hits(outcomes, OutcomesAt(a)) # 0
             /\ Hits(outcomes, OutcomesAt(a)) = 1 =>
                   \A j \in DOMAIN outcomes : outcomes[j].w.at = a => j = i
  <2>1. \A j \in DOMAIN outcomes : outcomes[j].w.at = a => outcomes[j] \in OutcomesAt(a)
    BY <1>0 DEF OutcomesAt
  <2>2. /\ Hits(outcomes, OutcomesAt(a)) # 0
        /\ Hits(outcomes, OutcomesAt(a)) = 1 =>
              \A j \in DOMAIN outcomes : outcomes[j] \in OutcomesAt(a) => j = i
    BY <1>0, <1>3, <2>1, HitsSome
  <2>3. outcomes[i].w \in Travelling
    BY DEF Travelling, Range
  <2> QED
    BY <2>1, <2>2, <2>3
<1>4. ASSUME NEW i \in DOMAIN dropped, NEW j \in DOMAIN failed,
             Key(dropped[i]) = Key(failed[j].w)
      PROVE  FALSE
  <2> DEFINE a == dropped[i].at
  <2>1. dropped[i] \in Travelling /\ failed[j].w \in Travelling
    BY <1>1, <1>2
  <2>2. failed[j].w.at = a
    BY <1>4, <2>1, KeyOfLine
  <2>3. Hits(dropped, NodesAt(a)) # 0 /\ Hits(failed, LossesAt(a)) # 0
    BY <1>1, <1>2, <2>2
  <2> QED
    BY <2>1, <2>3, OneReport
<1>5. ASSUME NEW i \in DOMAIN dropped, NEW j \in DOMAIN outcomes,
             Key(dropped[i]) = Key(outcomes[j].w)
      PROVE  FALSE
  <2> DEFINE a == dropped[i].at
  <2>1. dropped[i] \in Travelling /\ outcomes[j].w \in Travelling
    BY <1>1, <1>3
  <2>2. outcomes[j].w.at = a
    BY <1>5, <2>1, KeyOfLine
  <2>3. Hits(dropped, NodesAt(a)) # 0 /\ Hits(outcomes, OutcomesAt(a)) # 0
    BY <1>1, <1>3, <2>2
  <2> QED
    BY <2>1, <2>3, OneReport
<1>6. ASSUME NEW i \in DOMAIN failed, NEW j \in DOMAIN outcomes,
             Key(failed[i].w) = Key(outcomes[j].w)
      PROVE  FALSE
  <2> DEFINE a == failed[i].w.at
  <2>1. failed[i].w \in Travelling /\ outcomes[j].w \in Travelling
    BY <1>2, <1>3
  <2>2. outcomes[j].w.at = a
    BY <1>6, <2>1, KeyOfLine
  <2>3. Hits(failed, LossesAt(a)) # 0 /\ Hits(outcomes, OutcomesAt(a)) # 0
    BY <1>2, <1>3, <2>2
  <2> QED
    BY <2>1, <2>3, OneReport
<1>7. ASSUME NEW i \in DOMAIN failed, NEW j \in DOMAIN failed,
             Key(failed[i].w) = Key(failed[j].w)
      PROVE  i = j
  <2> DEFINE a == failed[i].w.at
  <2>1. failed[i].w \in Travelling /\ failed[j].w \in Travelling
    BY <1>2
  <2>2. failed[j].w.at = a
    BY <1>7, <2>1, KeyOfLine
  <2>3. Hits(failed, LossesAt(a)) # 0
    BY <1>2
  <2>4. Hits(failed, LossesAt(a)) = 1
    BY <2>1, <2>3, OneReport
  <2> QED
    BY <1>2, <2>2, <2>4
<1>8. ASSUME NEW i \in DOMAIN outcomes, NEW j \in DOMAIN outcomes,
             Key(outcomes[i].w) = Key(outcomes[j].w)
      PROVE  i = j
  <2> DEFINE a == outcomes[i].w.at
  <2>1. outcomes[i].w \in Travelling /\ outcomes[j].w \in Travelling
    BY <1>3
  <2>2. outcomes[j].w.at = a
    BY <1>8, <2>1, KeyOfLine
  <2>3. Hits(outcomes, OutcomesAt(a)) # 0
    BY <1>3
  <2>4. Hits(outcomes, OutcomesAt(a)) = 1
    BY <2>1, <2>3, OneReport
  <2> QED
    BY <1>3, <2>2, <2>4
<1> QED
  BY <1>4, <1>5, <1>6, <1>7, <1>8 DEF Range

\* One row for each entry.
LEMMA RowCount ==
    ASSUME Typing, Accounts, Owned, Apart, rows = {Row(k) : k \in AuditKeys}
    PROVE  Cardinality(rows) = Len(nodes) + Len(errors)
<1> DEFINE n == Len(nodes)
           m == Len(errors)
           entry(i) == IF i <= n THEN nodes[i] ELSE errors[i - n]
           f == [i \in 1..(n + m) |-> Row(Key(entry(i)))]
<1>1. n \in Nat /\ m \in Nat /\ DOMAIN nodes = 1..n /\ DOMAIN errors = 1..m
  BY DEF Typing, TypeOK
<1> HIDE DEF n, m
<1>2. ASSUME NEW i \in 1..(n + m)
      PROVE  entry(i) \in Entries /\ Key(entry(i)) \in AuditKeys
  <2>1. CASE i <= n
    <3>1. i \in DOMAIN nodes
      BY <1>1, <2>1
    <3> QED
      BY <2>1, <3>1 DEF Entries, AuditKeys, Range
  <2>2. CASE ~(i <= n)
    <3>1. i - n \in DOMAIN errors
      BY <1>1, <2>2
    <3> QED
      BY <2>2, <3>1 DEF Entries, AuditKeys, Range
  <2> QED
    BY <2>1, <2>2
<1>3. ASSUME NEW i \in 1..(n + m), NEW j \in 1..(n + m), entry(i).at = entry(j).at
      PROVE  i = j
  <2>1. CASE i <= n /\ j <= n
    <3>1. i \in DOMAIN nodes /\ j \in DOMAIN nodes
      BY <1>1, <2>1
    <3> QED
      BY <1>3, <2>1, <3>1 DEF Accounts, Distinct
  <2>2. CASE i <= n /\ ~(j <= n)
    <3>1. i \in DOMAIN nodes /\ j - n \in DOMAIN errors
      BY <1>1, <2>2
    <3>2. nodes[i] \in Range(nodes) /\ errors[j - n] \in Range(errors)
      BY <3>1 DEF Range
    <3> QED
      BY <1>3, <2>2, <3>2 DEF Apart
  <2>3. CASE ~(i <= n) /\ j <= n
    <3>1. j \in DOMAIN nodes /\ i - n \in DOMAIN errors
      BY <1>1, <2>3
    <3>2. nodes[j] \in Range(nodes) /\ errors[i - n] \in Range(errors)
      BY <3>1 DEF Range
    <3> QED
      BY <1>3, <2>3, <3>2 DEF Apart
  <2>4. CASE ~(i <= n) /\ ~(j <= n)
    <3>1. j - n \in DOMAIN errors /\ i - n \in DOMAIN errors
      BY <1>1, <2>4
    <3>2. i - n = j - n
      BY <1>3, <2>4, <3>1 DEF Apart
    <3> QED
      BY <1>1, <3>2
  <2> QED
    BY <2>1, <2>2, <2>3, <2>4
<1>4. ASSUME NEW k \in AuditKeys
      PROVE  \E i \in 1..(n + m) : Key(entry(i)) = k
  <2>1. CASE k \in {Key(w) : w \in Range(nodes)}
    <3>1. PICK i \in DOMAIN nodes : k = Key(nodes[i])
      BY <2>1 DEF Range
    <3>2. i \in 1..(n + m) /\ i <= n
      BY <1>1, <3>1
    <3> QED
      BY <3>1, <3>2
  <2>2. CASE k \in {Key(x) : x \in Range(errors)}
    <3>1. PICK i \in DOMAIN errors : k = Key(errors[i])
      BY <2>2 DEF Range
    <3>2. i + n \in 1..(n + m) /\ ~(i + n <= n) /\ (i + n) - n = i
      BY <1>1, <3>1
    <3> QED
      BY <3>1, <3>2
  <2> QED
    BY <2>1, <2>2 DEF AuditKeys
<1>5. \A i \in 1..(n + m) : f[i] = Row(Key(entry(i))) /\ f[i].key = Key(entry(i))
  BY DEF Row
<1>6. \A i, j \in 1..(n + m) : Key(entry(i)) = Key(entry(j)) => i = j
  BY <1>2, <1>3 DEF Owned
<1> HIDE DEF entry
<1>7. f \in [1..(n + m) -> rows]
  BY <1>2
<1>8. \A i, j \in 1..(n + m) : f[i] = f[j] => i = j
  BY <1>5, <1>6
<1>9. \A r \in rows : \E i \in 1..(n + m) : f[i] = r
  BY <1>4, <1>5
<1> HIDE DEF f
<1>10. f \in Bijection(1..(n + m), rows)
  BY <1>7, <1>8, <1>9 DEF Bijection, Injection, Surjection, IsInjective
<1>11. ExistsBijection(1..(n + m), rows)
  BY <1>10 DEF ExistsBijection
<1>12. Cardinality(rows) = n + m
  BY <1>1, <1>11, FS_CountingElements
<1> QED
  BY <1>12 DEF n, m

\* The row of a key.
LEMMA RowOf ==
    ASSUME rows = {Row(k) : k \in AuditKeys}, NEW k \in AuditKeys
    PROVE  {r \in rows : r.key = k} = {Row(k)}
<1>1. \A x : Row(x).key = x
  BY DEF Row
<1> QED
  BY <1>1

\* So the rows merged by key are about the lines whose key they bear.
LEMMA AuditStep ==
    ASSUME Typing, Accounts, Owned, Apart, Ending, Done
    PROVE  AuditFaithful
<1> DEFINE Is(x, status, stage, rank) ==
             {r \in rows : r.key = Key(x)} =
               {[key |-> Key(x), status |-> status, stage |-> stage, rank |-> rank]}
<1>1. /\ pc = "end" /\ queue = <<>> /\ out = <<>> /\ Ordered
      /\ rows = {Row(k) : k \in AuditKeys}
  BY DEF Ending, Done
<1>2. /\ dropped \in Seq(Wrappers) /\ failed \in Seq(Losses) /\ outcomes \in Seq(Outcomes)
      /\ ranked \in Seq(Wrappers)
  BY DEF Typing, TypeOK
<1>3. /\ \A w \in Range(dropped) : w \in Travelling
      /\ \A f \in Range(failed) : f.w \in Travelling
      /\ \A o \in Range(outcomes) : o.w \in Travelling
  BY DEF Travelling
<1>4. \A v \in Travelling : Key(v) \in AuditKeys
  <2> TAKE v \in Travelling
  <2>1. PICK i \in DOMAIN nodes : SameLine(nodes[i], v)
    BY DEF Accounts, Traced, Comes
  <2>2. nodes[i] \in Range(nodes) /\ Key(nodes[i]) = Key(v)
    BY <2>1 DEF Range, SameLine, Key
  <2> QED
    BY <2>2 DEF AuditKeys
<1>5. \A v \in Travelling, x \in Range(errors) : Key(v) # Key(x)
  BY KeyOfLine
<1>6. /\ \A w \in Range(dropped), f \in Range(failed) : Key(w) # Key(f.w)
      /\ \A w \in Range(dropped), o \in Range(outcomes) : Key(w) # Key(o.w)
      /\ \A f \in Range(failed), o \in Range(outcomes) : Key(f.w) # Key(o.w)
      /\ \A i, j \in DOMAIN failed : Key(failed[i].w) = Key(failed[j].w) => i = j
  BY <1>1, OneFate
<1>7. \A o, u \in Range(outcomes) : Key(o.w) = Key(u.w) => o = u
  <2>1. \A i, j \in DOMAIN outcomes : Key(outcomes[i].w) = Key(outcomes[j].w) => i = j
    BY <1>1, OneFate
  <2> QED
    BY <2>1 DEF Range
<1>8. \A j \in DOMAIN ranked : \E o \in Range(outcomes) : o.scored /\ o.w = ranked[j]
  <2> TAKE j \in DOMAIN ranked
  <2>1. ranked[j] \in ScoredNodes
    BY <1>1 DEF Ordered, Range
  <2> QED
    BY <2>1 DEF ScoredNodes
<1>9. \A i \in DOMAIN failed : failed[i] \in Range(failed)
  BY DEF Range
<1>10. ASSUME NEW x \in Range(errors)
       PROVE  Is(x, "rejected", "ingest", 0)
  <2> DEFINE k == Key(x)
  <2>1. k \in AuditKeys
    BY DEF AuditKeys
  <2>2. ~Unscored(k) /\ ~Dropped(k) /\ Rejected(k)
    BY <1>3, <1>5 DEF Unscored, Dropped, Rejected
  <2>3. Failures(k) = {}
    BY <1>3, <1>5, <1>9 DEF Failures
  <2>4. Ranks(k) = {}
    BY <1>3, <1>5, <1>8 DEF Ranks
  <2>5. Row(k) = [key |-> k, status |-> "rejected", stage |-> "ingest", rank |-> 0]
    BY <2>2, <2>3, <2>4 DEF Row, Verdict
  <2> QED
    BY <1>1, <2>1, <2>5, RowOf
<1>11. ASSUME NEW w \in Range(dropped)
       PROVE  Is(w, "dropped", "dedup", 0)
  <2> DEFINE k == Key(w)
  <2>1. k \in AuditKeys
    BY <1>3, <1>4
  <2>2. ~Unscored(k) /\ Dropped(k)
    BY <1>6 DEF Unscored, Dropped
  <2>3. Failures(k) = {}
    BY <1>6, <1>9 DEF Failures
  <2>4. Ranks(k) = {}
    BY <1>6, <1>8 DEF Ranks
  <2>5. Row(k) = [key |-> k, status |-> "dropped", stage |-> "dedup", rank |-> 0]
    BY <2>2, <2>3, <2>4 DEF Row, Verdict
  <2> QED
    BY <1>1, <2>1, <2>5, RowOf
<1>12. ASSUME NEW f \in Range(failed)
       PROVE  Is(f.w, "failed", f.stage, 0)
  <2> DEFINE k == Key(f.w)
  <2>1. k \in AuditKeys
    BY <1>3, <1>4
  <2>2. ~Unscored(k)
    BY <1>6 DEF Unscored
  <2>3. Failures(k) # {} /\ failed[Max(Failures(k))] = f
    <3>1. PICK i \in DOMAIN failed : failed[i] = f
      BY DEF Range
    <3>2. Failures(k) = {i}
      BY <1>6, <3>1 DEF Failures
    <3>3. Len(failed) \in Nat /\ Failures(k) \in SUBSET (1..Len(failed))
      BY <1>2 DEF Failures
    <3>4. Max(Failures(k)) \in Failures(k)
      BY <3>2, <3>3, LastPosition
    <3> QED
      BY <3>1, <3>2, <3>4
  <2>4. Ranks(k) = {}
    BY <1>6, <1>8 DEF Ranks
  <2>5. Row(k) = [key |-> k, status |-> "failed", stage |-> f.stage, rank |-> 0]
    BY <2>2, <2>3, <2>4 DEF Row, Verdict
  <2> QED
    BY <1>1, <2>1, <2>5, RowOf
<1>13. ASSUME NEW o \in Range(outcomes), ~o.scored
       PROVE  Is(o.w, "unranked", "score", 0)
  <2> DEFINE k == Key(o.w)
  <2>1. k \in AuditKeys
    BY <1>3, <1>4
  <2>2. Unscored(k)
    BY <1>13 DEF Unscored
  <2>3. Ranks(k) = {}
    BY <1>7, <1>8, <1>13 DEF Ranks
  <2>4. Row(k) = [key |-> k, status |-> "unranked", stage |-> "score", rank |-> 0]
    BY <2>2, <2>3 DEF Row, Verdict
  <2> QED
    BY <1>1, <2>1, <2>4, RowOf
<1>14. ASSUME NEW o \in Range(outcomes), o.scored
       PROVE  \/ \E i \in DOMAIN ranked : ranked[i] = o.w /\ Is(o.w, "ok", "", i)
              \/ /\ o.w \notin Range(ranked)
                 /\ Len(ranked) = config.top_n
                 /\ Is(o.w, "ok", "", 0)
  <2> DEFINE k == Key(o.w)
  <2>1. k \in AuditKeys
    BY <1>3, <1>4
  <2>2. ~Unscored(k)
    BY <1>7, <1>14 DEF Unscored
  <2>3. Failures(k) = {} /\ ~Dropped(k)
    BY <1>6, <1>9 DEF Failures, Dropped
  <2>4. ~Rejected(k)
    BY <1>3, <1>5 DEF Rejected
  <2>5. \A j \in DOMAIN ranked : Key(ranked[j]) = k => ranked[j] = o.w
    BY <1>7, <1>8
  <2>6. CASE o.w \in Range(ranked)
    <3>1. PICK i \in DOMAIN ranked : ranked[i] = o.w
      BY <2>6 DEF Range
    <3>2. Ranks(k) = {i}
      BY <1>1, <2>5, <3>1 DEF Ranks, Ordered
    <3>3. Len(ranked) \in Nat /\ Ranks(k) \in SUBSET (1..Len(ranked))
      BY <1>2 DEF Ranks
    <3>4. Max(Ranks(k)) = i
      BY <3>2, <3>3, LastPosition
    <3>5. Row(k) = [key |-> k, status |-> "ok", stage |-> "", rank |-> i]
      BY <2>2, <2>3, <2>4, <3>2, <3>4 DEF Row, Verdict
    <3> QED
      BY <1>1, <2>1, <3>1, <3>5, RowOf
  <2>7. CASE o.w \notin Range(ranked)
    <3>1. o.w \in ScoredNodes
      BY <1>14 DEF ScoredNodes
    <3>2. Len(ranked) = config.top_n
      BY <1>1, <2>7, <3>1 DEF Ordered
    <3>3. Ranks(k) = {}
      BY <2>5, <2>7 DEF Ranks, Range
    <3>4. Row(k) = [key |-> k, status |-> "ok", stage |-> "", rank |-> 0]
      BY <2>2, <2>3, <2>4, <3>3 DEF Row, Verdict
    <3> QED
      BY <1>1, <2>1, <2>7, <3>2, <3>4, RowOf
  <2> QED
    BY <2>6, <2>7
<1>15. Cardinality(rows) = Len(nodes) + Len(errors)
  BY <1>1, RowCount
<1> QED
  BY <1>10, <1>11, <1>12, <1>13, <1>14, <1>15 DEF AuditFaithful

\* The audit is faithful: when a run is done each line it parsed or rejected has one
\* row, which tells what became of that very line: why it was rejected, dropped or
\* failed, that it was not scored, or its rank, and a scored line is without a rank
\* only where top_n cut the list.
THEOREM AuditIsFaithful ==
    ASSUME NamesApart
    PROVE  Spec => []AuditFaithful
<1>1. Typing /\ Accounts /\ Owned /\ Apart /\ Ending => AuditFaithful
  <2>1. CASE Done
    BY <2>1, AuditStep
  <2>2. CASE ~Done
    BY <2>2 DEF AuditFaithful
  <2> QED
    BY <2>1, <2>2
<1> QED
  BY <1>1, TypingHolds, AccountsHold, OwnedHolds, EndingHolds, PTL


-----------------------------------------------------------------------------
(* The refinement *)

Whole ==
    /\ \A x \in Entries : x.at[2] > 0 => IsLine(x.at) /\ ~Lost(x.at[1])
    /\ \A w \in Range(nodes) : w.at[2] > 0
    /\ pos > 0 => ~Lost(src)
    /\ \A l \in Places : IsLine(l) /\ Read(l) /\ ~Lost(l[1]) =>
          config.sources[l[1]].lines[l[2]] = Blank \/ ErrorAt(l) \/ NodeAt(l)
    /\ pc \notin {"start", "ingest", "end"} => src > Len(config.sources)

-----------------------------------------------------------------------------
(* Places *)

\* A place is a pair of positions.
LEMMA PlaceType ==
    ASSUME NEW l \in Places
    PROVE  l \in Nat \X Nat /\ l[1] \in Nat \ {0} /\ l[2] \in Nat \ {0}
<1>1. PICK c \in Configs : \E s \in DOMAIN c.sources :
         \E n \in DOMAIN c.sources[s].lines : l = <<s, n>>
  BY DEF Places
<1>a. PICK s \in DOMAIN c.sources : \E n \in DOMAIN c.sources[s].lines : l = <<s, n>>
  BY <1>1
<1>b. PICK n \in DOMAIN c.sources[s].lines : l = <<s, n>>
  BY <1>a
<1>2. c.sources \in Seq(Sources)
  BY ConfigAssumption DEF ConfigSpace
<1>3. s \in Nat \ {0} /\ c.sources[s] \in Sources
  BY <1>2
<1>4. c.sources[s].lines \in Seq(Nodes \cup {Blank, Bad})
  BY <1>3 DEF Sources
<1>5. n \in Nat \ {0}
  BY <1>4
<1> QED
  BY <1>b, <1>3, <1>5

\* The lines of a run have places.
LEMMA LinePlace ==
    ASSUME TypeOK, NEW l \in Nat \X Nat, IsLine(l)
    PROVE  l \in Places
<1>1. config \in Configs /\ l = <<l[1], l[2]>>
  BY DEF TypeOK
<1> QED
  BY <1>1 DEF Places, IsLine

\* What one more error, or one more node, changes.
LEMMA ErrorAppend ==
    ASSUME TypeOK, NEW e \in Rejections, errors' = Append(errors, e)
    PROVE  /\ \A l : ErrorAt(l)' <=> ErrorAt(l) \/ l = e.at
           /\ Range(errors)' = Range(errors) \cup {e}
<1>1. Range(Append(errors, e)) = Range(errors) \cup {e}
  BY RangeAppend DEF TypeOK
<1> QED
  BY <1>1 DEF ErrorAt

\* A node that is read is the one that is added.
LEMMA NodeAppend ==
    ASSUME TypeOK, NEW w \in Wrappers, nodes' = Append(nodes, w)
    PROVE  /\ \A l : NodeAt(l)' <=> NodeAt(l) \/ l = w.at
           /\ Range(nodes)' = Range(nodes) \cup {w}
<1>1. Range(Append(nodes, w)) = Range(nodes) \cup {w}
  BY RangeAppend DEF TypeOK
<1> QED
  BY <1>1 DEF NodeAt

\* After ingest nothing is read any more.
LEMMA Later ==
    ASSUME TypeOK,
           \/ CheckInputs \/ EndIngest \/ Handled \/ AnnotateGeo \/ NextStage
           \/ Rank \/ BuildOutputs \/ WriteOutputs \/ MergeReports \/ UNCHANGED vars
    PROVE  /\ UNCHANGED <<config, src, pos, nodes, errors>>
           /\ pc' \notin {"start", "ingest", "end"} =>
                 pc \notin {"start", "ingest", "end"} \/ src > Len(config.sources)
<1>1. CASE CheckInputs
  BY <1>1 DEF CheckInputs, ingestVars
<1>2. CASE EndIngest
  BY <1>2 DEF EndIngest, ingestVars
<1>3. CASE Handled
  BY <1>3 DEF Handled, Handle, ingestVars
<1>4. CASE AnnotateGeo
  BY <1>4 DEF AnnotateGeo, Handle, ingestVars
<1>5. CASE NextStage
  BY <1>5 DEF NextStage, Following, ingestVars
<1>6. CASE Rank
  BY <1>6 DEF Rank, ingestVars
<1>7. CASE BuildOutputs \/ WriteOutputs \/ MergeReports
  BY <1>7 DEF BuildOutputs, WriteOutputs, MergeReports, ingestVars
<1>8. CASE UNCHANGED vars
  BY <1>8 DEF vars
<1> QED
  BY <1>1, <1>2, <1>3, <1>4, <1>5, <1>6, <1>7, <1>8

\* The four ways of a step of ingest.
Opened ==
    /\ pos = 0 /\ pos' = 1 /\ UNCHANGED <<src, nodes, errors>>
    /\ Source.kind # "broken"
LostNow ==
    /\ pos = 0 /\ pos' = 0 /\ src' = src + 1 /\ UNCHANGED nodes
    /\ \/ UNCHANGED errors /\ Source.kind = "broken"
       \/ \E e \in Rejections : e.at = <<src, 0>> /\ errors' = Append(errors, e)
LineRead ==
    /\ pos > 0 /\ pos <= Len(Source.lines) /\ pos' = pos + 1 /\ UNCHANGED src
    /\ \/ UNCHANGED <<nodes, errors>> /\ Source.lines[pos] = Blank
       \/ \E e \in Rejections :
             e.at = <<src, pos>> /\ errors' = Append(errors, e) /\ UNCHANGED nodes
       \/ \E w \in Wrappers :
             w.at = <<src, pos>> /\ nodes' = Append(nodes, w) /\ UNCHANGED errors
Closed ==
    /\ pos > Len(Source.lines) /\ pos > 0 /\ pos' = 0 /\ src' = src + 1
    /\ UNCHANGED <<nodes, errors>>

Reading ==
    /\ pc = "ingest" /\ src <= Len(config.sources)
    /\ UNCHANGED <<config, pc, error, queue, out, dropped, failed, outcomes, ranked, rows>>
    /\ Opened \/ LostNow \/ LineRead \/ Closed

\* An element that has been added is one of the sequence.
LEMMA AddedType ==
    ASSUME NEW S, NEW s \in Seq(S), NEW x, Append(s, x) \in Seq(S)
    PROVE  x \in S
<1>1. Append(s, x)[Len(s) + 1] = x /\ Len(s) + 1 \in 1..Len(Append(s, x))
  OBVIOUS
<1> QED
  BY <1>1

\* What a step of ingest does to the place of the reader and to the entries.
LEMMA ReadingStep ==
    ASSUME Typing, Typing', OpenSource \/ ReadLine \/ CloseSource
    PROVE  Reading
<1>1. /\ errors \in Seq(Rejections) /\ errors' \in Seq(Rejections)
      /\ nodes \in Seq(Wrappers) /\ nodes' \in Seq(Wrappers)
  BY DEF Typing, TypeOK
<1>2. pos > 0 => src <= Len(config.sources)
  BY DEF Typing, Naming
<1>3. CASE OpenSource
  <2>1. CASE Opened
    BY <1>3, <2>1 DEF OpenSource, Reading
  <2>2. CASE UNCHANGED errors /\ Source.kind = "broken" /\ src' = src + 1 /\ UNCHANGED pos
    BY <1>3, <2>2 DEF OpenSource, Reading, LostNow
  <2>3. CASE errors' = Append(errors, FileError(Source.label)) /\ src' = src + 1 /\ UNCHANGED pos
    <3>1. PICK e : e = FileError(Source.label)
      OBVIOUS
    <3>2. e \in Rejections
      BY <1>1, <2>3, <3>1, AddedType
    <3>3. e.at = <<src, 0>>
      BY <3>1 DEF FileError
    <3>4. LostNow
      BY <1>3, <2>3, <3>1, <3>2, <3>3 DEF OpenSource, LostNow
    <3> QED
      BY <1>3, <3>4 DEF OpenSource, Reading
  <2> QED
    BY <1>3, <2>1, <2>2, <2>3 DEF OpenSource, Opened, AfterFailure
<1>4. CASE ReadLine
  <2> DEFINE origin == OriginName(Source.label, names[Source.label])
  <2>1. PICK e, w : /\ e = [origin |-> origin, line |-> seen + 1, at |-> <<src, pos>>]
                    /\ w = [node |-> Source.lines[pos], origin |-> origin,
                            line |-> seen + 1, at |-> <<src, pos>>, ip |-> NoIP,
                            measured |-> "none", inRange |-> FALSE]
    OBVIOUS
  <2>2. e.at = <<src, pos>> /\ w.at = <<src, pos>>
    BY <2>1
  <2>3. \/ UNCHANGED <<nodes, errors>> /\ Source.lines[pos] = Blank
        \/ errors' = Append(errors, e) /\ UNCHANGED nodes
        \/ nodes' = Append(nodes, w) /\ UNCHANGED errors
    BY <1>4, <2>1 DEF ReadLine
  <2>4. errors' = Append(errors, e) => e \in Rejections
    BY <1>1, AddedType
  <2>5. nodes' = Append(nodes, w) => w \in Wrappers
    BY <1>1, AddedType
  <2>6. LineRead
    BY <1>4, <2>2, <2>3, <2>4, <2>5 DEF ReadLine, LineRead
  <2> QED
    BY <1>2, <1>4, <2>6 DEF ReadLine, Reading
<1>5. CASE CloseSource
  BY <1>2, <1>5 DEF CloseSource, Closed, Reading
<1> QED
  BY <1>3, <1>4, <1>5

-----------------------------------------------------------------------------
(* A source is lost whole or read whole *)

\* Ingest keeps sources whole.
LEMMA WholeReading ==
    ASSUME Typing, Owned, Whole, Reading
    PROVE  Whole'
<1>0. /\ src \in Nat \ {0} /\ pos \in Nat /\ TypeOK /\ config.sources \in Seq(Sources)
      /\ src <= Len(config.sources) /\ UNCHANGED config
  BY ConfigAssumption DEF Typing, TypeOK, ConfigSpace, Reading
<1>1. /\ \A x \in Entries : x.at \in Nat \X Nat /\ x.at[1] \in Nat /\ x.at[2] \in Nat
      /\ \A x \in Entries : Read(x.at)
  BY <1>0, EntryType DEF Owned, Behind, Read
<1>2. pc' = "ingest"
  BY DEF Reading
<1>3. \A l \in Places : l[1] \in Nat \ {0} /\ l[2] \in Nat \ {0}
  BY PlaceType
<1>4. \A l : IsLine(l)' <=> IsLine(l)
  BY <1>0 DEF IsLine
<1>5. src \in DOMAIN config.sources
  BY <1>0
<1>6. CASE Opened
  <2>1. \A l : ErrorAt(l)' = ErrorAt(l) /\ NodeAt(l)' = NodeAt(l)
    BY <1>6 DEF Opened, ErrorAt, NodeAt
  <2>2. \A s : Lost(s)' = Lost(s)
    BY <1>0, <2>1 DEF Lost
  <2>3. ~Lost(src)
    <3>1. ASSUME NEW e \in Range(errors), e.at = <<src, 0>>
          PROVE  FALSE
      BY <1>0, <1>1, <1>6, <3>1 DEF Entries, Read, Opened
    <3> QED
      BY <1>6, <3>1 DEF Lost, ErrorAt, Opened, Source
  <2>4. \A l \in Places : Read(l)' => Read(l)
    BY <1>0, <1>3, <1>6 DEF Opened, Read
  <2>5. Entries' = Entries /\ Range(nodes)' = Range(nodes)
    BY <1>6 DEF Opened, Entries
  <2>6. \A x \in Entries' : x.at[2] > 0 => IsLine(x.at)' /\ ~Lost(x.at[1])'
    BY <1>4, <2>2, <2>5 DEF Whole
  <2>7. \A l \in Places : IsLine(l)' /\ Read(l)' /\ ~Lost(l[1])' =>
          config'.sources[l[1]].lines[l[2]] = Blank \/ ErrorAt(l)' \/ NodeAt(l)'
    BY <1>0, <1>4, <2>1, <2>2, <2>4 DEF Whole
  <2> QED
    BY <1>2, <1>6, <2>2, <2>3, <2>5, <2>6, <2>7 DEF Whole, Opened
<1>7. CASE LostNow
  <2>0. PICK here : here = src
    OBVIOUS
  <2>1. /\ \A l : NodeAt(l)' = NodeAt(l)
        /\ \A l : l # <<here, 0>> => ErrorAt(l)' = ErrorAt(l)
        /\ \A x \in Range(errors)' : x \in Range(errors) \/ x.at = <<here, 0>>
        /\ Lost(here)'
    <3>1. \A l : NodeAt(l)' = NodeAt(l)
      BY <1>7 DEF LostNow, NodeAt
    <3>2. CASE UNCHANGED errors /\ Source.kind = "broken"
      <4>1. \A l : ErrorAt(l)' = ErrorAt(l)
        BY <3>2 DEF ErrorAt
      <4>2. Lost(here)'
        BY <1>0, <2>0, <3>2 DEF Lost, Source
      <4> QED
        BY <3>1, <3>2, <4>1, <4>2
    <3>3. CASE \E e \in Rejections : e.at = <<src, 0>> /\ errors' = Append(errors, e)
      <4>1. PICK e \in Rejections : e.at = <<src, 0>> /\ errors' = Append(errors, e)
        BY <3>3
      <4>2. /\ \A l : ErrorAt(l)' <=> ErrorAt(l) \/ l = <<here, 0>>
            /\ Range(errors)' = Range(errors) \cup {e}
        BY <1>0, <2>0, <4>1, ErrorAppend
      <4>3. \A l : l # <<here, 0>> => ErrorAt(l)' = ErrorAt(l)
        BY <4>2 DEF ErrorAt
      <4> QED
        BY <2>0, <3>1, <4>1, <4>2, <4>3 DEF Lost
    <3> QED
      BY <1>7, <3>2, <3>3 DEF LostNow
  <2>2. src = here
    BY <2>0
  <2>3. \A s : s # here => Lost(s)' = Lost(s)
    BY <1>0, <2>1 DEF Lost
  <2>4. \A l \in Places : Read(l)' => Read(l) \/ l[1] = here
    BY <1>0, <1>3, <1>7, <2>2 DEF LostNow, Read
  <2>5. \A x \in Entries : x.at[1] # here
    BY <1>0, <1>1, <1>7, <2>2 DEF LostNow, Read
  <2>6. \A x \in Entries' : x.at[2] > 0 => IsLine(x.at)' /\ ~Lost(x.at[1])'
    <3> SUFFICES ASSUME NEW x \in Entries', x.at[2] > 0
                 PROVE  IsLine(x.at)' /\ ~Lost(x.at[1])'
      OBVIOUS
    <3>1. x \in Entries \/ x.at = <<here, 0>>
      BY <1>7, <2>1 DEF Entries, LostNow
    <3>2. x \in Entries
      BY <3>1
    <3> QED
      BY <1>4, <2>3, <2>5, <3>2 DEF Whole
  <2>7. \A l \in Places : IsLine(l)' /\ Read(l)' /\ ~Lost(l[1])' =>
          config'.sources[l[1]].lines[l[2]] = Blank \/ ErrorAt(l)' \/ NodeAt(l)'
    <3> TAKE l \in Places
    <3>1. CASE l[1] = here
      BY <2>1, <3>1
    <3>2. CASE l[1] # here
      <4>1. l # <<here, 0>>
        BY <3>2
      <4> QED
        BY <1>0, <1>4, <2>1, <2>3, <2>4, <3>2, <4>1 DEF Whole
    <3> QED
      BY <3>1, <3>2
  <2> QED
    BY <1>2, <1>7, <2>6, <2>7 DEF Whole, LostNow
<1>8. CASE LineRead
  <2>0. PICK here, at : here = <<src, pos>> /\ at = src
    OBVIOUS
  <2>1. /\ \A l : l # here => ErrorAt(l)' = ErrorAt(l) /\ NodeAt(l)' = NodeAt(l)
        /\ config.sources[here[1]].lines[here[2]] = Blank \/ ErrorAt(here)' \/ NodeAt(here)'
    <3>1. CASE UNCHANGED <<nodes, errors>> /\ Source.lines[pos] = Blank
      BY <2>0, <3>1 DEF NodeAt, ErrorAt, Source
    <3>2. CASE \E e \in Rejections :
                  e.at = <<src, pos>> /\ errors' = Append(errors, e) /\ UNCHANGED nodes
      <4>1. PICK e \in Rejections :
               e.at = <<src, pos>> /\ errors' = Append(errors, e) /\ UNCHANGED nodes
        BY <3>2
      <4>2. \A l : (ErrorAt(l)' <=> ErrorAt(l) \/ l = here) /\ NodeAt(l)' = NodeAt(l)
        BY <1>0, <2>0, <4>1, ErrorAppend DEF NodeAt
      <4> QED
        BY <4>2 DEF ErrorAt
    <3>3. CASE \E w \in Wrappers :
                  w.at = <<src, pos>> /\ nodes' = Append(nodes, w) /\ UNCHANGED errors
      <4>1. PICK w \in Wrappers :
               w.at = <<src, pos>> /\ nodes' = Append(nodes, w) /\ UNCHANGED errors
        BY <3>3
      <4>2. \A l : (NodeAt(l)' <=> NodeAt(l) \/ l = here) /\ ErrorAt(l)' = ErrorAt(l)
        BY <1>0, <2>0, <4>1, NodeAppend DEF ErrorAt
      <4> QED
        BY <4>2 DEF NodeAt
    <3> QED
      BY <1>8, <3>1, <3>2, <3>3 DEF LineRead
  <2>2. here = <<src, pos>> /\ here \in Nat \X Nat /\ here[1] = src /\ here[2] = pos
    BY <1>0, <2>0
  <2>3. \A s : Lost(s)' = Lost(s)
    <3> TAKE s
    <3>1. <<s, 0>> # here
      BY <1>0, <1>8, <2>2 DEF LineRead
    <3> QED
      BY <1>0, <2>1, <3>1 DEF Lost
  <2>4. \A l \in Places : Read(l)' => Read(l) \/ l = here
    <3> TAKE l \in Places
    <3>1. l = <<l[1], l[2]>>
      BY PlaceType
    <3> QED
      BY <1>0, <1>3, <1>8, <2>2, <3>1 DEF LineRead, Read
  <2>5. \A x \in Entries' : x \in Entries \/ x.at = here
    BY <1>0, <1>8, <2>2, ErrorAppend, NodeAppend DEF LineRead, Entries
  <2>6. \A x \in Range(nodes)' : x \in Range(nodes) \/ x.at = here
    BY <1>0, <1>8, <2>2, NodeAppend DEF LineRead
  <2>7. pos > 0 /\ ~Lost(src) /\ IsLine(here)
    BY <1>5, <1>0, <1>8, <2>2 DEF LineRead, Whole, IsLine, Source, Sources
  <2>8. \A x \in Entries' : x.at[2] > 0 => IsLine(x.at)' /\ ~Lost(x.at[1])'
    BY <1>4, <2>2, <2>3, <2>5, <2>7 DEF Whole
  <2>9. \A l \in Places : IsLine(l)' /\ Read(l)' /\ ~Lost(l[1])' =>
          config'.sources[l[1]].lines[l[2]] = Blank \/ ErrorAt(l)' \/ NodeAt(l)'
    <3> TAKE l \in Places
    <3>1. CASE l = here
      BY <1>0, <2>1, <3>1
    <3>2. CASE l # here
      BY <1>0, <1>4, <2>1, <2>3, <2>4, <3>2 DEF Whole
    <3> QED
      BY <3>1, <3>2
  <2>10. \A x \in Range(nodes)' : x.at[2] > 0
    BY <2>2, <2>6, <2>7 DEF Whole
  <2>11. pos' > 0 => ~Lost(at)'
    BY <2>0, <2>3, <2>7
  <2>12. src' = at
    BY <1>8, <2>0 DEF LineRead
  <2> QED
    BY <1>2, <2>8, <2>9, <2>10, <2>11, <2>12 DEF Whole
<1>9. CASE Closed
  <2>1. \A l : ErrorAt(l)' = ErrorAt(l) /\ NodeAt(l)' = NodeAt(l)
    BY <1>9 DEF Closed, ErrorAt, NodeAt
  <2>2. \A s : Lost(s)' = Lost(s)
    BY <1>0, <2>1 DEF Lost
  <2>3. \A l \in Places : IsLine(l) /\ Read(l)' => Read(l)
    <3> SUFFICES ASSUME NEW l \in Places, IsLine(l), l[1] = src
                 PROVE  l[2] < pos
      BY <1>0, <1>3, <1>9 DEF Closed, Read
    <3>1. Source.lines \in Seq(Nodes \cup {Blank, Bad})
      BY <1>0, SourceType
    <3>2. l[2] \in 1..Len(Source.lines)
      BY <3>1 DEF IsLine, Source
    <3> QED
      BY <1>0, <3>1, <3>2, <1>9 DEF Closed
  <2>4. Entries' = Entries /\ Range(nodes)' = Range(nodes)
    BY <1>9 DEF Closed, Entries
  <2>5. \A x \in Entries' : x.at[2] > 0 => IsLine(x.at)' /\ ~Lost(x.at[1])'
    BY <1>4, <2>2, <2>4 DEF Whole
  <2>6. \A l \in Places : IsLine(l)' /\ Read(l)' /\ ~Lost(l[1])' =>
          config'.sources[l[1]].lines[l[2]] = Blank \/ ErrorAt(l)' \/ NodeAt(l)'
    BY <1>0, <1>4, <2>1, <2>2, <2>3 DEF Whole
  <2> QED
    BY <1>2, <1>9, <2>4, <2>5, <2>6 DEF Whole, Closed
<1> QED
  BY <1>6, <1>7, <1>8, <1>9 DEF Reading

\* So does every other step, which leaves the entries alone.
LEMMA WholeStep ==
    ASSUME Typing, Typing', Owned, Whole, [Next]_vars
    PROVE  Whole'
<1>1. CASE OpenSource \/ ReadLine \/ CloseSource
  BY <1>1, ReadingStep, WholeReading
<1>2. CASE \/ CheckInputs \/ EndIngest \/ Handled \/ AnnotateGeo \/ NextStage
           \/ Rank \/ BuildOutputs \/ WriteOutputs \/ MergeReports \/ UNCHANGED vars
  <2>1. /\ UNCHANGED <<config, src, pos, nodes, errors>>
        /\ pc' \notin {"start", "ingest", "end"} =>
              pc \notin {"start", "ingest", "end"} \/ src > Len(config.sources)
    BY <1>2, Later DEF Typing
  <2>2. \A l : /\ ErrorAt(l)' = ErrorAt(l) /\ NodeAt(l)' = NodeAt(l)
               /\ IsLine(l)' = IsLine(l) /\ Read(l)' = Read(l)
    BY <2>1 DEF ErrorAt, NodeAt, IsLine, Read
  <2>3. \A s : Lost(s)' = Lost(s)
    BY <2>1, <2>2 DEF Lost
  <2> QED
    BY <2>1, <2>2, <2>3 DEF Whole, Entries
<1> QED
  BY <1>1, <1>2, StageStep DEF Next, Typing

\* So it is in every run.
LEMMA WholeHolds ==
    ASSUME NamesApart
    PROVE  Spec => []Whole
<1>1. Init => Whole
  <2> SUFFICES ASSUME Init PROVE Whole
    OBVIOUS
  <2>1. pc = "start" /\ src = 1 /\ pos = 0 /\ nodes = <<>> /\ errors = <<>>
    BY DEF Init
  <2>2. Entries = {} /\ Range(nodes) = {}
    BY <2>1, RangeEmpty DEF Entries
  <2>3. \A l \in Places : ~Read(l)
    BY <2>1, PlaceType DEF Read
  <2> QED
    BY <2>1, <2>2, <2>3 DEF Whole
<1>2. Typing /\ Typing' /\ Owned /\ Whole /\ [Next]_vars => Whole'
  BY WholeStep
<1> QED
  BY <1>1, <1>2, TypingHolds, OwnedHolds, PTL DEF Spec

-----------------------------------------------------------------------------
(* The fates *)

\* What the fate of a line depends on.
LEMMA SameFate ==
    ASSUME NEW l,
           ErrorAt(l)' <=> ErrorAt(l), DroppedAt(l)' <=> DroppedAt(l),
           FailedAt(l)' <=> FailedAt(l), NodeAt(l)' <=> NodeAt(l),
           OutcomeAt(l, TRUE)' <=> OutcomeAt(l, TRUE),
           OutcomeAt(l, FALSE)' <=> OutcomeAt(l, FALSE),
           (src > l[1] /\ Lost(l[1]))' <=> (src > l[1] /\ Lost(l[1])),
           Read(l)' <=> Read(l), UNCHANGED config
    PROVE  FateOf(l)' = FateOf(l)
<1>1. IsLine(l)' = IsLine(l)
  BY DEF IsLine
<1> QED
  BY <1>1 DEF FateOf

\* Before the stages have begun only ingest has decided anything.
LEMMA EarlyFate ==
    ASSUME Accounts, pc \in {"start", "ingest"}
    PROVE  \A l : /\ ~DroppedAt(l) /\ ~FailedAt(l)
                  /\ ~OutcomeAt(l, TRUE) /\ ~OutcomeAt(l, FALSE)
BY RangeEmpty DEF Accounts, Waiting, DroppedAt, FailedAt, OutcomeAt

\* A step that leaves all fates alone, and one that changes the fate of one line.
LEMMA NoFateChanged ==
    ASSUME ~Done, ~Done', \A l \in Places : FateOf(l)' = FateOf(l)
    PROVE  UNCHANGED Trail!vars
BY DEF Trail!vars, Done

\* A step that changes the fate of one line.
LEMMA OneFateChanged ==
    ASSUME ~Done, ~Done', NEW k \in Places, NEW f, FateOf(k)' = f,
           \A l \in Places : l # k => FateOf(l)' = FateOf(l)
    PROVE  LET fate == [l \in Places |-> FateOf(l)]
           IN  fate' = [fate EXCEPT ![k] = f]
OBVIOUS

\* A step of ingest is one of the trail: a line is read, or a source lost.
LEMMA ReadingFates ==
    ASSUME Typing, Accounts, Owned, Whole, Whole', Reading
    PROVE  [Trail!Next]_(Trail!vars)
<1>0. /\ src \in Nat \ {0} /\ pos \in Nat /\ TypeOK /\ config.sources \in Seq(Sources)
      /\ src <= Len(config.sources) /\ UNCHANGED config
  BY ConfigAssumption DEF Typing, TypeOK, ConfigSpace, Reading
<1>1. /\ \A x \in Entries : x.at \in Nat \X Nat /\ x.at[1] \in Nat /\ x.at[2] \in Nat
      /\ \A x \in Entries : Read(x.at)
  BY <1>0, EntryType DEF Owned, Behind, Read
<1>2. ~Done /\ ~Done' /\ pc = "ingest" /\ pc' = "ingest"
  BY DEF Reading, Done
<1>3. \A l \in Places : l[1] \in Nat \ {0} /\ l[2] \in Nat \ {0} /\ l = <<l[1], l[2]>>
  BY PlaceType
<1>4. /\ \A l : /\ ~DroppedAt(l) /\ ~FailedAt(l)
                /\ ~OutcomeAt(l, TRUE) /\ ~OutcomeAt(l, FALSE)
      /\ \A l : /\ ~DroppedAt(l)' /\ ~FailedAt(l)'
                /\ ~OutcomeAt(l, TRUE)' /\ ~OutcomeAt(l, FALSE)'
  <2>1. \A l : /\ ~DroppedAt(l) /\ ~FailedAt(l)
               /\ ~OutcomeAt(l, TRUE) /\ ~OutcomeAt(l, FALSE)
    BY <1>2, EarlyFate
  <2> QED
    BY <2>1 DEF Reading, DroppedAt, FailedAt, OutcomeAt
<1>5. src \in DOMAIN config.sources
  BY <1>0
<1>6. CASE Opened
  <2>1. \A l : ErrorAt(l)' = ErrorAt(l) /\ NodeAt(l)' = NodeAt(l)
    BY <1>6 DEF Opened, ErrorAt, NodeAt
  <2>2. \A n : Lost(n)' = Lost(n)
    BY <1>0, <2>1 DEF Lost
  <2>3. \A l \in Places : Read(l)' = Read(l) /\ src' = src
    BY <1>0, <1>3, <1>6 DEF Opened, Read
  <2>4. \A l \in Places : FateOf(l)' = FateOf(l)
    BY <1>0, <1>4, <2>1, <2>2, <2>3, SameFate
  <2> QED
    BY <1>2, <2>4, NoFateChanged
<1>7. CASE Closed
  <2>1. \A l : ErrorAt(l)' = ErrorAt(l) /\ NodeAt(l)' = NodeAt(l)
    BY <1>7 DEF Closed, ErrorAt, NodeAt
  <2>2. \A n : Lost(n)' = Lost(n)
    BY <1>0, <2>1 DEF Lost
  <2>3. ~Lost(src)
    BY <1>7 DEF Closed, Whole
  <2>4. \A l \in Places : (src > l[1] /\ Lost(l[1]))' = (src > l[1] /\ Lost(l[1]))
    BY <1>0, <1>3, <1>7, <2>2, <2>3 DEF Closed
  <2>5. \A l \in Places : IsLine(l) => Read(l)' = Read(l)
    <3> SUFFICES ASSUME NEW l \in Places, IsLine(l)
                 PROVE  Read(l)' = Read(l)
      OBVIOUS
    <3>1. CASE l[1] = src
      <4>1. Source.lines \in Seq(Nodes \cup {Blank, Bad})
        BY <1>0, SourceType
      <4>2. l[2] \in 1..Len(Source.lines)
        BY <3>1, <4>1 DEF IsLine, Source
      <4> QED
        BY <1>0, <1>3, <1>7, <3>1, <4>1, <4>2 DEF Closed, Read
    <3>2. CASE l[1] # src
      BY <1>0, <1>3, <1>7, <3>2 DEF Closed, Read
    <3> QED
      BY <3>1, <3>2
  <2>6. \A l \in Places : FateOf(l)' = FateOf(l)
    <3> TAKE l \in Places
    <3>1. CASE IsLine(l)
      BY <1>0, <1>4, <2>1, <2>4, <2>5, <3>1, SameFate
    <3>2. CASE ~IsLine(l)
      BY <1>0, <3>2 DEF FateOf, IsLine
    <3> QED
      BY <3>1, <3>2
  <2> QED
    BY <1>2, <2>6, NoFateChanged
<1>8. CASE LineRead
  <2>0. PICK here : here = <<src, pos>>
    OBVIOUS
  <2>1. here \in Nat \X Nat /\ here[1] = src /\ here[2] = pos
    BY <1>0, <2>0
  <2>2. ~Read(here) /\ Read(here)'
    BY <1>0, <1>8, <2>1 DEF LineRead, Read
  <2>3. ~ErrorAt(here) /\ ~NodeAt(here)
    BY <1>1, <2>2 DEF Entries, ErrorAt, NodeAt
  <2>4. IsLine(here) /\ ~Lost(src) /\ IsLine(here)'
    BY <1>0, <1>5, <1>8, <2>1 DEF LineRead, Whole, IsLine, Source, Sources
  <2>5. here \in Places
    BY <1>0, <2>1, <2>4, LinePlace
  <2>6. FateOf(here) = "unread"
    BY <1>0, <1>4, <2>1, <2>2, <2>3, <2>4 DEF FateOf
  <2>7. \E f \in {"blank", "rejected", "pending"} :
           /\ FateOf(here)' = f
           /\ \A l : l # here => ErrorAt(l)' = ErrorAt(l) /\ NodeAt(l)' = NodeAt(l)
    <3>1. CASE UNCHANGED <<nodes, errors>> /\ Source.lines[pos] = Blank
      <4>1. \A l : ErrorAt(l)' = ErrorAt(l) /\ NodeAt(l)' = NodeAt(l)
        BY <3>1 DEF ErrorAt, NodeAt
      <4>2. config'.sources[here[1]].lines[here[2]] = Blank /\ src' = here[1]
        BY <1>0, <1>8, <2>1, <3>1 DEF LineRead, Source
      <4>3. ~(src' > here[1])
        BY <1>0, <2>1, <4>2
      <4>4. FateOf(here)' = "blank"
        BY <1>4, <2>2, <2>3, <2>4, <4>1, <4>2, <4>3 DEF FateOf
      <4> QED
        BY <4>1, <4>4
    <3>2. CASE \E e \in Rejections :
                  e.at = <<src, pos>> /\ errors' = Append(errors, e) /\ UNCHANGED nodes
      <4>1. PICK e \in Rejections :
               e.at = <<src, pos>> /\ errors' = Append(errors, e) /\ UNCHANGED nodes
        BY <3>2
      <4>2. \A l : (ErrorAt(l)' <=> ErrorAt(l) \/ l = here) /\ NodeAt(l)' = NodeAt(l)
        BY <1>0, <2>0, <4>1, ErrorAppend DEF NodeAt
      <4>3. FateOf(here)' = "rejected"
        BY <2>4, <4>2 DEF FateOf
      <4> QED
        BY <4>2, <4>3 DEF ErrorAt
    <3>3. CASE \E w \in Wrappers :
                  w.at = <<src, pos>> /\ nodes' = Append(nodes, w) /\ UNCHANGED errors
      <4>1. PICK w \in Wrappers :
               w.at = <<src, pos>> /\ nodes' = Append(nodes, w) /\ UNCHANGED errors
        BY <3>3
      <4>2. \A l : (NodeAt(l)' <=> NodeAt(l) \/ l = here) /\ ErrorAt(l)' = ErrorAt(l)
        BY <1>0, <2>0, <4>1, NodeAppend DEF ErrorAt
      <4>3. FateOf(here)' = "pending"
        BY <1>4, <2>3, <2>4, <4>2 DEF FateOf
      <4> QED
        BY <4>2, <4>3 DEF NodeAt
    <3> QED
      BY <1>8, <3>1, <3>2, <3>3 DEF LineRead
  <2>8. PICK f \in {"blank", "rejected", "pending"} :
           /\ FateOf(here)' = f
           /\ \A l : l # here => ErrorAt(l)' = ErrorAt(l) /\ NodeAt(l)' = NodeAt(l)
    BY <2>7
  <2>9. ASSUME NEW l \in Places, l # here
        PROVE  FateOf(l)' = FateOf(l)
    <3>1. Lost(l[1])' = Lost(l[1])
      <4>1. <<l[1], 0>> # here
        BY <1>0, <1>8, <2>1 DEF LineRead
      <4> QED
        BY <1>0, <2>8, <4>1 DEF Lost
    <3>2. Read(l)' = Read(l) /\ src' = src
      BY <1>0, <1>3, <1>8, <2>0, <2>9 DEF LineRead, Read
    <3> QED
      BY <1>0, <1>4, <2>8, <2>9, <3>1, <3>2, SameFate
  <2>10. Trail!ReadLine(here)
    BY <1>2, <2>5, <2>6, <2>8, <2>9, OneFateChanged DEF Trail!ReadLine, Done
  <2> QED
    BY <2>5, <2>10 DEF Trail!Next
<1>9. CASE LostNow
  <2>0. PICK s : s = src
    OBVIOUS
  <2>1. /\ \A l \in Places : ErrorAt(l)' = ErrorAt(l) /\ NodeAt(l)' = NodeAt(l)
        /\ \A n : n # s => Lost(n)' = Lost(n)
        /\ Lost(s)'
    <3>1. \A l : NodeAt(l)' = NodeAt(l)
      BY <1>9 DEF LostNow, NodeAt
    <3>2. CASE UNCHANGED errors /\ Source.kind = "broken"
      BY <1>0, <2>0, <3>1, <3>2 DEF ErrorAt, Lost, Source
    <3>3. CASE \E e \in Rejections : e.at = <<src, 0>> /\ errors' = Append(errors, e)
      <4>1. PICK e \in Rejections : e.at = <<src, 0>> /\ errors' = Append(errors, e)
        BY <3>3
      <4>2. \A l : ErrorAt(l)' <=> ErrorAt(l) \/ l = <<s, 0>>
        BY <1>0, <2>0, <4>1, ErrorAppend
      <4>3. \A l : l # <<s, 0>> => ErrorAt(l)' = ErrorAt(l)
        BY <4>2 DEF ErrorAt
      <4>4. \A l \in Places : l # <<s, 0>>
        BY <1>3
      <4>5. \A n : n # s => <<n, 0>> # <<s, 0>>
        OBVIOUS
      <4> QED
        BY <1>0, <3>1, <4>2, <4>3, <4>4, <4>5 DEF Lost
    <3> QED
      BY <1>9, <3>2, <3>3 DEF LostNow
  <2>2. /\ \A l \in Places : Read(l)' <=> Read(l) \/ l[1] = s
        /\ src = s /\ src' = s + 1 /\ s \in Nat
    BY <1>0, <1>3, <1>9, <2>0 DEF LostNow, Read
  <2>3. \A l \in Places : l[1] = s => ~Read(l) /\ ~ErrorAt(l) /\ ~NodeAt(l)
    <3> TAKE l \in Places
    <3>1. l[1] = s => ~Read(l)
      BY <1>0, <1>3, <1>9, <2>2 DEF LostNow, Read
    <3> QED
      BY <1>1, <3>1 DEF Entries, ErrorAt, NodeAt
  <2>4. ASSUME NEW l \in Places, l[1] # s
        PROVE  FateOf(l)' = FateOf(l)
    <3>1. (src > l[1] /\ Lost(l[1]))' = (src > l[1] /\ Lost(l[1]))
      BY <1>3, <2>1, <2>2, <2>4
    <3>2. Read(l)' = Read(l)
      BY <2>2, <2>4 DEF Read
    <3> QED
      BY <1>0, <1>4, <2>1, <3>1, <3>2, SameFate
  <2>5. ASSUME NEW l \in Places, l[1] = s
        PROVE  /\ FateOf(l) = IF IsLine(l) THEN "unread" ELSE "blank"
               /\ FateOf(l)' = IF IsLine(l) THEN "unreadable" ELSE "blank"
    <3>1. ~(src > l[1]) /\ src' > l[1]
      BY <2>2, <2>5
    <3>2. IsLine(l)' = IsLine(l)
      BY <1>0 DEF IsLine
    <3>3. FateOf(l) = IF IsLine(l) THEN "unread" ELSE "blank"
      BY <1>4, <2>3, <2>5, <3>1 DEF FateOf
    <3>4. FateOf(l)' = IF IsLine(l)' THEN "unreadable" ELSE "blank"
      BY <1>4, <2>1, <2>3, <2>5, <3>1 DEF FateOf
    <3> QED
      BY <3>2, <3>3, <3>4
  <2>6. CASE \E l \in Places : l[1] = s
    <3>1. PICK k \in Places : k[1] = s
      BY <2>6
    <3>2. Trail!LoseSource(s)
      <4> DEFINE fate == [l \in Places |-> FateOf(l)]
                 of == [l \in Places |-> l[1]]
      <4>1. \A l \in Places : of[l] = s => fate[l] \in {"unread", "blank"}
        BY <2>5
      <4>2. \A l \in Places : FateOf(l)' = IF of[l] = s /\ fate[l] = "unread"
                                           THEN "unreadable" ELSE fate[l]
        BY <2>4, <2>5
      <4>3. fate' = [l \in Places |-> IF of[l] = s /\ fate[l] = "unread"
                                      THEN "unreadable" ELSE fate[l]]
        BY <4>2
      <4> QED
        BY <1>2, <4>1, <4>3 DEF Trail!LoseSource, Done
    <3> QED
      BY <3>1, <3>2 DEF Trail!Next
  <2>7. CASE ~\E l \in Places : l[1] = s
    BY <1>2, <2>4, <2>7, NoFateChanged
  <2> QED
    BY <2>6, <2>7
<1> QED
  BY <1>6, <1>7, <1>8, <1>9 DEF Reading

\* What is on its way is a line, and pending.
LEMMA OnItsWay ==
    ASSUME Typing, Accounts, Apart, Whole, NEW w \in Travelling
    PROVE  w.at \in Places /\ IsLine(w.at) /\ NodeAt(w.at) /\ ~ErrorAt(w.at)
<1>1. PICK i \in DOMAIN nodes : nodes[i].at = w.at
  BY DEF Accounts, Traced, Comes, SameLine
<1>2. nodes[i] \in Range(nodes) /\ nodes[i] \in Wrappers
  BY DEF Range, Typing, TypeOK
<1>3. w.at \in Nat \X Nat
  BY <1>1, <1>2 DEF Wrappers
<1>4. IsLine(w.at)
  BY <1>1, <1>2 DEF Whole, Entries
<1>5. w.at \in Places
  BY <1>3, <1>4, LinePlace DEF Typing
<1>6. ~ErrorAt(w.at)
  BY <1>1, <1>2 DEF Apart, ErrorAt
<1> QED
  BY <1>1, <1>2, <1>4, <1>5, <1>6 DEF NodeAt

\* Which lists a line stands in, by their counts.
LEMMA Reports ==
    ASSUME TypeOK, NEW a
    PROVE  /\ Hits(dropped, NodesAt(a)) \in Nat /\ Hits(failed, LossesAt(a)) \in Nat
           /\ Hits(outcomes, OutcomesAt(a)) \in Nat
           /\ DroppedAt(a) <=> Hits(dropped, NodesAt(a)) # 0
           /\ FailedAt(a) <=> Hits(failed, LossesAt(a)) # 0
           /\ OutcomeAt(a, TRUE) \/ OutcomeAt(a, FALSE)
                 <=> Hits(outcomes, OutcomesAt(a)) # 0
<1>0. dropped \in Seq(Wrappers) /\ failed \in Seq(Losses) /\ outcomes \in Seq(Outcomes)
  BY DEF TypeOK
<1>1. /\ Hits(dropped, NodesAt(a)) \in Nat /\ Hits(failed, LossesAt(a)) \in Nat
      /\ Hits(outcomes, OutcomesAt(a)) \in Nat
  BY <1>0, HitsType
<1>2. Range(dropped) \subseteq Wrappers /\ Range(failed) \subseteq Losses
      /\ Range(outcomes) \subseteq Outcomes
  BY <1>0, RangeType
<1>3. DroppedAt(a) <=> Hits(dropped, NodesAt(a)) # 0
  <2>1. ASSUME DroppedAt(a)
        PROVE  Hits(dropped, NodesAt(a)) # 0
    <3>1. PICK i \in DOMAIN dropped : dropped[i].at = a
      BY <2>1 DEF DroppedAt, Range
    <3>2. dropped[i] \in NodesAt(a)
      BY <1>0, <3>1 DEF NodesAt
    <3> QED
      BY <1>0, <3>2, HitsSome
  <2>2. ASSUME ~DroppedAt(a)
        PROVE  Hits(dropped, NodesAt(a)) = 0
    <3>1. {j \in DOMAIN dropped : dropped[j] \in NodesAt(a)} = {}
      BY <2>2 DEF DroppedAt, NodesAt, Range
    <3> QED
      BY <3>1, FS_EmptySet DEF Hits
  <2> QED
    BY <2>1, <2>2
<1>4. FailedAt(a) <=> Hits(failed, LossesAt(a)) # 0
  <2>1. ASSUME FailedAt(a)
        PROVE  Hits(failed, LossesAt(a)) # 0
    <3>1. PICK i \in DOMAIN failed : failed[i].w.at = a
      BY <2>1 DEF FailedAt, Range
    <3>2. failed[i] \in LossesAt(a)
      BY <1>0, <3>1 DEF LossesAt
    <3> QED
      BY <1>0, <3>2, HitsSome
  <2>2. ASSUME ~FailedAt(a)
        PROVE  Hits(failed, LossesAt(a)) = 0
    <3>1. {j \in DOMAIN failed : failed[j] \in LossesAt(a)} = {}
      BY <2>2 DEF FailedAt, LossesAt, Range
    <3> QED
      BY <3>1, FS_EmptySet DEF Hits
  <2> QED
    BY <2>1, <2>2
<1>5. OutcomeAt(a, TRUE) \/ OutcomeAt(a, FALSE) <=> Hits(outcomes, OutcomesAt(a)) # 0
  <2>1. ASSUME OutcomeAt(a, TRUE) \/ OutcomeAt(a, FALSE)
        PROVE  Hits(outcomes, OutcomesAt(a)) # 0
    <3>1. PICK i \in DOMAIN outcomes : outcomes[i].w.at = a
      BY <2>1 DEF OutcomeAt, Range
    <3>2. outcomes[i] \in OutcomesAt(a)
      BY <1>0, <3>1 DEF OutcomesAt
    <3> QED
      BY <1>0, <3>2, HitsSome
  <2>2. ASSUME ~OutcomeAt(a, TRUE), ~OutcomeAt(a, FALSE)
        PROVE  Hits(outcomes, OutcomesAt(a)) = 0
    <3>1. \A o \in Outcomes : o.scored = TRUE \/ o.scored = FALSE
      BY DEF Outcomes
    <3>2. \A o \in Range(outcomes) : o.w.at # a
      BY <1>2, <2>2, <3>1 DEF OutcomeAt
    <3>3. {j \in DOMAIN outcomes : outcomes[j] \in OutcomesAt(a)} = {}
      BY <3>2 DEF OutcomesAt, Range
    <3> QED
      BY <3>3, FS_EmptySet DEF Hits
  <2> QED
    BY <2>1, <2>2
<1> QED
  BY <1>1, <1>3, <1>4, <1>5

\* The node a stage handles next is in no report yet.
LEMMA HeadPending ==
    ASSUME Typing, Accounts, pc \notin {"start", "ingest"}, queue # <<>>
    PROVE  LET k == Head(queue).at
           IN  /\ Head(queue) \in Travelling
               /\ ~DroppedAt(k) /\ ~FailedAt(k)
               /\ ~OutcomeAt(k, TRUE) /\ ~OutcomeAt(k, FALSE)
<1> DEFINE w == Head(queue)
           N == NodesAt(w.at)
<1>1. queue \in Seq(Wrappers) /\ out \in Seq(Wrappers)
  BY DEF Typing, TypeOK
<1>2. Tail(queue) \in Seq(Wrappers) /\ w \in Wrappers
  BY <1>1
<1>3. Hits(queue, N) = Hits(Tail(queue), N) + 1
  BY <1>1, <1>2, HitsTail DEF NodesAt
<1>4. Hits(Tail(queue), N) \in Nat /\ Hits(out, N) \in Nat
  BY <1>1, <1>2, HitsType
<1>5. w \in Travelling
  BY <1>1, RangeTail DEF Travelling
<1>6. Total(w.at) = 1
  BY <1>5 DEF Accounts, Traced, Counted, Comes, SameLine
<1>7. /\ Hits(dropped, N) \in Nat /\ Hits(failed, LossesAt(w.at)) \in Nat
      /\ Hits(outcomes, OutcomesAt(w.at)) \in Nat
  BY Reports DEF Typing
<1>8. /\ Hits(dropped, N) = 0 /\ Hits(failed, LossesAt(w.at)) = 0
      /\ Hits(outcomes, OutcomesAt(w.at)) = 0
  BY <1>3, <1>4, <1>6, <1>7 DEF Total
<1> QED
  BY <1>5, <1>8, Reports DEF Typing

\* A step of a stage decides at most the fate of the line it handles.
LEMMA HandledFates ==
    ASSUME Typing, Accounts, Apart, Whole, Handled
    PROVE  [Trail!Next]_(Trail!vars)
<1> DEFINE w == Head(queue)
<1>1. /\ pc \in Stages /\ Handle(pc) /\ queue # <<>>
      /\ UNCHANGED <<config, pc, src, pos, nodes, errors>>
  BY DEF Handled, Handle, ingestVars
<1>2. ~Done /\ ~Done'
  BY <1>1 DEF Done, Stages
<1>3. PICK k : k = w.at
  OBVIOUS
<1>4. /\ w \in Travelling /\ ~DroppedAt(k) /\ ~FailedAt(k)
      /\ ~OutcomeAt(k, TRUE) /\ ~OutcomeAt(k, FALSE)
  BY <1>1, <1>3, HeadPending DEF Stages
<1>5. k \in Places /\ IsLine(k) /\ NodeAt(k) /\ ~ErrorAt(k)
  BY <1>3, <1>4, OnItsWay
<1>6. FateOf(k) = "pending"
  BY <1>4, <1>5 DEF FateOf
<1>7. \A l : /\ ErrorAt(l)' = ErrorAt(l) /\ NodeAt(l)' = NodeAt(l)
             /\ IsLine(l)' = IsLine(l) /\ Read(l)' = Read(l)
             /\ (src > l[1] /\ Lost(l[1]))' = (src > l[1] /\ Lost(l[1]))
  <2>1. \A l : /\ ErrorAt(l)' = ErrorAt(l) /\ NodeAt(l)' = NodeAt(l)
               /\ IsLine(l)' = IsLine(l) /\ Read(l)' = Read(l)
    BY <1>1 DEF ErrorAt, NodeAt, IsLine, Read
  <2>2. \A n : Lost(n)' = Lost(n)
    BY <1>1, <2>1 DEF Lost
  <2> QED
    BY <1>1, <2>1, <2>2
<1>8. dropped \in Seq(Wrappers) /\ failed \in Seq(Losses) /\ outcomes \in Seq(Outcomes)
      /\ w \in Wrappers
  BY <1>1, HandleType DEF Typing, TypeOK
<1> HIDE DEF w
<1>9. CASE HandedOn(w)
  <2>1. \A l : /\ DroppedAt(l)' = DroppedAt(l) /\ FailedAt(l)' = FailedAt(l)
               /\ OutcomeAt(l, TRUE)' = OutcomeAt(l, TRUE)
               /\ OutcomeAt(l, FALSE)' = OutcomeAt(l, FALSE)
    BY <1>9 DEF HandedOn, DroppedAt, FailedAt, OutcomeAt
  <2>2. \A l \in Places : FateOf(l)' = FateOf(l)
    BY <1>1, <1>7, <2>1, SameFate
  <2> QED
    BY <1>2, <2>2, NoFateChanged
<1>10. CASE DroppedNow(w) \/ FailedNow(w) \/ ScoredNow(w)
  <2>1. \E f \in Trail!Parsed :
           /\ FateOf(k)' = f
           /\ \A l : l # k => /\ DroppedAt(l)' <=> DroppedAt(l)
                              /\ FailedAt(l)' <=> FailedAt(l)
                              /\ OutcomeAt(l, TRUE)' <=> OutcomeAt(l, TRUE)
                              /\ OutcomeAt(l, FALSE)' <=> OutcomeAt(l, FALSE)
    <3>1. CASE DroppedNow(w)
      <4>1. Range(dropped)' = Range(dropped) \cup {w} /\ UNCHANGED <<failed, outcomes>>
        BY <1>8, <3>1, RangeAppend DEF DroppedNow
      <4>2. \A l : /\ DroppedAt(l)' <=> DroppedAt(l) \/ l = k
                   /\ FailedAt(l)' <=> FailedAt(l)
                   /\ OutcomeAt(l, TRUE)' <=> OutcomeAt(l, TRUE)
                   /\ OutcomeAt(l, FALSE)' <=> OutcomeAt(l, FALSE)
        BY <1>3, <4>1 DEF DroppedAt, FailedAt, OutcomeAt
      <4>3. FateOf(k)' = "dropped"
        BY <1>5, <1>7, <4>2 DEF FateOf
      <4> QED
        BY <4>2, <4>3 DEF Trail!Parsed
    <3>2. CASE FailedNow(w)
      <4>0. PICK x : x = [w |-> w, stage |-> pc]
        OBVIOUS
      <4>1. x \in Losses /\ x.w = w
        BY <1>8, <3>2, <4>0 DEF FailedNow, Losses
      <4>2. Range(failed)' = Range(failed) \cup {x} /\ UNCHANGED <<dropped, outcomes>>
        BY <1>8, <3>2, <4>0, <4>1, RangeAppend DEF FailedNow
      <4>3. \A l : /\ FailedAt(l)' <=> FailedAt(l) \/ l = k
                   /\ DroppedAt(l)' <=> DroppedAt(l)
                   /\ OutcomeAt(l, TRUE)' <=> OutcomeAt(l, TRUE)
                   /\ OutcomeAt(l, FALSE)' <=> OutcomeAt(l, FALSE)
        BY <1>3, <4>1, <4>2 DEF DroppedAt, FailedAt, OutcomeAt
      <4>4. FateOf(k)' = "failed"
        BY <1>4, <1>5, <1>7, <4>3 DEF FateOf
      <4> QED
        BY <4>3, <4>4 DEF Trail!Parsed
    <3>3. CASE ScoredNow(w)
      <4>0. PICK x : x = [w |-> w, scored |-> Scored(w)]
        OBVIOUS
      <4>1. Scored(w) \in BOOLEAN
        BY <1>8 DEF Scored, Wrappers, Nodes
      <4>2. x \in Outcomes /\ x.w = w /\ x.scored = Scored(w)
        BY <1>8, <4>0, <4>1 DEF Outcomes
      <4>3. Range(outcomes)' = Range(outcomes) \cup {x} /\ UNCHANGED <<dropped, failed>>
        BY <1>8, <3>3, <4>0, <4>2, RangeAppend DEF ScoredNow
      <4>4. \A l : /\ OutcomeAt(l, TRUE)' <=> OutcomeAt(l, TRUE) \/ (l = k /\ Scored(w) = TRUE)
                   /\ OutcomeAt(l, FALSE)' <=> OutcomeAt(l, FALSE) \/ (l = k /\ Scored(w) = FALSE)
                   /\ DroppedAt(l)' <=> DroppedAt(l)
                   /\ FailedAt(l)' <=> FailedAt(l)
        BY <1>3, <4>2, <4>3 DEF DroppedAt, FailedAt, OutcomeAt
      <4>5. CASE Scored(w) = TRUE
        <5>1. FateOf(k)' = "scored"
          BY <1>4, <1>5, <1>7, <4>4, <4>5 DEF FateOf
        <5> QED
          BY <4>4, <5>1 DEF Trail!Parsed
      <4>6. CASE Scored(w) = FALSE
        <5>1. FateOf(k)' = "unranked"
          BY <1>4, <1>5, <1>7, <4>4, <4>6 DEF FateOf
        <5> QED
          BY <4>4, <5>1 DEF Trail!Parsed
      <4> QED
        BY <4>1, <4>5, <4>6
    <3> QED
      BY <1>10, <3>1, <3>2, <3>3
  <2>2. PICK f \in Trail!Parsed :
           /\ FateOf(k)' = f
           /\ \A l : l # k => /\ DroppedAt(l)' <=> DroppedAt(l)
                              /\ FailedAt(l)' <=> FailedAt(l)
                              /\ OutcomeAt(l, TRUE)' <=> OutcomeAt(l, TRUE)
                              /\ OutcomeAt(l, FALSE)' <=> OutcomeAt(l, FALSE)
    BY <2>1
  <2>3. \A l \in Places : l # k => FateOf(l)' = FateOf(l)
    BY <1>1, <1>7, <2>2, SameFate
  <2>4. Trail!Decide(k)
    BY <1>2, <1>5, <1>6, <2>2, <2>3, OneFateChanged DEF Trail!Decide, Done
  <2> QED
    BY <1>5, <2>4 DEF Trail!Next
<1> QED
  BY <1>9, <1>10 DEF Handled, w

-----------------------------------------------------------------------------
(* The report *)

\* All that stands for one line has one key.
LEMMA KeyOfPlace ==
    ASSUME Accounts, Apart
    PROVE  /\ \A x, y \in Entries : x.at = y.at => Key(x) = Key(y)
           /\ \A v \in Travelling, w \in Range(nodes) : v.at = w.at => Key(v) = Key(w)
<1>1. \A v, w \in Range(nodes) : v.at = w.at => v = w
  BY DEF Accounts, Distinct, Range
<1>2. \A v, w \in Range(errors) : v.at = w.at => v = w
  BY DEF Apart, Range
<1>3. \A x, y \in Entries : x.at = y.at => x = y
  BY <1>1, <1>2 DEF Apart, Entries
<1>4. ASSUME NEW v \in Travelling, NEW w \in Range(nodes), v.at = w.at
      PROVE  Key(v) = Key(w)
  <2>1. PICK i \in DOMAIN nodes : SameLine(nodes[i], v)
    BY DEF Accounts, Traced, Comes
  <2>2. nodes[i] \in Range(nodes) /\ nodes[i].at = w.at
    BY <1>4, <2>1 DEF Range, SameLine
  <2>3. nodes[i] = w
    BY <1>1, <2>2
  <2> QED
    BY <2>1, <2>3 DEF SameLine, Key
<1> QED
  BY <1>3, <1>4

\* When all stages are through, a node is in one report.
LEMMA Reported ==
    ASSUME Typing, Accounts, pc \notin {"start", "ingest"}, queue = <<>>, out = <<>>,
           NEW l, NodeAt(l)
    PROVE  /\ DroppedAt(l) \/ FailedAt(l) \/ OutcomeAt(l, TRUE) \/ OutcomeAt(l, FALSE)
           /\ DroppedAt(l) => ~FailedAt(l)
           /\ DroppedAt(l) \/ FailedAt(l) => ~OutcomeAt(l, TRUE) /\ ~OutcomeAt(l, FALSE)
<1>1. PICK i \in DOMAIN nodes : nodes[i].at = l
  BY DEF NodeAt, Range
<1>2. Total(l) = 1
  BY <1>1 DEF Accounts, Counted
<1>3. Hits(queue, NodesAt(l)) = 0 /\ Hits(out, NodesAt(l)) = 0
  BY HitsEmpty
<1>4. /\ Hits(dropped, NodesAt(l)) \in Nat /\ Hits(failed, LossesAt(l)) \in Nat
      /\ Hits(outcomes, OutcomesAt(l)) \in Nat
  BY Reports DEF Typing
<1>5. Hits(dropped, NodesAt(l)) + Hits(failed, LossesAt(l)) + Hits(outcomes, OutcomesAt(l)) = 1
  BY <1>2, <1>3, <1>4 DEF Total
<1>6. /\ DroppedAt(l) <=> Hits(dropped, NodesAt(l)) # 0
      /\ FailedAt(l) <=> Hits(failed, LossesAt(l)) # 0
      /\ OutcomeAt(l, TRUE) \/ OutcomeAt(l, FALSE) <=> Hits(outcomes, OutcomesAt(l)) # 0
  BY Reports DEF Typing
<1>7. ASSUME NEW d \in Nat, NEW f \in Nat, NEW o \in Nat, d + f + o = 1
      PROVE  /\ d # 0 \/ f # 0 \/ o # 0
             /\ d # 0 => f = 0
             /\ d # 0 \/ f # 0 => o = 0
  BY <1>7
<1>8. /\ Hits(dropped, NodesAt(l)) # 0 \/ Hits(failed, LossesAt(l)) # 0
           \/ Hits(outcomes, OutcomesAt(l)) # 0
      /\ Hits(dropped, NodesAt(l)) # 0 => Hits(failed, LossesAt(l)) = 0
      /\ Hits(dropped, NodesAt(l)) # 0 \/ Hits(failed, LossesAt(l)) # 0
           => Hits(outcomes, OutcomesAt(l)) = 0
  BY <1>4, <1>5, <1>7
<1> QED
  BY <1>6, <1>8, Zenon

\* Before the audit every fate is decided.
LEMMA AllDecided ==
    ASSUME Typing, Accounts, Apart, Ending, Whole, pc = "report"
    PROVE  \A l \in Places : FateOf(l) \in Trail!Unparsed \cup Trail!Parsed
<1> SUFFICES ASSUME NEW l \in Places
             PROVE  FateOf(l) \in Trail!Unparsed \cup Trail!Parsed
  OBVIOUS
<1> USE DEF Trail!Unparsed, Trail!Parsed
<1>1. queue = <<>> /\ out = <<>> /\ src > Len(config.sources)
  BY DEF Ending, Whole
<1>2. CASE NodeAt(l)
  <2>1. DroppedAt(l) \/ FailedAt(l) \/ OutcomeAt(l, TRUE) \/ OutcomeAt(l, FALSE)
    BY <1>1, <1>2, Reported
  <2> QED
    BY <2>1 DEF FateOf
<1>3. CASE ~NodeAt(l) /\ IsLine(l)
  <2>1. config.sources \in Seq(Sources) /\ src \in Nat
    BY ConfigAssumption DEF Typing, TypeOK, ConfigSpace
  <2>2. src > l[1]
    BY <1>1, <1>3, <2>1 DEF IsLine
  <2>3. Read(l)
    BY <2>2 DEF Read
  <2>4. Lost(l[1]) \/ config.sources[l[1]].lines[l[2]] = Blank \/ ErrorAt(l)
    BY <1>3, <2>3 DEF Whole
  <2> QED
    BY <1>3, <2>2, <2>3, <2>4 DEF FateOf
<1>4. CASE ~IsLine(l)
  BY <1>4 DEF FateOf
<1> QED
  BY <1>2, <1>3, <1>4

\* The audit reports them.
LEMMA ReportFates ==
    ASSUME Typing, Accounts, Owned, Apart, Ending, Whole, MergeReports, AuditFaithful'
    PROVE  Trail!Report
<1>1. /\ pc = "report" /\ error = "none" /\ queue = <<>> /\ out = <<>>
      /\ pc' = "end" /\ error' = "none"
      /\ UNCHANGED <<config, src, pos, nodes, errors, dropped, failed, outcomes, ranked>>
  BY DEF MergeReports, Ending, ingestVars
<1>2. PICK R : R = rows'
  OBVIOUS
<1> DEFINE Is(x, status, stage, rank) ==
             {r \in R : r.key = Key(x)} =
               {[key |-> Key(x), status |-> status, stage |-> stage, rank |-> rank]}
           Mine(l) == {r \in R : \E x \in Entries : x.at = l /\ r.key = Key(x)}
           Says(r) == IF r.status = "ok" THEN "scored" ELSE r.status
<1>3. /\ \A e \in Range(errors) : Is(e, "rejected", "ingest", 0)
      /\ \A w \in Range(dropped) : Is(w, "dropped", "dedup", 0)
      /\ \A f \in Range(failed) : Is(f.w, "failed", f.stage, 0)
      /\ \A o \in Range(outcomes) : IF ~o.scored THEN Is(o.w, "unranked", "score", 0)
                                    ELSE \E i : Is(o.w, "ok", "", i)
  <2>1. Done'
    BY <1>1 DEF Done
  <2>2. \A x : Key(x)' = Key(x)
    BY DEF Key
  <2>3. /\ \A e \in Range(errors) : Is(e, "rejected", "ingest", 0)
        /\ \A w \in Range(dropped) : Is(w, "dropped", "dedup", 0)
        /\ \A f \in Range(failed) : Is(f.w, "failed", f.stage, 0)
    BY <1>1, <1>2, <2>1, <2>2 DEF AuditFaithful
  <2>4. \A o \in Range(outcomes) :
           IF ~o.scored THEN Is(o.w, "unranked", "score", 0)
           ELSE \/ \E i \in DOMAIN ranked : ranked[i] = o.w /\ Is(o.w, "ok", "", i)
                \/ /\ o.w \notin Range(ranked)
                   /\ Len(ranked) = config.top_n
                   /\ Is(o.w, "ok", "", 0)
    BY <1>1, <1>2, <2>1, <2>2 DEF AuditFaithful
  <2> HIDE DEF Is
  <2> QED
    BY <2>3, <2>4
<1>4. \A l : FateOf(l)' = FateOf(l)
  BY <1>1 DEF FateOf, IsLine, ErrorAt, DroppedAt, FailedAt, OutcomeAt, NodeAt, Read, Lost
<1>5. ASSUME NEW x \in Entries, NEW v, Key(v) = Key(x),
             NEW status, NEW stage, NEW rank, Is(v, status, stage, rank)
      PROVE  \E r : Mine(x.at) = {r} /\ r.status = status
  <2>1. Mine(x.at) = {r \in R : r.key = Key(x)}
    BY KeyOfPlace
  <2>2. PICK r : r = [key |-> Key(v), status |-> status, stage |-> stage, rank |-> rank]
    OBVIOUS
  <2>3. {q \in R : q.key = Key(v)} = {r}
    BY <1>5, <2>2
  <2>4. r.status = status
    BY <2>2
  <2> HIDE DEF Mine
  <2> QED
    BY <1>5, <2>1, <2>3, <2>4
<1> HIDE DEF Is, Mine
<1>6. ASSUME NEW l \in Places, NEW x \in Entries, x.at = l
      PROVE  \E r : Mine(l) = {r} /\ Says(r) = FateOf(l)
  <2>0. IsLine(l)
    BY <1>6, PlaceType DEF Whole
  <2>1. CASE ErrorAt(l)
    <3>1. PICK e \in Range(errors) : e.at = l
      BY <2>1 DEF ErrorAt
    <3>2. Key(e) = Key(x) /\ Is(e, "rejected", "ingest", 0)
      BY <1>3, <1>6, <3>1, KeyOfPlace DEF Entries
    <3>3. \E r : Mine(l) = {r} /\ r.status = "rejected"
      BY <1>5, <1>6, <3>2
    <3> QED
      BY <2>0, <2>1, <3>3 DEF FateOf
  <2>2. CASE ~ErrorAt(l)
    <3>1. x \in Range(nodes) /\ NodeAt(l)
      BY <1>6, <2>2 DEF Entries, ErrorAt, NodeAt
    <3>2. \A v \in Travelling : v.at = l => Key(v) = Key(x)
      BY <1>6, <3>1, KeyOfPlace
    <3>3. /\ DroppedAt(l) \/ FailedAt(l) \/ OutcomeAt(l, TRUE) \/ OutcomeAt(l, FALSE)
          /\ DroppedAt(l) => ~FailedAt(l)
          /\ DroppedAt(l) \/ FailedAt(l) => ~OutcomeAt(l, TRUE) /\ ~OutcomeAt(l, FALSE)
      BY <1>1, <3>1, Reported
    <3>4. CASE DroppedAt(l)
      <4>1. PICK w \in Range(dropped) : w.at = l
        BY <3>4 DEF DroppedAt
      <4>2. Key(w) = Key(x) /\ Is(w, "dropped", "dedup", 0)
        BY <1>3, <3>2, <4>1 DEF Travelling
      <4>3. \E r : Mine(l) = {r} /\ r.status = "dropped"
        BY <1>5, <1>6, <4>2
      <4> QED
        BY <2>0, <2>2, <3>4, <4>3 DEF FateOf
    <3>5. CASE FailedAt(l)
      <4>1. PICK f \in Range(failed) : f.w.at = l
        BY <3>5 DEF FailedAt
      <4>2. Key(f.w) = Key(x) /\ Is(f.w, "failed", f.stage, 0)
        BY <1>3, <3>2, <4>1 DEF Travelling
      <4>3. \E r : Mine(l) = {r} /\ r.status = "failed"
        BY <1>5, <1>6, <4>2
      <4> QED
        BY <2>0, <2>2, <3>3, <3>5, <4>3 DEF FateOf
    <3>6. CASE OutcomeAt(l, FALSE)
      <4>1. PICK o \in Range(outcomes) : o.w.at = l /\ o.scored = FALSE
        BY <3>6 DEF OutcomeAt
      <4>2. Key(o.w) = Key(x) /\ Is(o.w, "unranked", "score", 0)
        BY <1>3, <3>2, <4>1 DEF Travelling
      <4>3. \E r : Mine(l) = {r} /\ r.status = "unranked"
        BY <1>5, <1>6, <4>2
      <4> QED
        BY <2>0, <2>2, <3>3, <3>6, <4>3 DEF FateOf
    <3>7. CASE OutcomeAt(l, TRUE)
      <4>1. PICK o \in Range(outcomes) : o.w.at = l /\ o.scored = TRUE
        BY <3>7 DEF OutcomeAt
      <4>2. PICK i : Is(o.w, "ok", "", i)
        BY <1>3, <4>1
      <4>3. Key(o.w) = Key(x)
        BY <3>2, <4>1 DEF Travelling
      <4>4. \E r : Mine(l) = {r} /\ r.status = "ok"
        BY <1>5, <1>6, <4>2, <4>3
      <4>5. ~OutcomeAt(l, FALSE)
        <5>1. ASSUME NEW u \in Range(outcomes), u.w.at = l, u.scored = FALSE
              PROVE  FALSE
          <6>1. Key(u.w) = Key(o.w)
            BY <3>2, <4>3, <5>1 DEF Travelling
          <6>2. \A m, n \in DOMAIN outcomes :
                   Key(outcomes[m].w) = Key(outcomes[n].w) => m = n
            BY <1>1, OneFate
          <6>3. u = o
            BY <6>1, <6>2 DEF Range
          <6> QED
            BY <4>1, <5>1, <6>3
        <5> QED
          BY <5>1 DEF OutcomeAt
      <4> QED
        BY <2>0, <2>2, <3>3, <3>7, <4>4, <4>5 DEF FateOf
    <3> QED
      BY <3>3, <3>4, <3>5, <3>6, <3>7
  <2> QED
    BY <2>1, <2>2
<1>7. ASSUME NEW l \in Places
      PROVE  Told(l)' = FateOf(l)
  <2>1. Told(l)' = IF Mine(l) = {} THEN FateOf(l)'
                   ELSE Says(CHOOSE r \in Mine(l) : TRUE)
    BY <1>1, <1>2 DEF Told, Mine, Entries, Key
  <2>2. CASE \E x \in Entries : x.at = l
    <3>1. PICK x \in Entries : x.at = l
      BY <2>2
    <3>2. PICK r : Mine(l) = {r} /\ Says(r) = FateOf(l)
      BY <1>6, <3>1
    <3>3. (CHOOSE q \in Mine(l) : TRUE) = r
      BY <3>2
    <3> QED
      BY <2>1, <3>2, <3>3
  <2>3. CASE ~\E x \in Entries : x.at = l
    <3>1. Mine(l) = {}
      BY <2>3 DEF Mine
    <3> QED
      BY <1>4, <2>1, <3>1
  <2> QED
    BY <2>2, <2>3
<1>8. \A l \in Places : FateOf(l) \in Trail!Unparsed \cup Trail!Parsed
  BY <1>1, AllDecided
<1> QED
  BY <1>1, <1>4, <1>7, <1>8 DEF Trail!Report

\* Every step of a run is a step of the trail or leaves it alone.
LEMMA TrailStep ==
    ASSUME Typing, Typing', Accounts, Owned, Apart, Ending, Ending', Whole, Whole',
           AuditFaithful', [Next]_vars
    PROVE  [Trail!Next]_(Trail!vars)
<1>1. CASE OpenSource \/ ReadLine \/ CloseSource
  BY <1>1, ReadingStep, ReadingFates
<1>2. CASE Handled
  BY <1>2, HandledFates
<1>3. CASE MergeReports
  BY <1>3, ReportFates DEF Trail!Next
<1>4. CASE CheckInputs \/ EndIngest \/ AnnotateGeo \/ NextStage \/ Rank \/ BuildOutputs
           \/ WriteOutputs
  <2>1. UNCHANGED <<config, src, pos, nodes, errors, dropped, failed, outcomes>>
    BY <1>4 DEF CheckInputs, EndIngest, AnnotateGeo, NextStage, Rank, BuildOutputs,
                WriteOutputs, Handle, ingestVars
  <2>2. \A l : FateOf(l)' = FateOf(l)
    BY <2>1 DEF FateOf, IsLine, ErrorAt, DroppedAt, FailedAt, OutcomeAt, NodeAt, Read, Lost
  <2>3. ~Done /\ ~Done'
    BY <1>4 DEF CheckInputs, EndIngest, AnnotateGeo, NextStage, Following, Rank, BuildOutputs,
                WriteOutputs, Handle, Done
  <2> QED
    BY <2>2, <2>3, NoFateChanged
<1>5. CASE UNCHANGED vars
  <2>1. \A l : FateOf(l)' = FateOf(l) /\ Told(l)' = Told(l)
    BY <1>5 DEF vars, Told, Key, FateOf, IsLine, ErrorAt, DroppedAt, FailedAt, OutcomeAt,
                NodeAt, Read, Lost
  <2> QED
    BY <1>5, <2>1 DEF vars, Trail!vars
<1> QED
  BY <1>1, <1>2, <1>3, <1>4, <1>5, StageStep DEF Next, Typing

\* A run implements AuditTrail: each line it is given meets one fate, which is decided
\* once and revised by no later stage, a source is lost whole or not at all, and the
\* audit, which _merge_node_reports pieces together by key, tells the fate of every line.
THEOREM RunImplementsTrail ==
    ASSUME NamesApart
    PROVE  Spec => TrailSpec
<1>1. Init => Trail!Init
  <2> SUFFICES ASSUME Init PROVE Trail!Init
    OBVIOUS
  <2>1. /\ pc = "start" /\ src = 1 /\ pos = 0 /\ nodes = <<>> /\ errors = <<>>
        /\ dropped = <<>> /\ failed = <<>> /\ outcomes = <<>>
    BY DEF Init
  <2>2. ASSUME NEW l \in Places
        PROVE  FateOf(l) \in {"unread", "blank"}
    <3>1. /\ ~ErrorAt(l) /\ ~DroppedAt(l) /\ ~FailedAt(l) /\ ~NodeAt(l)
          /\ ~OutcomeAt(l, TRUE) /\ ~OutcomeAt(l, FALSE)
      BY <2>1, RangeEmpty DEF ErrorAt, DroppedAt, FailedAt, OutcomeAt, NodeAt
    <3>2. ~(src > l[1])
      BY <2>1, PlaceType
    <3> QED
      BY <3>1, <3>2 DEF FateOf
  <2> QED
    BY <2>1, <2>2 DEF Trail!Init
<1>2. Typing /\ Typing' /\ Accounts /\ Owned /\ Apart /\ Ending /\ Ending' /\ Whole /\ Whole'
        /\ AuditFaithful' /\ [Next]_vars => [Trail!Next]_(Trail!vars)
  BY TrailStep
<1> QED
  BY <1>1, <1>2, TypingHolds, AccountsHold, OwnedHolds, EndingHolds, WholeHolds,
     AuditIsFaithful, PTL DEF Spec, TrailSpec, Trail!Spec

===============================================================================
