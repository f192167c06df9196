-------------------------- MODULE ResolverCache_proofs --------------------------
(***************************************************************************)
(* Theorems about ResolverCache, for any hosts, answers, TTL and size of   *)
(* the cache.  What get and put do to the order of the entries is stated   *)
(* once, as "the entries that are left are a subsequence" (Thins); the     *)
(* inductive invariant then only has to look at the entry that is added.   *)
(***************************************************************************)
EXTENDS ResolverCache, SequenceTheorems, TLAPS

\* s holds some of the entries of d, in the order of d.
Thins(s, d) ==
    \E g \in [1..Len(s) -> 1..Len(d)] :
        /\ \A i, j \in 1..Len(s) : i < j => g[i] < g[j]
        /\ \A i \in 1..Len(s) : s[i] = d[g[i]]

\* Every entry is an answer the server gave, good for at most the TTL.
Backed ==
    \A i \in DOMAIN data :
        /\ heard[data[i].host][data[i].answer] # None
        /\ data[i].expires <= heard[data[i].host][data[i].answer] + TTL
        /\ data[i].expires <= now + TTL

IInv == TypeOK /\ Bounded /\ OldestExpiresFirst /\ Backed /\ AnswerIsFresh

-----------------------------------------------------------------------------
(* get and put *)

\* get leaves the entries of the other hosts, and no entry of h.
LEMMA WithoutThins ==
    ASSUME TypeOK, Bounded, NEW h \in Hosts
    PROVE  /\ Without(h) \in Seq(Entries)
           /\ Thins(Without(h), data)
           /\ \A i \in 1..Len(Without(h)) : Without(h)[i].host # h
           /\ \A i \in 1..Len(data) : data[i].host # h =>
                 \E j \in 1..Len(Without(h)) : Without(h)[j] = data[i]
           /\ Cached(h) = {} => Len(Without(h)) = Len(data)
           /\ Cached(h) # {} => Len(Without(h)) = Len(data) - 1
<1>0. data \in Seq(Entries) /\ Len(data) \in Nat /\ DOMAIN data = 1..Len(data)
  BY DEF TypeOK
<1>1. CASE Cached(h) = {}
  <2>1. Without(h) = [i \in 1..Len(data) |-> data[i]]
    BY <1>0, <1>1 DEF Without
  <2>2. Without(h) = data
    BY <2>1, <1>0
  <2>3. Thins(data, data)
    <3> DEFINE g == [i \in 1..Len(data) |-> i]
    <3>1. g \in [1..Len(data) -> 1..Len(data)]
      OBVIOUS
    <3> QED
      BY <3>1, <1>0 DEF Thins
  <2>4. \A i \in 1..Len(data) : data[i].host # h
    BY <1>1, <1>0 DEF Cached
  <2> QED
    BY <2>2, <2>3, <2>4, <1>0, <1>1
<1>2. CASE Cached(h) # {}
  <2>1. PICK k \in 1..Len(data) : data[k].host = h
    BY <1>2, <1>0 DEF Cached
  <2>2. Cached(h) = {k}
    BY <2>1, <1>0 DEF Cached, Bounded
  <2> DEFINE n == Len(data) - 1
             W == Without(h)
             g == [i \in 1..n |-> IF k <= i THEN i + 1 ELSE i]
  <2>3. n \in Nat /\ k \in Nat
    BY <2>1, <1>0
  <2>4. g \in [1..n -> 1..Len(data)]
    BY <2>3, <1>0
  <2>5. W = [i \in 1..n |-> data[g[i]]]
    BY <2>2, <1>0 DEF Without
  <2>6. \A i \in 1..n : data[g[i]] \in Entries
    BY <2>4, <1>0, ElementOfSeq
  <2>7. W \in [1..n -> Entries]
    BY <2>5, <2>6
  <2>8. W \in Seq(Entries) /\ Len(W) = n
    BY <2>7, <2>3, SeqDef, LenProperties
  <2>9. Thins(W, data)
    <3>1. \A i, j \in 1..n : i < j => g[i] < g[j]
      BY <2>3
    <3> QED
      BY <3>1, <2>4, <2>5, <2>8 DEF Thins
  <2>10. \A i \in 1..n : W[i].host # h
    <3>1. \A i \in 1..n : g[i] # k
      BY <2>3
    <3> QED
      BY <3>1, <2>1, <2>4, <2>5, <1>0 DEF Bounded
  <2>11. ASSUME NEW i \in 1..Len(data), data[i].host # h
         PROVE  \E j \in 1..n : W[j] = data[i]
    <3> DEFINE j == IF i < k THEN i ELSE i - 1
    <3>1. i # k
      BY <2>11, <2>1
    <3>2. j \in 1..n /\ g[j] = i
      BY <3>1, <2>3, <2>1, <1>0
    <3> QED
      BY <3>2, <2>5
  <2> QED
    BY <2>8, <2>9, <2>10, <2>11, <1>2
<1> QED
  BY <1>1, <1>2

\* The room put makes takes at most the first entry, and that only when full.
LEMMA RoomThins ==
    ASSUME TypeOK, NEW s \in Seq(Entries), Thins(s, data), Len(s) <= MaxEntries
    PROVE  /\ Room(s) \in Seq(Entries)
           /\ Thins(Room(s), data)
           /\ Len(Room(s)) < MaxEntries
           /\ \A i \in 1..Len(Room(s)) : \E j \in 1..Len(s) : Room(s)[i] = s[j]
           /\ \A i \in 1..Len(s) : \/ \E j \in 1..Len(Room(s)) : Room(s)[j] = s[i]
                                   \/ i = 1 /\ Len(s) = MaxEntries
<1>0. Len(s) \in Nat /\ MaxEntries \in Nat \ {0}
  BY CacheAssumption
<1>1. CASE Len(s) >= MaxEntries
  <2>1. s # <<>> /\ Room(s) = Tail(s) /\ Len(s) = MaxEntries
    BY <1>0, <1>1 DEF Room
  <2>2. /\ Tail(s) \in Seq(Entries)
        /\ Len(Tail(s)) = Len(s) - 1
        /\ \A i \in 1..Len(Tail(s)) : Tail(s)[i] = s[i + 1]
    BY <2>1, HeadTailProperties
  <2>3. PICK g \in [1..Len(s) -> 1..Len(data)] :
            /\ \A i, j \in 1..Len(s) : i < j => g[i] < g[j]
            /\ \A i \in 1..Len(s) : s[i] = data[g[i]]
    BY DEF Thins
  <2>4. Thins(Tail(s), data)
    <3> DEFINE f == [i \in 1..Len(Tail(s)) |-> g[i + 1]]
    <3>1. \A i \in 1..Len(Tail(s)) : i + 1 \in 1..Len(s)
      BY <2>2, <1>0
    <3>2. f \in [1..Len(Tail(s)) -> 1..Len(data)]
      BY <3>1
    <3>3. \A i, j \in 1..Len(Tail(s)) : i < j => f[i] < f[j]
      BY <3>1, <2>3
    <3>4. \A i \in 1..Len(Tail(s)) : Tail(s)[i] = data[f[i]]
      BY <3>1, <2>2, <2>3
    <3> QED
      BY <3>2, <3>3, <3>4 DEF Thins
  <2>5. ASSUME NEW i \in 1..Len(Tail(s))
        PROVE  \E j \in 1..Len(s) : Tail(s)[i] = s[j]
    BY <2>2, <1>0
  <2>6. ASSUME NEW i \in 1..Len(s), i # 1
        PROVE  \E j \in 1..Len(Tail(s)) : Tail(s)[j] = s[i]
    <3>1. i - 1 \in 1..Len(Tail(s)) /\ (i - 1) + 1 = i
      BY <2>2, <2>6, <1>0
    <3> QED
      BY <3>1, <2>2
  <2> QED
    BY <2>1, <2>2, <2>4, <2>5, <2>6, <1>0
<1>2. CASE ~(Len(s) >= MaxEntries)
  BY <1>0, <1>2 DEF Room
<1> QED
  BY <1>1, <1>2


-----------------------------------------------------------------------------
(* A subsequence of the entries keeps what holds of the entries *)

\* A subsequence of the entries keeps hosts apart and the order.
LEMMA ThinsKeeps ==
    ASSUME TypeOK, Bounded, OldestExpiresFirst, Backed,
           NEW s \in Seq(Entries), Thins(s, data)
    PROVE  /\ \A i, j \in 1..Len(s) : s[i].host = s[j].host => i = j
           /\ \A i, j \in 1..Len(s) : i <= j => s[i].expires <= s[j].expires
           /\ \A i \in 1..Len(s) : \E k \in 1..Len(data) : s[i] = data[k]
<1>1. PICK g \in [1..Len(s) -> 1..Len(data)] :
          /\ \A i, j \in 1..Len(s) : i < j => g[i] < g[j]
          /\ \A i \in 1..Len(s) : s[i] = data[g[i]]
  BY DEF Thins
<1>2. /\ data \in Seq(Entries) /\ Len(data) \in Nat /\ DOMAIN data = 1..Len(data)
      /\ Len(s) \in Nat
  BY DEF TypeOK
<1>3. ASSUME NEW i \in 1..Len(s), NEW j \in 1..Len(s), s[i].host = s[j].host
      PROVE  i = j
  <2>1. g[i] = g[j]
    BY <1>1, <1>2, <1>3, SMTT(30) DEF Bounded
  <2>2. g[i] \in Nat /\ ~(i < j) /\ ~(j < i)
    BY <2>1, <1>1, <1>2
  <2> QED
    BY <2>2, <1>2
<1>4. ASSUME NEW i \in 1..Len(s), NEW j \in 1..Len(s), i <= j
      PROVE  s[i].expires <= s[j].expires
  <2>1. g[i] <= g[j]
    <3>1. g[i] \in Nat /\ g[j] \in Nat
      BY <1>1, <1>2
    <3>2. CASE i = j
      BY <3>1, <3>2
    <3>3. CASE i < j
      BY <3>1, <3>3, <1>1
    <3> QED
      BY <3>2, <3>3, <1>2, <1>4
  <2> QED
    BY <2>1, <1>1, <1>2 DEF OldestExpiresFirst
<1> QED
  BY <1>1, <1>3, <1>4

-----------------------------------------------------------------------------
(* The inductive invariant *)

\* The empty cache.
LEMMA InitInv == Init => IInv
<1> SUFFICES ASSUME Init PROVE IInv
  OBVIOUS
<1>1. data = <<>> /\ data \in Seq(Entries) /\ Len(data) = 0 /\ DOMAIN data = {}
  BY DEF Init
<1>2. TypeOK
  BY <1>1, CacheAssumption DEF Init, TypeOK, Returns
<1>3. Bounded /\ OldestExpiresFirst /\ Backed
  BY <1>1, CacheAssumption DEF Bounded, OldestExpiresFirst, Backed
<1>4. AnswerIsFresh
  BY DEF Init, AnswerIsFresh
<1> QED
  BY <1>2, <1>3, <1>4 DEF IInv

\* A hit answers with an entry that is still good, hence with a fresh answer.
LEMMA HitInv ==
    ASSUME IInv, NEW h \in Hosts, Hit(h)
    PROVE  IInv'
<1>1. PICK i \in DOMAIN data :
          /\ data[i].host = h
          /\ ~(now > data[i].expires)
          /\ last' = [host |-> h, answer |-> data[i].answer, at |-> now]
  BY DEF Hit, Cached, Expired
<1>2. UNCHANGED <<now, data, heard>>
  BY DEF Hit
<1>3. data[i] \in Entries /\ now \in Nat
  BY DEF IInv, TypeOK
<1>4. TypeOK'
  BY <1>1, <1>2, <1>3 DEF IInv, TypeOK, Returns, Entries
<1>5. Bounded' /\ OldestExpiresFirst' /\ Backed'
  BY <1>2 DEF IInv, Bounded, OldestExpiresFirst, Backed
<1>6. AnswerIsFresh'
  <2>1. /\ heard[h][data[i].answer] # None
        /\ data[i].expires <= heard[h][data[i].answer] + TTL
    BY <1>1 DEF IInv, Backed
  <2>2. heard[h][data[i].answer] \in Nat /\ data[i].expires \in Nat /\ TTL \in Nat
    BY <2>1, <1>3, CacheAssumption DEF IInv, TypeOK, Entries
  <2>3. now <= heard[h][data[i].answer] + TTL
    BY <2>1, <2>2, <1>1, <1>3
  <2> QED
    BY <2>1, <2>3, <1>1, <1>2 DEF AnswerIsFresh
<1> QED
  BY <1>4, <1>5, <1>6 DEF IInv

\* A miss that stores an answer: the new entry comes last and expires last.
LEMMA StoreInv ==
    ASSUME IInv, NEW h \in Hosts, NEW a \in Answers,
           now' \in now..(now + MaxDelay), now' <= MaxTime,
           data' = Append(Room(Without(h)),
                          [host |-> h, expires |-> now' + TTL, answer |-> a]),
           last' = [host |-> h, answer |-> a, at |-> now'],
           heard' = [heard EXCEPT ![h][a] = now']
    PROVE  IInv'
<1> DEFINE W == Without(h)
           R == Room(W)
           e == [host |-> h, expires |-> now' + TTL, answer |-> a]
<1>0. now \in Nat /\ now' \in Nat /\ now <= now' /\ TTL \in Nat /\ MaxEntries \in Nat
  BY CacheAssumption DEF IInv, TypeOK
<1>1. /\ W \in Seq(Entries)
      /\ Thins(W, data)
      /\ \A i \in 1..Len(W) : W[i].host # h
      /\ Len(W) <= MaxEntries
  <2>1. Len(data) \in Nat /\ Len(data) <= MaxEntries
    BY DEF IInv, TypeOK, Bounded
  <2> QED
    BY <2>1, <1>0, WithoutThins DEF IInv
<1>2. /\ R \in Seq(Entries)
      /\ Thins(R, data)
      /\ Len(R) < MaxEntries
      /\ \A i \in 1..Len(R) : \E j \in 1..Len(W) : R[i] = W[j]
  BY <1>1, RoomThins DEF IInv
<1>3. \A i \in 1..Len(R) : R[i].host # h
  BY <1>1, <1>2
<1>4. e \in Entries
  BY <1>0 DEF Entries
<1>5. /\ data' \in Seq(Entries)
      /\ Len(data') = Len(R) + 1
      /\ DOMAIN data' = 1..(Len(R) + 1)
      /\ Len(R) \in Nat
      /\ \A i \in 1..Len(R) : data'[i] = R[i]
      /\ data'[Len(R) + 1] = e
  BY <1>2, <1>4, AppendProperties
<1>6. /\ \A i, j \in 1..Len(R) : R[i].host = R[j].host => i = j
      /\ \A i, j \in 1..Len(R) : i <= j => R[i].expires <= R[j].expires
      /\ \A i \in 1..Len(R) : \E k \in 1..Len(data) : R[i] = data[k]
  BY <1>2, ThinsKeeps DEF IInv
<1>7. \A i \in 1..Len(R) :
          /\ R[i] \in Entries
          /\ heard[R[i].host][R[i].answer] # None
          /\ R[i].expires <= heard[R[i].host][R[i].answer] + TTL
          /\ R[i].expires <= now + TTL
  BY <1>6, <1>2, ElementOfSeq, SMTT(30) DEF IInv, TypeOK, Backed
<1>8. TypeOK'
  <2>1. heard' \in [Hosts -> [Answers -> Nat \cup {None}]]
    <3>1. heard \in [Hosts -> [Answers -> Nat \cup {None}]]
      BY DEF IInv, TypeOK
    <3>2. [heard[h] EXCEPT ![a] = now'] \in [Answers -> Nat \cup {None}]
      BY <3>1, <1>0
    <3> QED
      BY <3>1, <3>2
  <2>2. last' \in Returns
    BY <1>0 DEF Returns
  <2>3. now' \in 0..MaxTime
    BY <1>0, CacheAssumption
  <2> QED
    BY <2>1, <2>2, <2>3, <1>5 DEF TypeOK
<1>9. Bounded'
  <2>1. Len(data') <= MaxEntries
    BY <1>5, <1>2, <1>0
  <2>2. ASSUME NEW i \in 1..(Len(R) + 1), NEW j \in 1..(Len(R) + 1),
               data'[i].host = data'[j].host
        PROVE  i = j
    <3>1. e.host = h
      OBVIOUS
    <3>2. CASE i \in 1..Len(R) /\ j \in 1..Len(R)
      BY <3>2, <2>2, <1>5, <1>6
    <3>3. CASE i = Len(R) + 1 /\ j \in 1..Len(R)
      BY <3>1, <3>3, <2>2, <1>5, <1>3
    <3>4. CASE i \in 1..Len(R) /\ j = Len(R) + 1
      BY <3>1, <3>4, <2>2, <1>5, <1>3
    <3> QED
      BY <3>2, <3>3, <3>4, <1>5
  <2> QED
    BY <2>1, <2>2, <1>5 DEF Bounded
<1>10. OldestExpiresFirst'
  <2>1. ASSUME NEW i \in 1..(Len(R) + 1), NEW j \in 1..(Len(R) + 1), i <= j
        PROVE  data'[i].expires <= data'[j].expires
    <3>1. e.expires = now' + TTL
      OBVIOUS
    <3>2. CASE j \in 1..Len(R)
      <4>1. i \in 1..Len(R)
        BY <3>2, <2>1, <1>5
      <4> QED
        BY <4>1, <3>2, <2>1, <1>5, <1>6
    <3>3. CASE j = Len(R) + 1 /\ i = j
      BY <3>1, <3>3, <1>5, <1>0
    <3>4. CASE j = Len(R) + 1 /\ i # j
      <4>1. i \in 1..Len(R)
        BY <3>4, <2>1, <1>5
      <4>2. data'[i].expires \in Nat /\ data'[i].expires <= now + TTL
        BY <4>1, <1>5, <1>7 DEF Entries
      <4> QED
        BY <4>2, <3>1, <3>4, <1>5, <1>0
    <3> QED
      BY <3>2, <3>3, <3>4, <1>5
  <2> QED
    BY <2>1, <1>5 DEF OldestExpiresFirst
<1>11. Backed'
  <2>1. heard'[h][a] = now'
    BY DEF IInv, TypeOK
  <2>2. ASSUME NEW i \in 1..Len(R)
        PROVE  /\ heard'[R[i].host][R[i].answer] # None
               /\ R[i].expires <= heard'[R[i].host][R[i].answer] + TTL
               /\ R[i].expires <= now' + TTL
    <3>1. R[i].host \in Hosts /\ R[i].host # h /\ R[i].expires \in Nat
      BY <1>3, <1>7 DEF Entries
    <3>2. heard'[R[i].host] = heard[R[i].host]
      BY <3>1 DEF IInv, TypeOK
    <3> QED
      BY <3>1, <3>2, <1>7, <1>0
  <2>3. /\ heard'[e.host][e.answer] # None
        /\ e.expires <= heard'[e.host][e.answer] + TTL
        /\ e.expires <= now' + TTL
    BY <2>1, <1>0, AnswerAssumption
  <2> QED
    BY <2>2, <2>3, <1>5 DEF Backed
<1>12. AnswerIsFresh'
  <2>1. heard'[h][a] = now'
    BY DEF IInv, TypeOK
  <2> QED
    BY <2>1, <1>0, AnswerAssumption DEF AnswerIsFresh
<1> QED
  BY <1>8, <1>9, <1>10, <1>11, <1>12 DEF IInv

\* A miss whose answer is not stored.
LEMMA DropInv ==
    ASSUME IInv, NEW h \in Hosts,
           now' \in now..(now + MaxDelay), now' <= MaxTime,
           data' = Without(h),
           last' = [host |-> h, answer |-> NotCached, at |-> now'],
           UNCHANGED heard
    PROVE  IInv'
<1>0. now \in Nat /\ now' \in Nat /\ now <= now' /\ TTL \in Nat /\ MaxEntries \in Nat
  BY CacheAssumption DEF IInv, TypeOK
<1>1. /\ data' \in Seq(Entries)
      /\ Thins(data', data)
      /\ Len(data') <= MaxEntries
  <2>1. Len(data) \in Nat /\ Len(data) <= MaxEntries
    BY DEF IInv, TypeOK, Bounded
  <2> QED
    BY <2>1, <1>0, WithoutThins DEF IInv
<1>2. /\ \A i, j \in 1..Len(data') : data'[i].host = data'[j].host => i = j
      /\ \A i, j \in 1..Len(data') : i <= j => data'[i].expires <= data'[j].expires
      /\ \A i \in 1..Len(data') : \E k \in 1..Len(data) : data'[i] = data[k]
  BY <1>1, ThinsKeeps DEF IInv
<1>3. DOMAIN data' = 1..Len(data')
  BY <1>1
<1>4. TypeOK'
  BY <1>0, <1>1, CacheAssumption DEF IInv, TypeOK, Returns
<1>5. Bounded' /\ OldestExpiresFirst'
  BY <1>1, <1>2, <1>3 DEF Bounded, OldestExpiresFirst
<1>6. Backed'
  <2>1. ASSUME NEW i \in 1..Len(data')
        PROVE  /\ heard[data'[i].host][data'[i].answer] # None
               /\ data'[i].expires <= heard[data'[i].host][data'[i].answer] + TTL
               /\ data'[i].expires <= now' + TTL
    <3>1. PICK k \in 1..Len(data) : data'[i] = data[k]
      BY <1>2
    <3>2. data[k] \in Entries /\ k \in DOMAIN data
      BY ElementOfSeq DEF IInv, TypeOK
    <3>3. data[k].expires \in Nat
      BY <3>2 DEF Entries
    <3>4. /\ heard[data[k].host][data[k].answer] # None
          /\ data[k].expires <= heard[data[k].host][data[k].answer] + TTL
          /\ data[k].expires <= now + TTL
      BY <3>2 DEF IInv, Backed
    <3> QED
      BY <3>1, <3>3, <3>4, <1>0
  <2> QED
    BY <2>1, <1>3 DEF Backed
<1>7. AnswerIsFresh'
  BY DEF AnswerIsFresh
<1> QED
  BY <1>4, <1>5, <1>6, <1>7 DEF IInv

\* Every step keeps the invariant.
LEMMA NextInv == IInv /\ [Next]_vars => IInv'
<1> SUFFICES ASSUME IInv, [Next]_vars PROVE IInv'
  OBVIOUS
<1>1. CASE Tick
  <2>1. now \in Nat /\ now' = now + 1 /\ now' \in 0..MaxTime /\ TTL \in Nat
    BY <1>1, CacheAssumption DEF Tick, IInv, TypeOK
  <2>2. UNCHANGED <<data, last, heard>>
    BY <1>1 DEF Tick
  <2>3. TypeOK' /\ Bounded' /\ OldestExpiresFirst' /\ AnswerIsFresh'
    BY <2>1, <2>2 DEF IInv, TypeOK, Bounded, OldestExpiresFirst, AnswerIsFresh
  <2>4. Backed'
    <3>1. \A i \in DOMAIN data : data[i] \in Entries
      BY DEF IInv, TypeOK
    <3>2. \A i \in DOMAIN data : data[i].expires \in Nat
      BY <3>1 DEF Entries
    <3> QED
      BY <3>2, <2>1, <2>2 DEF IInv, Backed
  <2> QED
    BY <2>3, <2>4 DEF IInv
<1>2. ASSUME NEW h \in Hosts, Hit(h) PROVE IInv'
  BY <1>2, HitInv
<1>3. ASSUME NEW h \in Hosts, Miss(h) PROVE IInv'
  <2>1. now' \in now..(now + MaxDelay) /\ now' <= MaxTime
    BY <1>3 DEF Miss
  <2>2. ASSUME NEW a \in Cacheable,
               data' = Append(Room(Without(h)),
                              [host |-> h, expires |-> now' + TTL, answer |-> a]),
               last' = [host |-> h, answer |-> a, at |-> now'],
               heard' = [heard EXCEPT ![h][a] = now']
        PROVE  IInv'
    BY <2>1, <2>2, StoreInv DEF Cacheable
  <2>3. ASSUME data' = Without(h),
               last' = [host |-> h, answer |-> NotCached, at |-> now'],
               UNCHANGED heard
        PROVE  IInv'
    BY <2>1, <2>3, DropInv
  <2> QED
    BY <2>2, <2>3, <1>3 DEF Miss
<1>4. CASE UNCHANGED vars
  BY <1>4 DEF vars, IInv, TypeOK, Bounded, OldestExpiresFirst, Backed, AnswerIsFresh
<1> QED
  BY <1>1, <1>2, <1>3, <1>4 DEF Next, Resolve

\* So it holds for ever.
LEMMA Invariance == Spec => []IInv
<1> QED
  BY InitInv, NextInv, PTL DEF Spec

-----------------------------------------------------------------------------
(* The theorems *)

\* The cache, the answers and the times always have their types.
THEOREM CacheTypeCorrect == Spec => []TypeOK
BY Invariance, PTL DEF IInv

\* The cache never holds more than MaxEntries records, nor two for one host
\* (_TTLCache.put and the pop in get).
THEOREM CacheBounded == Spec => []Bounded
BY Invariance, PTL DEF IInv

\* Whatever resolve answers, the server gave for that host no longer than the
\* TTL ago; being served from the cache does not prolong it.
THEOREM CacheFresh == Spec => []AnswerIsFresh
BY Invariance, PTL DEF IInv

\* The entries are in the order of their expiry, so dropping the entry inserted
\* first drops the one that is worth least.
THEOREM CacheOrdered == Spec => []OldestExpiresFirst
BY Invariance, PTL DEF IInv

\* What a step does to a good entry: if it is gone, the cache was full of
\* good entries.
GoodKept ==
    \A i \in DOMAIN data :
        /\ now' <= data[i].expires
        /\ \A j \in DOMAIN data' : data'[j] # data[i]
        => /\ Len(data) = MaxEntries
           /\ \A j \in DOMAIN data : now' <= data[j].expires

\* A miss removes the expired entry of its own host, and to store an answer at
\* most the first of the others.
LEMMA MissKeeps ==
    ASSUME IInv, NEW h \in Hosts, Miss(h)
    PROVE  GoodKept
<1>0. SUFFICES ASSUME NEW i \in DOMAIN data,
                          now' <= data[i].expires,
                          \A j \in DOMAIN data' : data'[j] # data[i]
             PROVE  /\ Len(data) = MaxEntries
                    /\ \A j \in DOMAIN data : now' <= data[j].expires
  BY DEF GoodKept
<1> DEFINE W == Without(h)
<1>1. /\ data \in Seq(Entries) /\ Len(data) \in Nat /\ Len(data) <= MaxEntries
      /\ DOMAIN data = 1..Len(data)
      /\ MaxEntries \in Nat /\ now \in Nat
  BY CacheAssumption DEF IInv, TypeOK, Bounded
<1>2. \A j \in DOMAIN data : data[j].expires \in Nat
  <2>1. \A j \in DOMAIN data : data[j] \in Entries
    BY <1>1, ElementOfSeq
  <2> QED
    BY <2>1 DEF Entries
<1>3. now' \in Nat /\ now <= now' /\ now' + TTL \in Nat
  BY <1>1, CacheAssumption DEF Miss
<1>4. data[i].host # h
  <2>1. data[i].host = h => now > data[i].expires
    BY <1>1 DEF Miss, Cached, Expired
  <2> QED
    BY <2>1, <1>0, <1>1, <1>2, <1>3
<1>5. /\ W \in Seq(Entries)
      /\ Thins(W, data)
      /\ Len(W) \in Nat
      /\ Cached(h) = {} => Len(W) = Len(data)
      /\ Cached(h) # {} => Len(W) = Len(data) - 1
  BY WithoutThins DEF IInv
<1>6. PICK j \in 1..Len(W) : W[j] = data[i]
  BY <1>1, <1>4, WithoutThins DEF IInv
<1>7. data' # W
  BY <1>0, <1>5, <1>6
<1>8. PICK a \in Cacheable :
          data' = Append(Room(W), [host |-> h, expires |-> now' + TTL, answer |-> a])
  BY <1>7 DEF Miss
<1>9. /\ Room(W) \in Seq(Entries)
      /\ \/ \E k \in 1..Len(Room(W)) : Room(W)[k] = W[j]
         \/ j = 1 /\ Len(W) = MaxEntries
  <2>1. Len(W) <= MaxEntries
    <3>1. Len(W) = Len(data) \/ Len(W) = Len(data) - 1
      BY <1>5
    <3>2. Len(data) \in Nat /\ Len(data) <= MaxEntries /\ MaxEntries \in Nat
      BY <1>1
    <3> HIDE DEF W
    <3> QED
      BY <3>1, <3>2
  <2>2. TypeOK
    BY DEF IInv
  <2> HIDE DEF W
  <2> QED
    BY <2>1, <2>2, <1>5, <1>6, RoomThins
<1>10. ~ \E k \in 1..Len(Room(W)) : Room(W)[k] = W[j]
  <2>1. ASSUME NEW k \in 1..Len(Room(W)), Room(W)[k] = W[j] PROVE FALSE
    <3>1. [host |-> h, expires |-> now' + TTL, answer |-> a] \in Entries
      BY <1>3 DEF Entries, Cacheable
    <3>2. k \in DOMAIN data' /\ data'[k] = Room(W)[k]
      BY <3>1, <1>8, <1>9, AppendProperties
    <3> QED
      BY <3>2, <2>1, <1>0, <1>6
  <2> QED
    BY <2>1
<1>11. Len(W) = MaxEntries /\ j = 1
  BY <1>9, <1>10
<1>12. Cached(h) = {} /\ Len(data) = MaxEntries
  <2>1. Len(W) # Len(data) - 1
    <3>1. Len(data) \in Nat /\ Len(data) <= MaxEntries /\ MaxEntries \in Nat
      BY <1>1
    <3> HIDE DEF W
    <3> QED
      BY <3>1, <1>11
  <2> QED
    BY <2>1, <1>5, <1>11
<1>13. W = data
  <2>1. W = [k \in 1..Len(data) |-> data[k]]
    BY <1>12, <1>1 DEF Without
  <2> QED
    BY <2>1, <1>1
<1>14. data[1] = data[i]
  BY <1>6, <1>11, <1>13
<1>15. ASSUME NEW k \in DOMAIN data PROVE now' <= data[k].expires
  <2>1. 1 \in DOMAIN data /\ 1 <= k
    BY <1>1
  <2>2. data[1].expires <= data[k].expires
    BY <2>1 DEF IInv, OldestExpiresFirst
  <2> QED
    BY <2>1, <2>2, <1>0, <1>2, <1>3, <1>14
<1> QED
  BY <1>12, <1>15

\* In a state of the invariant a step drops no good entry without need.
LEMMA StepKeeps == IInv /\ [Next]_vars => GoodKept \/ UNCHANGED vars
<1> SUFFICES ASSUME IInv, Next PROVE GoodKept
  OBVIOUS
<1>1. CASE UNCHANGED data
  BY <1>1 DEF GoodKept
<1>2. ASSUME NEW h \in Hosts, Miss(h) PROVE GoodKept
  BY <1>2, MissKeeps
<1> QED
  BY <1>1, <1>2 DEF Next, Resolve, Hit, Tick

\* An entry that is still good is given up only by a cache full of good ones.
THEOREM CacheKeepsGood == Spec => GoodEntriesKept
<1>1. IInv /\ [Next]_vars => [GoodKept]_vars
  BY StepKeeps
<1>2. Spec => [][GoodKept]_vars
  BY <1>1, Invariance, PTL DEF Spec
<1> QED
  BY <1>2 DEF GoodEntriesKept, GoodKept
===============================================================================
