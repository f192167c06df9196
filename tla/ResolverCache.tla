----------------------------- MODULE ResolverCache -----------------------------
(***************************************************************************)
(* hubcore/resolver.py: Resolver.resolve with its _TTLCache, while the     *)
(* clock runs and the name server answers as it likes.  A step is one call *)
(* of resolve (one thread owns a Resolver) or one tick.  An answer stands  *)
(* for the ResolvedHost built from what getaddrinfo returned or raised;    *)
(* NotCached is the record built from ValueError.  Literals and empty      *)
(* names never reach the cache and are left out.                           *)
(***************************************************************************)
EXTENDS Naturals, Sequences

CONSTANTS
    Hosts,              \* cache keys: (host, port)
    Answers, NotCached,
    None,
    MaxEntries, TTL,
    MaxDelay,           \* most ticks one lookup takes
    MaxTime             \* bound of the model's clock

ASSUME AnswerAssumption ==
    /\ NotCached \notin Answers
    /\ None \notin Nat
ASSUME CacheAssumption ==
    /\ MaxEntries \in Nat \ {0}
    /\ TTL \in Nat
    /\ MaxDelay \in Nat
    /\ MaxTime \in Nat

VARIABLES
    now,       \* time.monotonic()
    data,      \* _data: the entries in the order of their insertion
    last,      \* the last call: its host, its answer and when it returned
               \* (initially as if an answer had been given that is not cached)
    heard      \* history: when the server last gave an answer for a host

vars == <<now, data, last, heard>>

Entries == [host : Hosts, expires : Nat, answer : Answers]
Returns == [host : Hosts, answer : Answers \cup {NotCached}, at : Nat]

TypeOK ==
    /\ now \in 0..MaxTime
    /\ data \in Seq(Entries)
    /\ last \in Returns
    /\ heard \in [Hosts -> [Answers -> Nat \cup {None}]]

Init ==
    /\ now = 0
    /\ data = <<>>
    /\ last \in [host : Hosts, answer : {NotCached}, at : {0}]
    /\ heard = [h \in Hosts |-> [a \in Answers |-> None]]

\* Mutant of Expired: an entry is never too old.
Expired_Never(e) == FALSE

Expired(e) == now > e.expires

\* Mutant of Room: room is made one entry too late.
Room_OffByOne(s) == IF Len(s) > MaxEntries THEN Tail(s) ELSE s

\* Mutant of Room: the entry inserted last makes room.
Room_DropsNewest(s) ==
    IF Len(s) >= MaxEntries THEN SubSeq(s, 1, Len(s) - 1) ELSE s

\* _TTLCache.put: a full cache drops the entry inserted first.
Room(s) == IF Len(s) >= MaxEntries THEN Tail(s) ELSE s

\* Where the entry of h is, if there is one.
Cached(h) == {i \in DOMAIN data : data[i].host = h}

\* _TTLCache.get pops the expired entry of h.
Without(h) ==
    LET at(i) == \E j \in Cached(h) : j <= i
    IN  [i \in 1..(Len(data) - (IF Cached(h) = {} THEN 0 ELSE 1)) |->
            IF at(i) THEN data[i + 1] ELSE data[i]]

\* Mutant of Hit: an entry that is used lives longer.
Hit_Sliding(h) ==
    /\ \E i \in Cached(h) :
          /\ ~Expired(data[i])
          /\ last' = [host |-> h, answer |-> data[i].answer, at |-> now]
          /\ data' = [data EXCEPT ![i].expires = now + TTL]
    /\ UNCHANGED <<now, heard>>

\* The entry of h is still good: no lookup.
Hit(h) ==
    /\ \E i \in Cached(h) :
          /\ ~Expired(data[i])
          /\ last' = [host |-> h, answer |-> data[i].answer, at |-> now]
    /\ UNCHANGED <<now, data, heard>>

\* Mutant of Cacheable: what getaddrinfo cannot even be asked is cached too.
Cacheable_All == Answers \cup {NotCached}

\* The records resolve stores.
Cacheable == Answers

\* No entry, or an expired one, which get removes: the server is asked, which
\* takes time, and what it said, good or bad, is stored from then on.
Miss(h) ==
    /\ \A i \in Cached(h) : Expired(data[i])
    /\ now' \in now..(now + MaxDelay)
    /\ now' <= MaxTime
    /\ \/ \E a \in Cacheable :
             /\ data' = Append(Room(Without(h)),
                               [host |-> h, expires |-> now' + TTL, answer |-> a])
             /\ last' = [host |-> h, answer |-> a, at |-> now']
             /\ heard' = [heard EXCEPT ![h][a] = now']
       \/ /\ data' = Without(h)
          /\ last' = [host |-> h, answer |-> NotCached, at |-> now']
          /\ UNCHANGED heard

Resolve(h) == Hit(h) \/ Miss(h)

Tick ==
    /\ now < MaxTime
    /\ now' = now + 1
    /\ UNCHANGED <<data, last, heard>>

Next == Tick \/ \E h \in Hosts : Resolve(h)

Spec == Init /\ [][Next]_vars

-----------------------------------------------------------------------------
(* Properties *)

\* The cache is bounded and holds one record per host (whole-record expiry).
Bounded ==
    /\ Len(data) <= MaxEntries
    /\ \A i, j \in DOMAIN data : data[i].host = data[j].host => i = j

\* An answer, positive or negative, is one the server gave for that very host
\* no longer than the TTL ago, however often it was served from the cache.
AnswerIsFresh ==
    last.answer # NotCached =>
        /\ heard[last.host][last.answer] # None
        /\ last.at <= heard[last.host][last.answer] + TTL

\* Dropping the entry inserted first drops the one that expires first.
OldestExpiresFirst ==
    \A i, j \in DOMAIN data : i <= j => data[i].expires <= data[j].expires

\* An entry that is still good is given up only when the cache is full of
\* entries that are still good.
GoodEntriesKept ==
    [][\A i \in DOMAIN data :
          /\ now' <= data[i].expires
          /\ \A j \in DOMAIN data' : data'[j] # data[i]
          => /\ Len(data) = MaxEntries
             /\ \A j \in DOMAIN data : now' <= data[j].expires]_vars
================================================================================
