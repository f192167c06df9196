----------------------------- MODULE Probe_proofs -----------------------------
(***************************************************************************)
(* Theorems about Probe, for any nodes and options, any sequence of calls, *)
(* any limits and any server and clock.                                    *)
(*                                                                         *)
(*   Typing     types, together with the room the read loop has left, with *)
(*              Cycle, which counts the answers heard so far by the place  *)
(*              the call has reached, and with Window, which says where    *)
(*              the measured time starts.                                  *)
(*   Closed     a descriptor is open only inside an exchange.              *)
(*   Evidence   what a call will report is what its exchanges have heard.  *)
(*   StepsRunOut   each step uses up some of what the limits leave.        *)
(***************************************************************************)
EXTENDS Probe, SequenceTheorems, TLAPS

\* Inside an exchange, and in that part of it which comes before the read loop.
Exchanging == {"connect", "tls", "send", "read"}
Unheard == {"connect", "tls", "send"}

\* As long as the loop goes on neither of its limits is reached.
Room == pc \in Exchanging => size < Cap /\ reads < MaxReads

\* Only measure runs two exchanges, and the first of them heard an answer when
\* the second begins.  tcpval never gets past connect.
Cycle ==
    /\ pc \in Running => (probe = 2 => call = "measure")
    /\ pc \in {"tls", "send", "read", "gap"} => call # "tcp"
    /\ pc = "gap" => call = "measure" /\ probe = 1 /\ Len(truth) = 1
    /\ pc \in {"create"} \cup Unheard => Len(truth) = probe - 1
    /\ pc \in Unheard => first = "none"
    /\ pc = "read" =>
          /\ Len(truth) = IF first = "right" THEN probe ELSE probe - 1
          /\ call = "measure" => first # "right"

\* The window of an exchange starts when its socket is connected; that of tcpval,
\* when its socket is created.
Window ==
    /\ t0 <= clock
    /\ pc = "connect" => t0 = 0
    /\ pc \in {"tls", "send", "read"} => t0 = connected

Typing == TypeOK /\ Room /\ Cycle /\ Window

-----------------------------------------------------------------------------
(* How an exchange ends *)

\* An exchange that failed ends the call; measure in its second exchange keeps
\* what the first one found.
LEMMA FailedEffect ==
    ASSUME TypeOK, Failed
    PROVE  /\ pc' = "idle"
           /\ answer' = (call = "measure" /\ probe = 2)
           /\ samples' = IF call = "measure" /\ probe = 2
                         THEN [samples EXCEPT !.measured = ms1] ELSE samples
           /\ samples' \in Samples
BY DEF Failed, EndCall, TypeOK, Samples, Sample

\* The difference of two durations is one.
LEMMA AbsDiffType ==
    ASSUME NEW a \in Durations, NEW b \in Durations
    PROVE  AbsDiff(a, b) \in Durations /\ AbsDiff(a, b) = AbsDiff(b, a)
BY BoundAssumption DEF AbsDiff, Durations

\* Time goes on, and the window lies within the life of the socket.
LEMMA TimeTaken ==
    ASSUME Typing, Elapse
    PROVE  clock' \in Durations /\ clock' - t0 \in Durations /\ t0 <= clock'
<1>1. clock \in Int /\ t0 \in Int /\ 0 <= t0 /\ t0 <= clock
  BY BoundAssumption DEF Typing, TypeOK, Window, Durations
<1>2. clock' \in Int /\ clock <= clock' /\ clock' <= MaxTime
  BY <1>1, BoundAssumption DEF Elapse
<1>3. ASSUME NEW c \in Int, clock <= c, c <= MaxTime
      PROVE  c \in 0..MaxTime /\ c - t0 \in 0..MaxTime /\ t0 <= c
  BY <1>1, <1>3, BoundAssumption
<1> QED
  BY <1>2, <1>3 DEF Durations

\* A latency and a jitter are attached.
LEMMA Attached ==
    ASSUME NEW S \in Samples, NEW a \in Durations, NEW b \in Durations
    PROVE  [S EXCEPT !.measured = a, !.jitter = b] \in Samples
<1> DEFINE M == [S EXCEPT !.measured = a]
<1>1. M \in Samples
  BY DEF Samples, Sample
<1> HIDE DEF M
<1>2. [M EXCEPT !.jitter = b] \in Samples
  BY <1>1 DEF Samples, Sample
<1> QED
  BY <1>2 DEF M

\* An exchange that has its answer ends a handshake, and the first or second
\* cycle of measure, which fails when the clock makes no sense.
LEMMA SettleEffect ==
    ASSUME TypeOK, clock' - t0 \in Durations, Settle
    PROVE  /\ samples' \in Samples
           /\ ms1' \in Durations
           /\ \/ /\ call = "handshake"
                 /\ pc' = "idle" /\ answer' = TRUE
                 /\ samples' = [samples EXCEPT !.handshake = clock' - t0]
              \/ /\ call = "measure" /\ probe = 1
                 /\ pc' = "gap" /\ answer' = answer /\ samples' = samples
                 /\ ~options.odd => ms1' = clock' - t0
              \/ /\ call = "measure" /\ probe = 2
                 /\ pc' = "idle" /\ answer' = TRUE
                 /\ ~options.odd =>
                      samples' = [samples EXCEPT !.measured = clock' - t0,
                                                 !.jitter = AbsDiff(clock' - t0, ms1)]
              \/ call = "measure" /\ options.odd /\ Failed
<1>1. CASE call = "handshake"
  BY <1>1 DEF Settle, EndCall, TypeOK, Samples, Sample
<1>2. CASE call = "measure"
  <2>1. PICK ms \in Reading :
          IF ms < 0 THEN Failed /\ UNCHANGED ms1
          ELSE \/ /\ probe = 1
                  /\ ms1' = ms
                  /\ pc' = "gap"
                  /\ UNCHANGED <<answer, samples>>
               \/ /\ probe = 2
                  /\ EndCall(TRUE, [samples EXCEPT !.measured = ms,
                                                   !.jitter = AbsDiff(ms, ms1)])
                  /\ UNCHANGED ms1
    BY <1>2 DEF Settle
  <2>2. /\ ms \in Int
        /\ ms >= 0 => ms \in Durations
        /\ ~options.odd => ms = clock' - t0
    BY BoundAssumption DEF Reading, Durations
  <2>3. CASE ms < 0
    <3>1. options.odd
      BY <2>2, <2>3, BoundAssumption DEF Durations
    <3>2. Failed /\ ms1' = ms1
      BY <2>1, <2>3
    <3> QED
      BY <1>2, <3>1, <3>2, FailedEffect DEF TypeOK
  <2>4. CASE ~(ms < 0) /\ probe = 1
    BY <1>2, <2>1, <2>2, <2>4 DEF TypeOK, Samples, Sample
  <2>5. CASE ~(ms < 0) /\ probe = 2
    <3>1. ms \in Durations /\ AbsDiff(ms, ms1) \in Durations
      BY <2>2, <2>5, AbsDiffType DEF TypeOK
    <3>2. /\ pc' = "idle" /\ answer' = TRUE /\ ms1' = ms1
          /\ samples' = [samples EXCEPT !.measured = ms, !.jitter = AbsDiff(ms, ms1)]
      BY <2>1, <2>5 DEF EndCall
    <3>3. samples' \in Samples
      <4>1. samples \in Samples
        BY DEF TypeOK
      <4>2. [samples EXCEPT !.measured = ms, !.jitter = AbsDiff(ms, ms1)] \in Samples
        BY <3>1, <4>1, Attached
      <4> QED
        BY <3>2, <4>2
    <3>4. ms1' \in Durations
      BY <3>2 DEF TypeOK
    <3>5. ~options.odd => samples' = [samples EXCEPT !.measured = clock' - t0,
                                           !.jitter = AbsDiff(clock' - t0, ms1)]
      BY <2>2, <3>2
    <3> QED
      BY <1>2, <2>5, <3>2, <3>3, <3>4, <3>5
  <2> QED
    BY <2>2, <2>3, <2>4, <2>5 DEF TypeOK
<1> QED
  BY <1>1, <1>2 DEF Settle

-----------------------------------------------------------------------------
(* Types *)

\* The address a call dials is one of those a node may be pinned to.
LEMMA TargetType ==
    ASSUME TypeOK
    PROVE  [node EXCEPT !.pin = Target] \in NodeSpace
<1>1. Target \in Kinds \cup {None}
  BY DEF Target, TypeOK, NodeSpace, Kinds
<1> QED
  BY <1>1 DEF TypeOK, NodeSpace

\* An exchange that ends after it has read something, or nothing more.
LEMMA SettleTyping ==
    ASSUME Typing, pc = "read", clock' - t0 \in Durations, truth' \in Seq(Durations),
           Len(truth') = probe, UNCHANGED <<call, probe>>, Settle
    PROVE  /\ samples' \in Samples /\ ms1' \in Durations /\ answer' \in BOOLEAN
           /\ pc' \in {"idle", "gap"} /\ Cycle'
<1> USE DEF Typing, Cycle, Unheard, Running
<1>1. TypeOK
  OBVIOUS
<1>2. CASE pc' = "idle"
  BY <1>1, <1>2, SettleEffect, FailedEffect DEF TypeOK
<1>3. CASE pc' = "gap"
  BY <1>1, <1>3, SettleEffect, FailedEffect DEF TypeOK
<1> QED
  BY <1>1, <1>2, <1>3, SettleEffect, FailedEffect

\* A chunk makes the loop go on below its limits, or ends the exchange.
LEMMA ChunkTyping ==
    ASSUME Typing, pc = "read", Elapse, Chunk,
           UNCHANGED <<options, node, call, calls, probe, t0, connected, cut>>
    PROVE  Typing'
<1> USE BoundAssumption
<1>1. PICK n \in 1..Cap, f \in FirstByte :
        /\ first' = f
        /\ size' = size + n
        /\ reads' = reads + 1
        /\ heard' = clock'
        /\ truth' = IF first = "none" /\ f = "right"
                    THEN Append(truth, clock' - connected) ELSE truth
        /\ IF ReadOn(f, size', reads')
           THEN pc' = "read" /\ UNCHANGED <<owner, answer, samples, ms1>>
           ELSE /\ Shut
                /\ \/ Verdict(f) /\ Settle
                   \/ ~Verdict(f) /\ Failed /\ UNCHANGED ms1
  BY DEF Chunk
<1>2. f \in {"right", "wrong"} /\ (first # "none" => f = first)
  BY DEF FirstByte, Typing, TypeOK
<1>3. clock' \in Durations /\ clock' - t0 \in Durations /\ t0 = connected /\ t0 <= clock'
  BY TimeTaken DEF Typing, Window
<1>4. /\ truth' \in Seq(Durations)
      /\ Len(truth') = IF f = "right" THEN probe ELSE probe - 1
  BY <1>1, <1>2, <1>3 DEF Typing, TypeOK, Cycle
<1>5. size' \in 0..(2 * Cap - 1) /\ reads' \in 0..MaxReads
  BY <1>1 DEF Typing, TypeOK, Room, Exchanging
<1>6. CASE ReadOn(f, size', reads')
  <2>1. pc' = "read" /\ UNCHANGED <<owner, answer, samples, ms1>>
    BY <1>1, <1>6
  <2>2. TypeOK'
    BY <1>1, <1>2, <1>3, <1>4, <1>5, <2>1 DEF Typing, TypeOK, Running
  <2>3. Room'
    BY <1>6 DEF ReadOn, Room
  <2>4. Cycle'
    BY <1>1, <1>2, <1>4, <1>6, <2>1 DEF Typing, TypeOK, ReadOn, Cycle, Unheard, Running
  <2>5. Window'
    BY <1>3, <2>1 DEF Window
  <2> QED
    BY <2>2, <2>3, <2>4, <2>5 DEF Typing
<1>7. CASE ~ReadOn(f, size', reads')
  <2>1. owner' = "none"
    BY <1>1, <1>7 DEF Shut
  <2>2. /\ samples' \in Samples /\ ms1' \in Durations /\ answer' \in BOOLEAN
        /\ pc' \in {"idle", "gap"} /\ Cycle'
    <3>1. CASE f = "right"
      <4>1. Settle
        BY <1>1, <1>7, <3>1 DEF Verdict
      <4> QED
        BY <1>3, <1>4, <3>1, <4>1, SettleTyping
    <3>2. CASE f # "right"
      <4>1. Failed /\ ms1' = ms1
        BY <1>1, <1>7, <3>2 DEF Verdict
      <4> QED
        BY <4>1, FailedEffect DEF Typing, TypeOK, Cycle, Unheard, Running
    <3> QED
      BY <3>1, <3>2
  <2>3. TypeOK'
    BY <1>1, <1>2, <1>3, <1>4, <1>5, <2>1, <2>2 DEF Typing, TypeOK, Running
  <2>4. Room' /\ Window'
    BY <1>3, <2>2 DEF Room, Window, Exchanging
  <2> QED
    BY <2>2, <2>3, <2>4 DEF Typing
<1> QED
  BY <1>6, <1>7

\* Silence ends the exchange with what it has.
LEMMA SilenceTyping ==
    ASSUME Typing, pc = "read", Elapse, Silence,
           UNCHANGED <<options, node, call, calls, probe, t0, connected, cut>>
    PROVE  Typing'
<1> USE BoundAssumption
<1>1. /\ owner' = "none" /\ UNCHANGED <<first, size, reads, heard, truth>>
      /\ \/ first = "right" /\ Settle
         \/ first # "right" /\ Failed /\ UNCHANGED ms1
  BY DEF Silence, Shut, Verdict
<1>2. clock' \in Durations /\ clock' - t0 \in Durations /\ t0 = connected /\ t0 <= clock'
  BY TimeTaken DEF Typing, Window
<1>3. /\ samples' \in Samples /\ ms1' \in Durations /\ answer' \in BOOLEAN
      /\ pc' \in {"idle", "gap"} /\ Cycle'
  <2>1. CASE first = "right"
    <3>1. truth' \in Seq(Durations) /\ Len(truth') = probe
      BY <1>1, <2>1 DEF Typing, TypeOK, Cycle
    <3> QED
      BY <1>1, <1>2, <2>1, <3>1, SettleTyping
  <2>2. CASE first # "right"
    <3>1. Failed /\ ms1' = ms1
      BY <1>1, <2>2
    <3> QED
      BY <3>1, FailedEffect DEF Typing, TypeOK, Cycle, Unheard, Running
  <2> QED
    BY <2>1, <2>2
<1>4. TypeOK'
  BY <1>1, <1>2, <1>3 DEF Typing, TypeOK, Running
<1>5. Room' /\ Window'
  BY <1>2, <1>3 DEF Room, Window, Exchanging
<1> QED
  BY <1>3, <1>4, <1>5 DEF Typing

\* Every step of a call keeps types, room and cycle.
LEMMA TypingStep == Typing /\ [Next]_vars => Typing'
<1> SUFFICES ASSUME Typing, [Next]_vars PROVE Typing'
  OBVIOUS
<1>1. ASSUME NEW c \in Calls, Begin(c) PROVE Typing'
  <2>1. pc' \in {"create", "idle"} /\ pc = "idle"
    BY <1>1, BoundAssumption DEF Begin, Typing, TypeOK
  <2>2. calls' \in 0..MaxCalls /\ probe' = 1 /\ answer' = FALSE /\ call' = c
    BY <1>1, BoundAssumption DEF Begin, Typing, TypeOK
  <2>3. UNCHANGED <<options, node, samples, owner, clock, t0, first, size, reads, ms1,
                    connected, heard, cut>>
    BY <1>1 DEF Begin
  <2>4. truth' \in Seq(Durations) /\ Len(truth') = 0
    BY <1>1 DEF Begin
  <2>5. TypeOK'
    <3>1. /\ call' \in Calls /\ pc' \in Running \cup {"idle", "raised"}
          /\ probe' \in {1, 2} /\ answer' \in BOOLEAN
      BY <2>1, <2>2 DEF Running
    <3>2. Len(truth') <= 2
      BY <2>4
    <3> QED
      BY <2>2, <2>3, <2>4, <3>1, <3>2 DEF Typing, TypeOK
  <2>6. Room' /\ Cycle' /\ Window'
    BY <2>1, <2>2, <2>3, <2>4 DEF Typing, Room, Cycle, Window, Exchanging, Unheard, Running
  <2> QED
    BY <2>5, <2>6 DEF Typing
<1>5. CASE Recv
  BY <1>5, ChunkTyping, SilenceTyping DEF Recv
<1> USE BoundAssumption DEF Typing, TypeOK, Room, Cycle, Window, Exchanging, Unheard, Running
<1>2. CASE Create
  <2>1. CASE pc' = "connect"
    <3>1. UNCHANGED <<answer, samples>>
      BY <1>2, <2>1, FailedEffect DEF Create
    <3> QED
      BY <1>2, <2>1, <3>1 DEF Create, Durations
  <2>2. CASE pc' # "connect"
    <3>1. pc' = "idle" /\ answer' \in BOOLEAN /\ samples' \in Samples
      BY <1>2, <2>2, FailedEffect DEF Create
    <3>2. 0 \in Durations
      BY DEF Durations
    <3> QED
      BY <1>2, <3>1, <3>2 DEF Create
  <2> QED
    BY <2>1, <2>2
<1>3. CASE Connect
  <2>1. CASE Failed /\ UNCHANGED <<clock, t0, connected, node>>
    BY <1>3, <2>1, FailedEffect DEF Connect
  <2>2. CASE /\ Elapse /\ connected' = clock' /\ UNCHANGED t0
             /\ EndCall(TRUE, [samples EXCEPT !.tcp = clock' - t0])
             /\ node' = [node EXCEPT !.pin = Target]
    <3>1. clock' \in Durations /\ clock' - t0 \in Durations /\ t0 <= clock'
      BY <2>2, TimeTaken
    <3>2. samples' \in Samples
      BY <2>2, <3>1 DEF EndCall, Samples, Sample
    <3>3. node' \in NodeSpace
      BY <2>2, TargetType
    <3>4. pc' = "idle" /\ answer' = TRUE
      BY <2>2 DEF EndCall
    <3> QED
      BY <1>3, <2>2, <3>1, <3>2, <3>3, <3>4 DEF Connect
  <2>3. CASE /\ call # "tcp" /\ pc' = "tls" /\ Elapse /\ connected' = clock' /\ t0' = clock'
             /\ UNCHANGED <<owner, samples, answer, node>>
    <3>1. clock' \in Durations
      BY <2>3 DEF Elapse, Durations
    <3> QED
      BY <1>3, <2>3, <3>1 DEF Connect, Durations
  <2> QED
    BY <1>3, <2>1, <2>2, <2>3 DEF Connect
<1>4. CASE Wrap \/ Send
  <2>1. clock' \in Durations /\ t0 <= clock' /\ UNCHANGED <<t0, connected>>
    BY <1>4 DEF Wrap, Send, Elapse, Durations
  <2>2. CASE Failed
    BY <1>4, <2>1, <2>2, FailedEffect DEF Wrap, Send, Shut
  <2>3. CASE ~Failed
    BY <1>4, <2>1, <2>3 DEF Wrap, Send
  <2> QED
    BY <2>2, <2>3
<1>6. CASE Gap
  BY <1>6 DEF Gap
<1>7. CASE Interrupt
  BY <1>7 DEF Interrupt
<1>8. CASE UNCHANGED vars
  BY <1>8 DEF vars
<1> QED
  BY <1>1, <1>2, <1>3, <1>4, <1>5, <1>6, <1>7, <1>8 DEF Next, Step

\* They hold from the start.
LEMMA TypingAlways == Spec => []Typing
<1>1. Init => Typing
  <2> SUFFICES ASSUME Init PROVE Typing
    OBVIOUS
  <2>1. samples \in Samples
    BY DEF Init, Samples, Sample
  <2>2. 0 \in Durations /\ truth \in Seq(Durations) /\ Len(truth) = 0
    BY BoundAssumption DEF Init, Durations
  <2>3. node \in NodeSpace
    BY InputAssumption DEF Init
  <2>4. /\ 0 \in 0..MaxCalls /\ 0 \in 0..(2 * Cap - 1) /\ 0 \in 0..MaxReads
    BY BoundAssumption
  <2>6. /\ options \in Options /\ call = "tcp" /\ pc = "idle" /\ calls = 0 /\ probe = 1
        /\ owner = "none" /\ clock = 0 /\ t0 = 0 /\ connected = 0 /\ first = "none" /\ size = 0 /\ reads = 0
        /\ ms1 = 0 /\ answer = FALSE /\ heard = 0 /\ cut = "none"
    BY DEF Init
  <2>5. TypeOK
    <3>1. /\ call \in Calls /\ pc \in Running \cup {"idle", "raised"}
          /\ cut \in Running \cup {"none"} /\ probe \in {1, 2} /\ answer \in BOOLEAN
          /\ owner \in {"none", "raw", "tls"} /\ first \in {"none", "right", "wrong"}
      BY <2>6 DEF Running, Calls
    <3>2. /\ calls \in 0..MaxCalls /\ size \in 0..(2 * Cap - 1) /\ reads \in 0..MaxReads
          /\ clock \in Durations /\ ms1 \in Durations /\ heard \in Durations
          /\ t0 \in Durations /\ connected \in Durations
      BY <2>2, <2>4, <2>6
    <3>3. Len(truth) <= 2
      BY <2>2
    <3> QED
      BY <2>1, <2>2, <2>3, <2>6, <3>1, <3>2, <3>3 DEF TypeOK
  <2> QED
    BY <2>5, <2>6 DEF Typing, Room, Cycle, Window, Exchanging, Unheard, Running
<1> QED
  BY <1>1, TypingStep, PTL DEF Spec

\* The types hold in every state, whatever the server, the clock and the caller
\* do: the read loop keeps to its limits and no sample is negative.
THEOREM ProbeTypeCorrect == Spec => []TypeOK
<1>1. Typing => TypeOK
  BY DEF Typing
<1> QED
  BY <1>1, TypingAlways, PTL

-----------------------------------------------------------------------------
(* Sockets *)

\* Outside an exchange there is no descriptor, unless a KeyboardInterrupt has
\* left one.
Closed ==
    /\ pc \in {"idle", "create", "gap"} => owner = "none"
    /\ pc = "raised" => \/ owner = "none"
                        \/ cut = "connect" /\ call # "tcp"

\* An exchange that is left closes what it has opened.
LEMMA ClosedStep == Typing /\ Closed /\ [Next]_vars => Closed'
<1> SUFFICES ASSUME Typing, Closed, [Next]_vars PROVE Closed'
  OBVIOUS
<1> USE DEF Closed, Failed, EndCall
<1>1. ASSUME NEW c \in Calls, Begin(c) PROVE Closed'
  BY <1>1 DEF Begin
<1>2. CASE Create
  BY <1>2 DEF Create
<1>3. CASE Connect
  BY <1>3 DEF Connect
<1>4. CASE Wrap \/ Send
  BY <1>4 DEF Wrap, Send, Shut
<1>5. CASE Recv
  <2>1. pc' = "read" \/ owner' = "none"
    BY <1>5 DEF Recv, Chunk, Silence, Shut
  <2>2. pc' # "raised"
    <3>1. TypeOK /\ clock' - t0 \in Durations /\ pc = "read"
      BY <1>5, TimeTaken DEF Recv, Typing
    <3>2. Settle \/ Failed \/ pc' = "read"
      BY <1>5 DEF Recv, Chunk, Silence
    <3>3. Settle => pc' # "raised"
      BY <3>1, SettleEffect
    <3> QED
      BY <3>2, <3>3
  <2> QED
    BY <2>1, <2>2
<1>6. CASE Gap
  BY <1>6 DEF Gap
<1>7. CASE Interrupt
  BY <1>7 DEF Interrupt
<1>8. CASE UNCHANGED vars
  BY <1>8 DEF vars
<1> QED
  BY <1>1, <1>2, <1>3, <1>4, <1>5, <1>6, <1>7, <1>8 DEF Next, Step

\* In whatever way an exchange is left and however often the layers are called,
\* no descriptor stays open, except after an interrupt while the handshake or the
\* measurer connect.
THEOREM ProbeClosesSockets == Spec => []SocketsClosed
<1>1. Init => Closed
  BY DEF Init, Closed
<1>2. Closed => SocketsClosed
  BY DEF Closed, SocketsClosed
<1> QED
  BY <1>1, <1>2, TypingAlways, ClosedStep, PTL DEF Spec

-----------------------------------------------------------------------------
(* What a call reports *)

\* With a clock that can be trusted the duration of the first cycle is the time it
\* took to hear its answer.
Evidence ==
    /\ /\ pc \in Running /\ call = "measure"
       /\ truth # <<>> /\ ~options.odd
       => truth[1] = ms1
    /\ VerdictIsHeard

\* What a step of the read loop leaves: the loop goes on, or an exchange with an
\* answer is settled, or one without has failed.  In measure that answer is the
\* first byte of just this chunk.
LEMMA RecvEffect ==
    ASSUME Typing, Evidence, Recv
    PROVE  /\ pc = "read" /\ clock' - t0 \in Durations
           /\ UNCHANGED <<options, call, probe, connected>> /\ connected = t0
           /\ \/ /\ pc' = "read"
                 /\ UNCHANGED <<answer, samples, ms1>>
                 /\ truth' = truth \/ call # "measure"
              \/ /\ Settle
                 /\ truth' # <<>>
                 /\ call = "measure" => truth' = Append(truth, clock' - t0)
              \/ /\ Failed /\ UNCHANGED ms1
                 /\ truth' = truth
                 /\ Len(truth) = probe - 1
<1> USE DEF Typing, TypeOK, Cycle, Window, Evidence, Verdict
<1>1. /\ pc = "read" /\ clock' - t0 \in Durations
      /\ UNCHANGED <<options, call, probe, connected>> /\ connected = t0
  BY TimeTaken DEF Recv
<1>2. ASSUME Chunk PROVE
        \/ /\ pc' = "read"
           /\ UNCHANGED <<answer, samples, ms1>>
           /\ truth' = truth \/ call # "measure"
        \/ /\ Settle
           /\ truth' # <<>>
           /\ call = "measure" => truth' = Append(truth, clock' - t0)
        \/ /\ Failed /\ UNCHANGED ms1
           /\ truth' = truth
           /\ Len(truth) = probe - 1
  <2>1. PICK n \in 1..Cap, f \in FirstByte :
        /\ first' = f
        /\ size' = size + n
        /\ reads' = reads + 1
        /\ heard' = clock'
        /\ truth' = IF first = "none" /\ f = "right"
                    THEN Append(truth, clock' - connected) ELSE truth
        /\ IF ReadOn(f, size', reads')
           THEN pc' = "read" /\ UNCHANGED <<owner, answer, samples, ms1>>
           ELSE /\ Shut
                /\ \/ Verdict(f) /\ Settle
                   \/ ~Verdict(f) /\ Failed /\ UNCHANGED ms1
    BY <1>2 DEF Chunk
  <2>2. f \in {"right", "wrong"} /\ (first # "none" => f = first)
    BY DEF FirstByte
  <2>3. CASE ReadOn(f, size', reads')
    <3>1. call = "measure" => f # "right"
      BY <2>3 DEF ReadOn
    <3> QED
      BY <2>1, <2>3, <3>1
  <2>4. CASE ~ReadOn(f, size', reads') /\ f = "right"
    <3>1. Settle
      BY <2>1, <2>4
    <3>2. call = "measure" => truth' = Append(truth, clock' - t0)
      BY <1>1, <2>1, <2>2, <2>4
    <3>3. truth' # <<>>
      BY <1>1, <2>1, <2>2, <2>4
    <3> QED
      BY <2>1, <3>1, <3>2, <3>3
  <2>5. CASE ~ReadOn(f, size', reads') /\ f # "right"
    <3>1. Failed /\ UNCHANGED ms1
      BY <2>1, <2>5
    <3>2. truth' = truth /\ Len(truth) = probe - 1
      BY <1>1, <2>1, <2>2, <2>5
    <3> QED
      BY <2>1, <3>1, <3>2
  <2> QED
    BY <2>3, <2>4, <2>5
<1>3. ASSUME Silence PROVE
        /\ UNCHANGED truth
        /\ \/ /\ Settle /\ truth # <<>> /\ call # "measure"
           \/ /\ Failed /\ UNCHANGED ms1 /\ Len(truth) = probe - 1
  <2>1. CASE first = "right"
    <3>1. Len(truth) = probe /\ probe >= 1 /\ call # "measure"
      BY <1>1, <2>1
    <3>2. truth # <<>>
      BY <3>1
    <3>3. Settle /\ UNCHANGED truth
      BY <1>3, <2>1 DEF Silence
    <3> QED
      BY <3>1, <3>2, <3>3
  <2>2. CASE first # "right"
    BY <1>1, <1>3, <2>2 DEF Silence
  <2> QED
    BY <2>1, <2>2
<1> QED
  BY <1>1, <1>2, <1>3 DEF Recv

\* No step reports what was not heard or forgets what was.
LEMMA EvidenceStep == Typing /\ Evidence /\ [Next]_vars => Evidence'
<1> SUFFICES ASSUME Typing, Evidence, [Next]_vars PROVE Evidence'
  OBVIOUS
<1>0. /\ probe \in {1, 2} /\ truth \in Seq(Durations) /\ call \in Calls
      /\ TypeOK
  BY DEF Typing, TypeOK
<1>1. ASSUME NEW c \in Calls, Begin(c) PROVE Evidence'
  <2>1. pc' \in {"create", "idle"} /\ answer' = FALSE /\ truth' = <<>>
    BY <1>1 DEF Begin
  <2> QED
    BY <2>1 DEF Evidence, VerdictIsHeard, Unheard, Running
<1>2. ASSUME pc \in {"create"} \cup Unheard, Failed, UNCHANGED <<options, call, truth>>
      PROVE  Evidence'
  <2>1. Len(truth) = probe - 1 /\ (probe = 2 => call = "measure")
    BY <1>2 DEF Typing, Cycle, Unheard, Running
  <2>2. pc' = "idle" /\ answer' = (call = "measure" /\ probe = 2)
    BY <1>0, <1>2, FailedEffect
  <2>3. truth # <<>> <=> probe = 2
    BY <1>0, <2>1
  <2> QED
    BY <1>2, <2>1, <2>2, <2>3 DEF Evidence, VerdictIsHeard, Unheard, Running
<1>3. CASE Create
  <2>1. CASE Failed
    BY <1>2, <1>3, <2>1 DEF Create
  <2>2. CASE ~Failed
    BY <1>3, <2>2 DEF Create, Evidence, VerdictIsHeard, Unheard, Running
  <2> QED
    BY <2>1, <2>2
<1>4. CASE Connect
  <2>1. CASE Failed
    BY <1>2, <1>4, <2>1 DEF Connect, Unheard
  <2>2. CASE call = "tcp" /\ pc' = "idle" /\ call' = call
    BY <2>2 DEF Evidence, VerdictIsHeard, Unheard, Running
  <2>3. CASE pc' = "tls"
    BY <1>4, <2>3 DEF Connect, EndCall, Failed, Evidence, VerdictIsHeard, Unheard,
                      Running
  <2> QED
    BY <1>4, <2>1, <2>2, <2>3 DEF Connect, EndCall
<1>5. CASE Wrap \/ Send
  <2>1. CASE Failed
    BY <1>2, <1>5, <2>1 DEF Wrap, Send, Unheard
  <2>2. CASE ~Failed
    <3>1. /\ pc \in {"tls", "send"} /\ pc' \in {"send", "read"}
          /\ UNCHANGED <<options, call, truth, ms1>>
      BY <1>0, <1>5, <2>2 DEF Wrap, Send
    <3> QED
      BY <3>1 DEF Evidence, VerdictIsHeard, Unheard, Running
  <2> QED
    BY <2>1, <2>2
<1>6. CASE Recv
  <2>1. UNCHANGED <<options, call, probe>> /\ pc = "read" /\ clock' - t0 \in Durations
    BY <1>6, RecvEffect
  <2>2. CASE /\ pc' = "read" /\ UNCHANGED <<answer, samples, ms1>>
             /\ truth' = truth \/ call # "measure"
    BY <2>1, <2>2 DEF Evidence, VerdictIsHeard, Unheard, Running
  <2>3. CASE Failed /\ UNCHANGED ms1 /\ truth' = truth /\ Len(truth) = probe - 1
    <3>1. pc' = "idle" /\ answer' = (call = "measure" /\ probe = 2)
      BY <1>0, <2>3, FailedEffect
    <3>2. truth # <<>> <=> probe = 2
      BY <1>0, <2>3
    <3>3. probe = 2 => call = "measure"
      BY <2>1 DEF Typing, Cycle, Running
    <3> QED
      BY <2>1, <2>3, <3>1, <3>2, <3>3 DEF Evidence, VerdictIsHeard, Unheard, Running
  <2>4. CASE Settle /\ truth' # <<>> /\ (call = "measure" => truth' = Append(truth, clock' - t0))
    <3>1. CASE pc' = "idle" /\ answer' = TRUE
      BY <2>1, <2>4, <3>1 DEF Evidence, VerdictIsHeard, Unheard, Running
    <3>2. CASE call = "measure" /\ probe = 1 /\ pc' = "gap" /\ (~options.odd => ms1' = clock' - t0)
      <4>1. Len(truth) = 0
        BY <2>1, <3>2 DEF Typing, Cycle
      <4>2. truth'[1] = clock' - t0
        BY <1>0, <2>4, <3>2, <4>1
      <4> QED
        BY <2>1, <3>2, <4>2 DEF Evidence, VerdictIsHeard, Unheard, Running
    <3>3. CASE call = "measure" /\ options.odd /\ Failed
      <4>1. pc' = "idle"
        BY <1>0, <3>3, FailedEffect
      <4> QED
        BY <2>1, <2>4, <3>3, <4>1 DEF Evidence, VerdictIsHeard, Unheard, Running
    <3> QED
      BY <1>0, <2>1, <2>4, <3>1, <3>2, <3>3, SettleEffect
  <2> QED
    BY <1>6, <2>2, <2>3, <2>4, RecvEffect
<1>7. CASE Gap
  BY <1>7 DEF Gap, Evidence, VerdictIsHeard, Unheard, Running
<1>8. CASE Interrupt
  BY <1>8 DEF Interrupt, Evidence, VerdictIsHeard, Unheard, Running
<1>9. CASE UNCHANGED vars
  BY <1>9 DEF vars, Evidence, VerdictIsHeard, Unheard, Running
<1> QED
  BY <1>1, <1>3, <1>4, <1>5, <1>6, <1>7, <1>8, <1>9 DEF Next, Step

\* Both invariants hold in every state.
LEMMA EvidenceAlways == Spec => [](Typing /\ Evidence)
<1>1. Init => Evidence
  BY DEF Init, Evidence, VerdictIsHeard, Unheard, Running
<1> QED
  BY <1>1, TypingAlways, EvidenceStep, PTL DEF Spec

\* The two layers never drift apart: a handshake or a measurement says ok exactly
\* when one of its exchanges heard an answer of the protocol first, whatever came
\* after it; with an odd clock, only then.
THEOREM ProbeVerdictIsHeard == Spec => []VerdictIsHeard
<1>1. Evidence => VerdictIsHeard
  BY DEF Evidence
<1> QED
  BY <1>1, EvidenceAlways, PTL

\* The samples of a call that is no failure, in terms of what it heard.
Earned ==
    samples' # samples /\ ~options.odd =>
        /\ pc' = "idle" /\ answer'
        /\ call = "tcp" =>
             /\ pc = "connect"
             /\ samples' = [samples EXCEPT !.tcp = clock']
        /\ call = "handshake" =>
             /\ truth' # <<>>
             /\ samples' = [samples EXCEPT !.handshake = clock' - connected']
        /\ call = "measure" =>
             samples' = [samples EXCEPT
                 !.measured = truth'[Len(truth')],
                 !.jitter = IF Len(truth') = 2 THEN AbsDiff(truth'[1], truth'[2])
                            ELSE @]

\* An exchange that fails attaches what the first one of measure heard, or nothing.
LEMMA FailedEarned ==
    ASSUME Typing, Evidence, pc \in Running, Failed, truth' = truth, Len(truth) = probe - 1
    PROVE  Earned
<1>1. TypeOK /\ probe \in {1, 2}
  BY DEF Typing, TypeOK
<1>2. CASE call = "measure" /\ probe = 2
  <2>1. truth # <<>> /\ Len(truth) = 1
    BY <1>2
  <2>2. ~options.odd => truth[1] = ms1
    BY <1>2, <2>1 DEF Evidence
  <2>3. pc' = "idle" /\ answer' = TRUE /\ samples' = [samples EXCEPT !.measured = ms1]
    BY <1>1, <1>2, FailedEffect
  <2>4. [samples EXCEPT !.measured = ms1]
          = [samples EXCEPT !.measured = ms1, !.jitter = samples.jitter]
    BY <1>1 DEF TypeOK, Samples, Sample
  <2>5. Len(truth') # 2 /\ truth'[Len(truth')] = truth[1]
    <3>1. Len(truth') = 1
      BY <2>1
    <3>2. truth'[Len(truth')] = truth[1]
      BY <3>1, Zenon
    <3>3. 1 # 2
      OBVIOUS
    <3> QED
      BY <3>1, <3>2, <3>3, Zenon
  <2>6. ~options.odd => samples' = [samples EXCEPT !.measured = truth'[Len(truth')],
                                                  !.jitter = samples.jitter]
    BY <2>2, <2>3, <2>4, <2>5
  <2>7. (IF Len(truth') = 2 THEN AbsDiff(truth'[1], truth'[2]) ELSE samples.jitter)
          = samples.jitter
    BY <2>5, Zenon
  <2>8. ~options.odd => samples' = [samples EXCEPT
              !.measured = truth'[Len(truth')],
              !.jitter = IF Len(truth') = 2 THEN AbsDiff(truth'[1], truth'[2])
                         ELSE samples.jitter]
    BY <2>6, <2>7
  <2> QED
    BY <1>2, <2>3, <2>8 DEF Earned
<1>3. CASE ~(call = "measure" /\ probe = 2)
  BY <1>1, <1>3, FailedEffect DEF Earned
<1> QED
  BY <1>2, <1>3

\* What follows one answer is the second.
LEMMA SecondAnswer ==
    ASSUME NEW s \in Seq(Durations), NEW x \in Durations
    PROVE  /\ Len(Append(s, x)) = Len(s) + 1
           /\ Append(s, x)[Len(s) + 1] = x
           /\ \A i \in 1..Len(s) : Append(s, x)[i] = s[i] /\ s[i] \in Durations
           /\ Len(s) # 0 => s # <<>>
OBVIOUS

\* A settled exchange attaches what it heard itself.
LEMMA SettleEarned ==
    ASSUME Typing, Evidence, Recv, Settle, truth' # <<>>,
           call = "measure" => truth' = Append(truth, clock' - t0)
    PROVE  Earned
<1>1. /\ TypeOK /\ pc = "read" /\ clock' - t0 \in Durations
      /\ connected' = t0
  BY RecvEffect DEF Typing
<1>2. CASE call = "handshake" /\ pc' = "idle" /\ answer' = TRUE
             /\ samples' = [samples EXCEPT !.handshake = clock' - t0]
  BY <1>1, <1>2 DEF Earned
<1>3. CASE samples' = samples
  BY <1>3 DEF Earned
<1>4. CASE call = "measure" /\ probe = 2 /\ pc' = "idle" /\ answer' = TRUE
             /\ (~options.odd =>
                   samples' = [samples EXCEPT !.measured = clock' - t0,
                                              !.jitter = AbsDiff(clock' - t0, ms1)])
  <2>1. truth \in Seq(Durations) /\ Len(truth) = 1
    BY <1>1, <1>4 DEF Typing, TypeOK, Cycle
  <2>2. /\ truth # <<>> /\ truth[1] \in Durations
        /\ Append(truth, clock' - t0)[1] = truth[1] /\ Append(truth, clock' - t0)[2] = clock' - t0
        /\ Len(Append(truth, clock' - t0)) = 2
    <3>1. 1 + 1 = 2 /\ 1 \in 1..1 /\ 1 # 0
      OBVIOUS
    <3>2. /\ Len(Append(truth, clock' - t0)) = Len(truth) + 1
          /\ Append(truth, clock' - t0)[Len(truth) + 1] = clock' - t0
          /\ \A i \in 1..Len(truth) : /\ Append(truth, clock' - t0)[i] = truth[i]
                                   /\ truth[i] \in Durations
          /\ Len(truth) # 0 => truth # <<>>
      BY <1>1, <2>1, SecondAnswer
    <3> QED
      BY <2>1, <3>1, <3>2, Zenon
  <2>2a. ~options.odd => truth[1] = ms1
    BY <1>1, <1>4, <2>2 DEF Evidence, Running
  <2>3. Len(truth') = 2 /\ truth'[1] = truth[1] /\ truth'[2] = clock' - t0
    BY <1>4, <2>2, Zenon
  <2>4. AbsDiff(clock' - t0, truth[1]) = AbsDiff(truth[1], clock' - t0)
    BY <1>1, <2>2, AbsDiffType
  <2>5. (IF Len(truth') = 2 THEN AbsDiff(truth'[1], truth'[2]) ELSE samples.jitter)
          = AbsDiff(clock' - t0, truth[1])
    BY <2>3, <2>4, Zenon
  <2>6. truth'[Len(truth')] = clock' - t0
    BY <2>3, Zenon
  <2>7. ~options.odd => samples' = [samples EXCEPT
              !.measured = truth'[Len(truth')],
              !.jitter = IF Len(truth') = 2 THEN AbsDiff(truth'[1], truth'[2])
                         ELSE samples.jitter]
    BY <1>4, <2>2a, <2>5, <2>6
  <2> QED
    BY <1>4, <2>7 DEF Earned
<1>5. CASE options.odd
  BY <1>5 DEF Earned
<1> QED
  BY <1>1, <1>2, <1>3, <1>4, <1>5, SettleEffect

\* Every step that changes the samples of the node earns them.
LEMMA EarnedStep == Typing /\ Evidence /\ [Next]_vars => Earned \/ UNCHANGED vars
<1> SUFFICES ASSUME Typing, Evidence, Next PROVE Earned
  OBVIOUS
<1>1. ASSUME pc \in {"create"} \cup Unheard, Failed, truth' = truth PROVE Earned
  <2>1. Len(truth) = probe - 1 /\ pc \in Running
    BY <1>1 DEF Typing, Cycle, Unheard, Running
  <2> QED
    BY <1>1, <2>1, FailedEarned
<1>2. CASE Create \/ Wrap \/ Send
  BY <1>1, <1>2 DEF Create, Wrap, Send, Unheard, Earned
<1>3. CASE Connect
  <2>1. CASE Failed
    BY <1>1, <1>3, <2>1 DEF Connect, Unheard
  <2>2. CASE call = "tcp" /\ Elapse /\ EndCall(TRUE, [samples EXCEPT !.tcp = clock' - t0])
    <3>1. pc = "connect" /\ clock' - t0 = clock'
      BY <1>3, <2>2, BoundAssumption
      DEF Connect, Elapse, Typing, TypeOK, Window, Durations
    <3> QED
      BY <2>2, <3>1 DEF EndCall, Earned
  <2>3. CASE samples' = samples
    BY <2>3 DEF Earned
  <2> QED
    BY <1>3, <2>1, <2>2, <2>3 DEF Connect
<1>4. CASE Recv
  <2>1. CASE Settle /\ truth' # <<>>
             /\ (call = "measure" => truth' = Append(truth, clock' - t0))
    BY <1>4, <2>1, SettleEarned
  <2>2. CASE Failed /\ truth' = truth /\ Len(truth) = probe - 1
    BY <1>4, <2>2, FailedEarned, RecvEffect DEF Running
  <2>3. CASE samples' = samples
    BY <2>3 DEF Earned
  <2> QED
    BY <1>4, <2>1, <2>2, <2>3, RecvEffect
<1>5. CASE Gap \/ Interrupt
  BY <1>5 DEF Gap, Interrupt, Earned
<1>6. ASSUME NEW c \in Calls, Begin(c) PROVE Earned
  BY <1>6 DEF Begin, Earned
<1> QED
  BY <1>2, <1>3, <1>4, <1>5, <1>6 DEF Next, Step

\* A sample appears only when a call succeeds, leaves the samples of the other
\* kinds alone, and is the time an exchange of that very call took: until its
\* connect came back, until its read loop ended, or until its first answer; a
\* jitter is the difference of the two exchanges of the call, or untouched.
THEOREM ProbeSamplesAreEarned == Spec => SamplesAreEarned
<1>1. Typing /\ Evidence /\ [Next]_vars => [Earned]_vars
  BY EarnedStep
<1>2. Spec => [][Earned]_vars
  BY <1>1, EvidenceAlways, PTL DEF Spec
<1> QED
  BY <1>2 DEF SamplesAreEarned, Earned

-----------------------------------------------------------------------------
(* The length of a call *)

\* How many steps the running call can still take: an exchange asks the socket
\* for MaxReads chunks at most, after four other calls; between the two of measure
\* there is a pause.
Exchange == MaxReads + 5
StepsLeft ==
    IF pc \notin Running THEN 0
    ELSE (IF probe = 1 THEN Exchange ELSE 0)
         + (CASE pc = "create" -> Exchange
              [] pc = "connect" -> MaxReads + 4
              [] pc = "tls" -> MaxReads + 3
              [] pc = "send" -> MaxReads + 2
              [] pc = "read" -> MaxReads - reads + 1
              [] pc = "gap" -> 1)

\* Whatever the server sends, each step of a call uses up some of what it has left:
\* no byte, failure or second probe gives it more to do than before.
StepsRunOut == [][(pc \in Running) => StepsLeft' \in 0..(StepsLeft - 1)]_vars

\* All that the length of a call depends on.
Pace ==
    /\ pc \in Running \cup {"idle", "raised"}
    /\ probe \in {1, 2}
    /\ reads \in 0..MaxReads

LEMMA PaceKept == Typing => Pace
BY DEF Typing, TypeOK, Pace

\* What a call has left is a number.
LEMMA LeftIsNat ==
    ASSUME Pace
    PROVE  StepsLeft \in Nat
<1> USE BoundAssumption DEF Pace
<1>1. CASE pc = "read"
  BY <1>1 DEF Running, StepsLeft, Exchange
<1>2. CASE pc # "read"
  BY <1>2 DEF Running, StepsLeft, Exchange
<1> QED
  BY <1>1, <1>2

\* A read that does not lead to another one leaves the loop.
LEMMA RecvGoesOn ==
    ASSUME Typing, Recv
    PROVE  /\ pc = "read" /\ probe' = probe
           /\ \/ pc' = "read" /\ reads' = reads + 1
              \/ pc' = "idle"
              \/ pc' = "gap" /\ probe = 1
<1>1. pc = "read" /\ probe' = probe /\ TypeOK
  BY DEF Recv, Typing
<1>2. clock' - t0 \in Durations
  BY TimeTaken DEF Recv
<1>3. Settle \/ Failed \/ (pc' = "read" /\ reads' = reads + 1)
  BY DEF Recv, Chunk, Silence
<1>4. Settle => pc' = "idle" \/ (pc' = "gap" /\ probe = 1)
  BY <1>1, <1>2, SettleEffect, FailedEffect
<1>5. Failed => pc' = "idle"
  BY <1>1, FailedEffect
<1> QED
  BY <1>1, <1>3, <1>4, <1>5

\* A step of a call takes some of it.
LEMMA UsesUp ==
    ASSUME Typing, Typing', Next, pc \in Running
    PROVE  StepsLeft' < StepsLeft
<1>1. Pace /\ Pace'
  BY DEF Typing, TypeOK, Pace
<1>2. CASE pc' \in {"idle", "raised"}
  BY <1>1, <1>2, BoundAssumption DEF Pace, Running, StepsLeft, Exchange
<1>3. Failed => pc' \in {"idle", "raised"}
  BY FailedEffect DEF Typing
<1> USE BoundAssumption DEF Pace, Running, StepsLeft, Exchange
<1>4. CASE Create
  <2>1. pc = "create" /\ probe' = probe
    BY <1>4 DEF Create
  <2>2. pc' = "connect" \/ Failed
    BY <1>4 DEF Create
  <2> QED
    BY <1>1, <1>2, <1>3, <2>1, <2>2
<1>5. CASE Connect
  <2>1. pc = "connect" /\ probe' = probe
    BY <1>5 DEF Connect
  <2>2. pc' \in {"tls", "idle"} \/ Failed
    BY <1>5 DEF Connect, EndCall
  <2> QED
    BY <1>1, <1>2, <1>3, <2>1, <2>2
<1>6. CASE Wrap
  <2>1. pc = "tls" /\ probe' = probe
    BY <1>6 DEF Wrap
  <2>2. pc' = "send" \/ Failed
    BY <1>6 DEF Wrap
  <2> QED
    BY <1>1, <1>2, <1>3, <2>1, <2>2
<1>7. CASE Send
  <2>1. pc = "send" /\ probe' = probe
    BY <1>7 DEF Send
  <2>2. pc' = "read" \/ Failed
    BY <1>7 DEF Send
  <2> QED
    BY <1>1, <1>2, <1>3, <2>1, <2>2
<1>8. CASE Recv
  <2>1. pc = "read" /\ reads < MaxReads
    BY <1>8 DEF Recv, Typing, Room, Exchanging
  <2> QED
    BY <1>1, <1>2, <1>8, <2>1, RecvGoesOn
<1>9. CASE Gap
  <2>1. pc = "gap" /\ pc' = "create" /\ probe' = 2 /\ probe = 1
    BY <1>9 DEF Gap, Typing, Cycle
  <2> QED
    BY <1>1, <2>1
<1>10. CASE Interrupt
  BY <1>2, <1>10 DEF Interrupt
<1>11. ASSUME NEW c \in Calls, Begin(c) PROVE FALSE
  BY <1>11 DEF Begin
<1> QED
  BY <1>4, <1>5, <1>6, <1>7, <1>8, <1>9, <1>10, <1>11 DEF Next, Step

\* Whatever the server, the clock and the network do, a call has no more than
\* 2 * (MaxReads + 5) steps, interrupts included: each takes one at least from what
\* is left.
THEOREM ProbeStepsRunOut == Spec => StepsRunOut
<1> DEFINE Left == StepsLeft \in Nat
<1>1. Typing => Left
  BY PaceKept, LeftIsNat
<1>2. Typing /\ Typing' /\ Left /\ Left' /\ [Next]_vars
        => [(pc \in Running) => StepsLeft' \in 0..(StepsLeft - 1)]_vars
  <2> SUFFICES ASSUME Typing, Typing', Left, Left', Next, pc \in Running
               PROVE  StepsLeft' \in 0..(StepsLeft - 1)
    OBVIOUS
  <2>1. StepsLeft' < StepsLeft
    BY UsesUp
  <2> QED
    BY <2>1
<1> HIDE DEF Left
<1> QED
  BY <1>1, <1>2, TypingAlways, PTL DEF Spec, StepsRunOut
===============================================================================
