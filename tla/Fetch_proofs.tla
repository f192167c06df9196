----------------------------- MODULE Fetch_proofs -----------------------------
(***************************************************************************)
(* Theorems about Fetch, for any URLs and sites, any limits of redirects,  *)
(* bytes and time, and a transport that may do anything.                   *)
(*                                                                         *)
(*   Typing     types, together with OneOpen: a response is open exactly   *)
(*              while its status or its body is looked at, so there is one *)
(*              to close whenever one is closed.                           *)
(*   OnSite     the URL of this hop stays acceptable and on the site of    *)
(*              the first one, so everything handed to the transport is.   *)
(*   LateOnce   a call that comes back late leaves a clock past the        *)
(*              deadline, and no call starts then.                         *)
(*   StepsRunOut   each step uses up some of what the limits leave.        *)
(***************************************************************************)
EXTENDS Fetch, TLAPS

\* The response of the last call is open until it is closed on the way out.
OneOpen == open = IF pc \in {"redirect", "refused", "read"} THEN 1 ELSE 0

Typing == TypeOK /\ OneOpen

\* A fetch starts with the URL it was given; while it runs, that URL and the one
\* of this hop are acceptable and of one site.
OnSite ==
    /\ pc = "start" => current = url
    /\ pc \in {"send", "redirect", "refused", "read"} =>
          /\ url \in ValidUrls
          /\ current \in ValidUrls
          /\ SiteOf[current] = SiteOf[url]
    /\ StaysOnSite

\* The clock is past the deadline for good once a call was late, and only one
\* call can have been.
LateOnce == late = IF now > Budget THEN 1 ELSE 0

-----------------------------------------------------------------------------
(* Types and responses *)

\* No step breaks the types or closes a response that is not there.
LEMMA TypingStep == Typing /\ [Next]_vars => Typing'
<1> SUFFICES ASSUME Typing, [Next]_vars PROVE Typing'
  OBVIOUS
<1> USE BoundAssumption DEF Typing, OneOpen, TypeOK, End, FetchErrors
<1>1. CASE Start
  BY <1>1 DEF Start
<1>2. CASE Send
  BY <1>2 DEF Send, Elapse
<1>3. CASE Redirect
  <2>1. redirects' \in 0..MaxRedirects
    BY <1>3 DEF Redirect, HopsLeft
  <2>2. current' \in Urls
    BY <1>3 DEF Redirect
  <2>3. open' = 0 /\ pc' \in {"send", "end"} /\ result' \in {result, "blocked", "other"}
    BY <1>3 DEF Redirect
  <2> QED
    BY <1>3, <2>1, <2>2, <2>3 DEF Redirect
<1>4. CASE Refused
  BY <1>4 DEF Refused
<1>5. CASE Read
  BY <1>5 DEF Read, InTime, Elapse, Kept
<1>6. CASE UNCHANGED vars
  BY <1>6 DEF vars
<1> QED
  BY <1>1, <1>2, <1>3, <1>4, <1>5, <1>6 DEF Next

\* Both hold from the start.
LEMMA TypingAlways == Spec => []Typing
<1>1. Init => Typing
  BY UrlAssumption, BoundAssumption DEF Init, Typing, TypeOK, OneOpen
<1> QED
  BY <1>1, TypingStep, PTL DEF Spec

\* The types hold in every state, whatever the transport answers: the counters
\* of redirects and bytes never pass their limits.
THEOREM FetchTypeCorrect == Spec => []TypeOK
<1>1. Typing => TypeOK
  BY DEF Typing
<1> QED
  BY <1>1, TypingAlways, PTL

\* However fetch is left, at a redirect, an error status, in the middle of a
\* body or at its end, the response it was given has been closed.
THEOREM FetchClosesResponses == Spec => []ResponsesClosed
<1>1. Typing => ResponsesClosed
  BY DEF Typing, OneOpen, ResponsesClosed
<1> QED
  BY <1>1, TypingAlways, PTL

-----------------------------------------------------------------------------
(* The site *)

\* A hop is taken only to an acceptable URL of the site of the one before it.
LEMMA OnSiteStep == OnSite /\ [Next]_vars => OnSite'
<1> SUFFICES ASSUME OnSite, [Next]_vars PROVE OnSite'
  OBVIOUS
<1> USE DEF OnSite, StaysOnSite, End
<1>1. CASE Start
  BY <1>1 DEF Start
<1>2. CASE Send
  <2>1. asked' \subseteq asked \cup {current} /\ UNCHANGED <<url, current>>
    BY <1>2 DEF Send
  <2>2. pc' \in {"end", "redirect", "refused", "read"} /\ pc = "send"
    BY <1>2 DEF Send
  <2> QED
    BY <2>1, <2>2
<1>3. CASE Redirect
  <2>1. pc = "redirect" /\ UNCHANGED <<url, asked>>
    BY <1>3 DEF Redirect
  <2>2. CASE pc' = "send" /\ Acceptable(current')
    BY <2>1, <2>2 DEF Acceptable
  <2>3. CASE pc' = "end"
    BY <2>1, <2>3
  <2> QED
    BY <1>3, <2>2, <2>3 DEF Redirect
<1>4. CASE Refused
  BY <1>4 DEF Refused
<1>5. CASE Read
  <2>1. pc = "read" /\ pc' \in {"read", "end"} /\ UNCHANGED <<url, current, asked>>
    BY <1>5 DEF Read
  <2> QED
    BY <2>1
<1>6. CASE UNCHANGED vars
  BY <1>6 DEF vars
<1> QED
  BY <1>1, <1>2, <1>3, <1>4, <1>5, <1>6 DEF Next

\* However many redirects a server sends, and wherever they point, every URL
\* handed to the transport passed the URL policy and is of the site the caller
\* named.
THEOREM FetchStaysOnSite == Spec => []StaysOnSite
<1>1. Init => OnSite
  BY DEF Init, OnSite, StaysOnSite
<1>2. OnSite => StaysOnSite
  BY DEF OnSite
<1> QED
  BY <1>1, <1>2, OnSiteStep, PTL DEF Spec

-----------------------------------------------------------------------------
(* The deadline *)

\* A call starts only while the clock has not passed the deadline.
LEMMA LateOnceStep == Typing /\ LateOnce /\ [Next]_vars => LateOnce'
<1> SUFFICES ASSUME Typing, LateOnce, [Next]_vars PROVE LateOnce'
  OBVIOUS
<1> USE BoundAssumption DEF Typing, TypeOK, LateOnce
<1>1. ASSUME Elapse, now <= Budget PROVE LateOnce'
  BY <1>1 DEF Elapse
<1>2. CASE Send
  <2>1. CASE now >= Budget
    BY <1>2, <2>1 DEF Send
  <2>2. CASE now < Budget
    BY <1>1, <1>2, <2>2 DEF Send
  <2> QED
    BY <2>1, <2>2
<1>3. CASE Read
  <2>1. CASE now > Budget
    BY <1>3, <2>1 DEF Read, InTime
  <2>2. CASE now <= Budget
    BY <1>1, <1>3, <2>2 DEF Read, InTime
  <2> QED
    BY <2>1, <2>2
<1>4. CASE UNCHANGED <<now, late>>
  BY <1>4
<1>5. Start \/ Redirect \/ Refused \/ UNCHANGED vars => UNCHANGED <<now, late>>
  BY DEF Start, Redirect, Refused, vars
<1> QED
  BY <1>2, <1>3, <1>4, <1>5 DEF Next

\* One budget covers all redirects and all reads: after the deadline only the
\* call that was then running comes back.
THEOREM FetchOneLateCall == Spec => []AtMostOneLateCall
<1>1. Init => LateOnce
  BY BoundAssumption DEF Init, LateOnce
<1>2. LateOnce => AtMostOneLateCall
  BY DEF LateOnce, AtMostOneLateCall
<1> QED
  BY <1>1, <1>2, TypingAlways, LateOnceStep, PTL DEF Spec

-----------------------------------------------------------------------------
(* The length of a fetch *)

\* How many steps a fetch can still take: two for each redirect that is left, one
\* for each byte that may still come, and those that lead up to the body.
StepsLeft ==
    IF pc = "end" THEN 0
    ELSE 2 * (MaxRedirects - redirects) + (MaxBytes - total)
             + (CASE pc = "start" -> 3 [] pc = "send" -> 2 [] OTHER -> 1)

\* Whatever the transport answers, each step of a fetch uses up some of what it
\* has left: no redirect, chunk or delay gives it more to do than before, so its
\* length is bounded by the limits alone.
StepsRunOut == [][StepsLeft' \in 0..(StepsLeft - 1)]_vars

\* What is left is a number.
LEMMA LeftIsNat ==
    ASSUME Typing
    PROVE  StepsLeft \in Nat
BY BoundAssumption DEF Typing, TypeOK, StepsLeft

\* A step of fetch uses up some of it.
LEMMA UsesUp ==
    ASSUME Typing, Typing', Next
    PROVE  StepsLeft' < StepsLeft
<1> USE BoundAssumption DEF Typing, TypeOK, StepsLeft, End
<1>1. CASE Start
  BY <1>1 DEF Start
<1>2. CASE Send
  <2>1. pc = "send" /\ UNCHANGED <<redirects, total>>
    BY <1>2 DEF Send
  <2>2. pc' \in {"end", "redirect", "refused", "read"}
    BY <1>2 DEF Send
  <2> QED
    BY <2>1, <2>2
<1>3. CASE Redirect
  <2>1. pc = "redirect" /\ total' = total
    BY <1>3 DEF Redirect
  <2>2. pc' = "end" \/ (pc' = "send" /\ redirects' = redirects + 1)
    BY <1>3 DEF Redirect
  <2> QED
    BY <2>1, <2>2
<1>4. CASE Refused
  BY <1>4 DEF Refused
<1>5. CASE Read
  <2>1. pc = "read" /\ redirects' = redirects
    BY <1>5 DEF Read
  <2>2. pc' = "end" \/ (pc' = "read" /\ \E n \in 1..Chunk : total' = total + n)
    BY <1>5 DEF Read, Kept
  <2>3. ASSUME NEW n \in 1..Chunk, pc' = "read", total' = total + n
        PROVE  StepsLeft' < StepsLeft
    BY <2>1, <2>3
  <2>4. CASE pc' = "end"
    BY <2>1, <2>4
  <2> QED
    BY <2>2, <2>3, <2>4
<1> QED
  BY <1>1, <1>2, <1>3, <1>4, <1>5 DEF Next

\* Whatever the transport answers, and whatever time it takes, a fetch has no more
\* than 2 * MaxRedirects + MaxBytes + 3 steps: each takes one at least from what
\* is left.
THEOREM FetchStepsRunOut == Spec => StepsRunOut
<1>1. Typing /\ Typing' /\ [Next]_vars => [StepsLeft' \in 0..(StepsLeft - 1)]_vars
  <2> SUFFICES ASSUME Typing, Typing', Next
               PROVE  StepsLeft' \in 0..(StepsLeft - 1)
    OBVIOUS
  <2>1. StepsLeft \in Nat /\ StepsLeft' < StepsLeft
    BY LeftIsNat, UsesUp
  <2>2. StepsLeft' \in Nat
    BY BoundAssumption DEF Typing, TypeOK, StepsLeft
  <2> QED
    BY <2>1, <2>2
<1> QED
  BY <1>1, TypingAlways, PTL DEF Spec, StepsRunOut
===============================================================================
