-------------------------------- MODULE Fetch --------------------------------
(***************************************************************************)
(* hubcore/fetch.py: one call of Fetcher.fetch against a transport that    *)
(* may do anything: fail, redirect anywhere and for ever, send any amount  *)
(* of data, and take any time for each call.  A step is one call of the    *)
(* transport or of its response; time passes only inside these calls.      *)
(***************************************************************************)
EXTENDS Naturals

CONSTANTS
    Urls, ValidUrls,         \* URLs, and those _validate_http_url accepts
    SiteOf,                  \* SiteOf[u]: _classify_host of u's host
    None,
    MaxRedirects, Budget, MaxBytes,
    Chunk,                   \* most bytes one read returns
    MaxTime,                 \* bound of the model's clock
    Follows                  \* the transport follows redirects by itself

ASSUME UrlAssumption ==
    /\ ValidUrls \subseteq Urls
    /\ None \notin Urls
    /\ DOMAIN SiteOf = ValidUrls
ASSUME BoundAssumption ==
    /\ MaxRedirects \in Nat
    /\ Budget \in Nat
    /\ MaxBytes \in Nat
    /\ Chunk \in Nat \ {0}
    /\ MaxTime \in Nat
    /\ Budget < MaxTime
    /\ Follows \in BOOLEAN

VARIABLES
    pc, result,
    url, current,    \* the URL asked for, the one of this hop
    redirects,
    now,             \* time since the deadline was computed
    total,           \* bytes of the body kept so far
    open,            \* responses handed out and not closed
    served,          \* history: the URL whose body the response carries
    asked,           \* history: the URLs handed to the transport
    late             \* history: calls that came back after the deadline

vars == <<pc, result, url, current, redirects, now, total, open, served, asked,
          late>>

\* How fetch ends: a FetchResult, one of its errors, or another exception.
FetchErrors == {"blocked", "network", "size", "timeout"}

TypeOK ==
    /\ pc \in {"start", "send", "redirect", "refused", "read", "end"}
    /\ result \in {"none", "ok", "other"} \cup FetchErrors
    /\ url \in Urls
    /\ current \in Urls
    /\ redirects \in 0..MaxRedirects
    /\ now \in 0..MaxTime
    /\ total \in 0..MaxBytes
    /\ open \in Nat
    /\ served \in Urls \cup {None}
    /\ asked \subseteq Urls
    /\ late \in Nat

Init ==
    /\ pc = "start"
    /\ result = "none"
    /\ url \in Urls
    /\ current = url
    /\ redirects = 0
    /\ now = 0
    /\ total = 0
    /\ open = 0
    /\ served = None
    /\ asked = {}
    /\ late = 0

End(r) == pc' = "end" /\ result' = r

\* A call takes some time, possibly more than the deadline leaves.
Elapse ==
    /\ now' \in now..MaxTime
    /\ late' = IF now' > Budget THEN late + 1 ELSE late

\* The URL is checked before anything is sent.
Start ==
    /\ pc = "start"
    /\ \/ url \in ValidUrls /\ pc' = "send" /\ UNCHANGED result
       \/ url \notin ValidUrls /\ End("blocked")
    /\ UNCHANGED <<url, current, redirects, now, total, open, served, asked, late>>

\* The deadline is checked, then the transport is called; it raises or hands
\* out a response.
Send ==
    /\ pc = "send"
    /\ \/ /\ now >= Budget
          /\ End("timeout")
          /\ UNCHANGED <<now, open, served, asked, late>>
       \/ /\ now < Budget
          /\ Elapse
          /\ asked' = asked \cup {current}
          /\ \/ /\ \E r \in FetchErrors : End(r)
                /\ UNCHANGED <<open, served>>
             \/ /\ pc' \in {"redirect", "refused", "read"}
                /\ open' = open + 1
                /\ served' \in IF Follows THEN Urls ELSE {current}
                /\ UNCHANGED result
    /\ UNCHANGED <<url, current, redirects, total>>

\* Mutant of Acceptable: the new host is not compared with the current one.
Acceptable_AnySite(nxt) == nxt \in ValidUrls

\* _resolve_redirect: the target passes the URL policy and stays on the site.
Acceptable(nxt) ==
    /\ nxt \in ValidUrls
    /\ SiteOf[nxt] = SiteOf[current]

\* Mutant of HopsLeft: the limit itself is let through.
HopsLeft_OffByOne == redirects <= MaxRedirects

HopsLeft == redirects < MaxRedirects

\* Mutant of Redirect: the response of a redirect is never closed.
Redirect_LeftOpen ==
    /\ pc = "redirect"
    /\ \/ /\ HopsLeft
          /\ redirects' = redirects + 1
          /\ \E nxt \in Urls : /\ Acceptable(nxt)
                               /\ current' = nxt
          /\ pc' = "send"
          /\ UNCHANGED result
       \/ /\ End("blocked")
          /\ UNCHANGED <<current, redirects>>
    /\ UNCHANGED <<url, now, total, open, served, asked, late>>

\* A 3xx response is closed before it is looked at; a missing location or a
\* target that is not acceptable blocks the fetch, and one that urljoin cannot
\* take apart leaves it with an error of urljoin's.
Redirect ==
    /\ pc = "redirect"
    /\ open' = open - 1
    /\ \/ /\ ~HopsLeft
          /\ End("blocked")
          /\ UNCHANGED <<current, redirects>>
       \/ /\ HopsLeft
          /\ redirects' = redirects + 1
          /\ \/ /\ \E nxt \in Urls : Acceptable(nxt) /\ current' = nxt
                /\ pc' = "send"
                /\ UNCHANGED result
             \/ /\ \E r \in {"blocked", "other"} : End(r)
                /\ UNCHANGED current
    /\ UNCHANGED <<url, now, total, served, asked, late>>

\* Any other status that is not 200.
Refused ==
    /\ pc = "refused"
    /\ open' = open - 1
    /\ End("network")
    /\ UNCHANGED <<url, current, redirects, now, total, served, asked, late>>

\* Mutant of InTime: the deadline is not looked at while reading.
InTime_Never == TRUE

InTime == now <= Budget

\* Mutant of Kept: the bytes of earlier chunks are forgotten.
Kept_LastChunk(n) == n

\* Bytes kept once a chunk of n bytes has arrived.
Kept(n) == total + n

\* _read_capped: deadline, read, cap.  However the loop is left, the response
\* is closed; an exception of read itself is not translated.
Read ==
    /\ pc = "read"
    /\ \/ /\ ~InTime
          /\ End("timeout")
          /\ open' = open - 1
          /\ UNCHANGED <<now, total, late>>
       \/ /\ InTime
          /\ Elapse
          /\ \/ /\ \E n \in 1..Chunk : Kept(n) <= MaxBytes /\ total' = Kept(n)
                /\ UNCHANGED <<pc, result, open>>
             \/ /\ \E n \in 1..Chunk : Kept(n) > MaxBytes
                /\ End("size")
                /\ open' = open - 1
                /\ UNCHANGED total
             \/ /\ \E r \in {"ok", "other"} : End(r)
                /\ open' = open - 1
                /\ UNCHANGED total
    /\ UNCHANGED <<url, current, redirects, served, asked>>

Next == Start \/ Send \/ Redirect \/ Refused \/ Read

Spec == Init /\ [][Next]_vars

\* fetch keeps running and each call of the transport returns.  Nothing is
\* assumed of the time a call takes, not even that it takes any.
FairSpec == Spec /\ WF_vars(Next)

-----------------------------------------------------------------------------
(* Properties *)

\* However many hops there are, only acceptable URLs of the site the caller
\* named are ever handed to the transport.
StaysOnSite ==
    \A u \in asked : /\ u \in ValidUrls
                     /\ SiteOf[u] = SiteOf[url]

\* At most one response is open at a time and none when fetch is left, in
\* whatever way.
ResponsesClosed ==
    /\ open <= 1
    /\ pc = "end" => open = 0

\* One budget covers all redirects and all reads: after the deadline at most
\* the call that was then running comes back, and no other is started.
AtMostOneLateCall == late <= 1

\* fetch ends even against a server that redirects or dribbles for ever.
FetchEnds == <>(pc = "end")

\* FetchResult.url: "final URL after redirects".
ResultUrlIsFinal == result = "ok" => served = current
==============================================================================
