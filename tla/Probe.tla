-------------------------------- MODULE Probe --------------------------------
(***************************************************************************)
(* The three layers that open sockets, hubcore/tcpval.py, handshake.py and *)
(* measure.py, called on one node in any order and number: TcpValidator.   *)
(* validate_and_attach, HandshakeValidator.validate (its sample attached   *)
(* as _handshake_stage does) and ProxyMeasurer.attach.                     *)
(*                                                                         *)
(* A step is one call of the socket, of tls_wrap or of the sleeper.  The   *)
(* server may refuse, fall silent, close, or send bytes that are or are    *)
(* not an answer of the protocol; every call takes some time or none.      *)
(***************************************************************************)
EXTENDS Integers, Sequences

CONSTANTS
    Nodes,                \* the nodes a caller may hand over
    Options,              \* how the caller has configured the three layers
    None,
    MaxCalls, MaxTime,    \* bounds of the model: calls, and the time of a call
    MaxReads, Cap         \* MAX_READS, and RECV_CAP in some unit

ASSUME BoundAssumption ==
    /\ MaxCalls \in Nat
    /\ MaxTime \in Nat
    /\ MaxReads \in Nat \ {0}
    /\ Cap \in Nat \ {0}

\* What an address says to classify_ip; "junk" is none it can parse.
Kinds == {"public", "private", "junk"}

\* host: the endpoint's host, a literal address or a name; pin: resolved_ip;
\* secret: the password of a trojan node is not empty, the uuid of a vless
\* node is one.
NodeSpace ==
    [host : {"name", "public", "private"}, pin : Kinds \cup {None},
     protocol : {"vless", "trojan", "other"},
     security : {"TLS", "REALITY", "UNKNOWN"},
     transport : {"tcp", "unknown", "ws"}, secret : BOOLEAN]

\* credentials: allow_credential_probe; direct: allow_direct_hostname; odd:
\* the clock injected into the measurer is not monotonic.
OptionSpace == [credentials : BOOLEAN, direct : BOOLEAN, odd : BOOLEAN]

ASSUME InputAssumption ==
    /\ Nodes \subseteq NodeSpace
    /\ Options \subseteq OptionSpace
    /\ None \notin Kinds \cup Int

VARIABLES
    options, node,
    samples,     \* the samples on the node
    call, pc, calls,
    probe,       \* 1 or 2: which probe cycle of measure
    owner,       \* which object holds the open descriptor
    clock,       \* time since the socket of this exchange was created
    t0,          \* what the code has read as the start of its window
    first,       \* whether the first byte heard is an answer of the protocol
    size, reads, \* what the read loop holds and how often it has read
    ms1,         \* the duration of the first probe cycle
    answer,      \* outcome.ok of the last call
    connected,   \* history: when the socket was connected
    heard,       \* history: when the last bytes were read
    truth,       \* history: how long after its connect each exchange of this
                 \*          call heard an answer
    cut          \* history: the step at which the call was interrupted

vars == <<options, node, samples, call, pc, calls, probe, owner, clock, t0, first,
          size, reads, ms1, answer, connected, heard, truth, cut>>

Calls == {"tcp", "handshake", "measure"}
Durations == 0..MaxTime
Sample == Durations \cup {None}
Samples == [tcp : Sample, handshake : Sample, measured : Sample, jitter : Sample]
Running == {"create", "connect", "tls", "send", "read", "gap"}

\* One exchange never reads more often, nor more bytes, than its limits say;
\* no sample is negative, whatever the clock does.
TypeOK ==
    /\ options \in Options
    /\ node \in NodeSpace
    /\ samples \in Samples
    /\ call \in Calls
    /\ pc \in Running \cup {"idle", "raised"}
    /\ calls \in 0..MaxCalls
    /\ probe \in {1, 2}
    /\ owner \in {"none", "raw", "tls"}
    /\ clock \in Durations /\ t0 \in Durations
    /\ first \in {"none", "right", "wrong"}
    /\ size \in 0..(2 * Cap - 1)
    /\ reads \in 0..MaxReads
    /\ ms1 \in Durations
    /\ answer \in BOOLEAN
    /\ connected \in Durations /\ heard \in Durations
    /\ truth \in Seq(Durations) /\ Len(truth) <= 2
    /\ cut \in Running \cup {"none"}

Init ==
    /\ options \in Options
    /\ node \in Nodes
    /\ samples = [tcp |-> None, handshake |-> None, measured |-> None, jitter |-> None]
    /\ call = "tcp" /\ pc = "idle" /\ calls = 0 /\ probe = 1
    /\ owner = "none"
    /\ clock = 0 /\ t0 = 0 /\ first = "none" /\ size = 0 /\ reads = 0
    /\ ms1 = 0 /\ answer = FALSE
    /\ connected = 0 /\ heard = 0 /\ truth = <<>> /\ cut = "none"

-----------------------------------------------------------------------------
(* The gates *)

\* The address that is dialled: the pinned one, else a literal host.
Target == IF node.pin # None THEN node.pin
          ELSE IF node.host # "name" THEN node.host ELSE None

\* probe_gate: what can be probed honestly.
Probeable ==
    /\ node.transport \in {"tcp", "unknown"}
    /\ \/ node.protocol = "vless" /\ node.security = "TLS"
       \/ /\ node.protocol = "trojan"
          /\ options.credentials
          /\ node.security \in {"TLS", "UNKNOWN"}
          /\ node.secret

\* Whether a call gets as far as a socket.  Only tcpval may dial a name.
Admitted(c) ==
    \/ Target = "public" /\ (c = "tcp" \/ Probeable)
    \/ Target = None /\ c = "tcp" /\ options.direct

Begin(c) ==
    /\ pc = "idle"
    /\ calls < MaxCalls
    /\ calls' = calls + 1
    /\ call' = c
    /\ probe' = 1
    /\ answer' = FALSE
    /\ truth' = <<>>
    /\ pc' = IF Admitted(c) THEN "create" ELSE "idle"
    /\ UNCHANGED <<options, node, samples, owner, clock, t0, first, size, reads, ms1,
                   connected, heard, cut>>

-----------------------------------------------------------------------------
(* One exchange *)

Elapse == clock' \in clock..MaxTime

EndCall(ok, attached) ==
    /\ pc' = "idle"
    /\ answer' = ok
    /\ samples' = attached

\* Mutant of Failed: a failed second probe counts as a repetition of the first.
Failed_Fabricates ==
    IF call = "measure" /\ probe = 2
    THEN EndCall(TRUE, [samples EXCEPT !.measured = ms1, !.jitter = 0])
    ELSE EndCall(FALSE, samples)

\* Mutant of Failed: the second probe is repeated until it succeeds.
Failed_Repeats ==
    IF call = "measure" /\ probe = 2 /\ Len(truth) = 1
    THEN pc' = "create" /\ UNCHANGED <<answer, samples>>
    ELSE EndCall(call = "measure" /\ probe = 2, samples)

\* The exchange did not succeed: the call has failed, except that measure keeps
\* what its first probe has found, without a jitter.
Failed ==
    IF call = "measure" /\ probe = 2
    THEN EndCall(TRUE, [samples EXCEPT !.measured = ms1])
    ELSE EndCall(FALSE, samples)

\* connect_factory; every exchange has a socket of its own.  tcpval starts its
\* window here.
Create ==
    /\ pc = "create"
    /\ clock' = 0 /\ t0' = 0 /\ first' = "none" /\ size' = 0 /\ reads' = 0
    /\ connected' = 0 /\ heard' = 0
    /\ \/ /\ owner' = "raw"
          /\ pc' = "connect"
          /\ UNCHANGED <<answer, samples>>
       \/ /\ Failed
          /\ UNCHANGED owner
    /\ UNCHANGED <<options, node, call, calls, probe, ms1, truth, cut>>

\* sock.connect.  For tcpval it ends the measured window: the socket is closed,
\* and an address that answered is pinned.  For the others the window starts
\* when the socket is connected.
Connect ==
    /\ pc = "connect"
    /\ \/ /\ Failed
          /\ owner' = "none"
          /\ UNCHANGED <<clock, t0, connected, node>>
       \/ /\ call = "tcp"
          /\ Elapse
          /\ connected' = clock'
          /\ EndCall(TRUE, [samples EXCEPT !.tcp = clock' - t0])
          /\ owner' = "none"
          /\ node' = [node EXCEPT !.pin = Target]
          /\ UNCHANGED t0
       \/ /\ call # "tcp"
          /\ Elapse
          /\ connected' = clock'
          /\ t0' = clock'
          /\ pc' = "tls"
          /\ UNCHANGED <<owner, samples, answer, node>>
    /\ UNCHANGED <<options, call, calls, probe, first, size, reads, ms1, heard,
                   truth, cut>>

\* tls_wrap, after which the TLS socket owns the descriptor, and probe_bytes,
\* which finds a uuid that is none.
Wrap ==
    /\ pc = "tls"
    /\ Elapse
    /\ \/ /\ Failed
          /\ owner' = "none"
       \/ /\ node.secret
          /\ pc' = "send"
          /\ owner' = "tls"
          /\ UNCHANGED <<answer, samples>>
    /\ UNCHANGED <<options, node, call, calls, probe, t0, first, size, reads, ms1,
                   connected, heard, truth, cut>>

\* Mutant of Shut: the finally that closes the TLS socket is missing; closing
\* the raw one, which owns nothing any more, does not help.
Shut_RawOnly == owner' = IF owner = "raw" THEN "none" ELSE owner

\* quiet_close of both sockets on the way out of an exchange.
Shut == owner' = "none"

Send ==
    /\ pc = "send"
    /\ Elapse
    /\ \/ Failed /\ Shut
       \/ pc' = "read" /\ UNCHANGED <<owner, answer, samples>>
    /\ UNCHANGED <<options, node, call, calls, probe, t0, first, size, reads, ms1,
                   connected, heard, truth, cut>>

-----------------------------------------------------------------------------
(* The bounded read loop and its result *)

AbsDiff(a, b) == IF a < b THEN b - a ELSE a - b

\* What the measurer's clock says has passed since t0; -1 stands for what is negative or
\* not finite.
Reading == IF options.odd THEN (-1)..MaxTime ELSE {clock' - t0}

\* The exchange has an answer.  A handshake ends with the time from t0 until now;
\* a probe that the clock does not allow to be timed has failed.
Settle ==
    \/ /\ call = "handshake"
       /\ EndCall(TRUE, [samples EXCEPT !.handshake = clock' - t0])
       /\ UNCHANGED ms1
    \/ /\ call = "measure"
       /\ \E ms \in Reading :
            IF ms < 0 THEN Failed /\ UNCHANGED ms1
            ELSE \/ /\ probe = 1
                    /\ ms1' = ms
                    /\ pc' = "gap"
                    /\ UNCHANGED <<answer, samples>>
                 \/ /\ probe = 2
                    /\ EndCall(TRUE, [samples EXCEPT !.measured = ms,
                                                     !.jitter = AbsDiff(ms, ms1)])
                    /\ UNCHANGED ms1

\* The first byte decides for ever; to a trojan probe any byte is an answer.
FirstByte ==
    IF first # "none" THEN {first}
    ELSE IF node.protocol = "trojan" THEN {"right"} ELSE {"right", "wrong"}

\* Mutant of ReadOn: the number of reads is not limited, only their size.
ReadOn_AnyNumber(f, n, r) ==
    /\ n < Cap
    /\ ~(call = "measure" /\ f = "right")

\* Whether the loop reads on after n bytes in r reads.
ReadOn(f, n, r) ==
    /\ r < MaxReads
    /\ n < Cap
    /\ ~(call = "measure" /\ f = "right")

\* Mutant of Verdict: what was read is not looked at.
Verdict_AnyBytes(f) == f # "none"

\* response_matches_protocol on what was read.
Verdict(f) == f = "right"

Chunk ==
    \E n \in 1..Cap, f \in FirstByte :
        /\ first' = f
        /\ size' = size + n
        /\ reads' = reads + 1
        /\ heard' = clock'
        /\ truth' = IF first = "none" /\ f = "right"
                    THEN Append(truth, clock' - connected) ELSE truth
        /\ IF ReadOn(f, size', reads')
           THEN pc' = "read" /\ UNCHANGED <<owner, answer, samples, ms1>>
           ELSE /\ Shut
                /\ \/ Verdict(f) /\ Settle
                   \/ ~Verdict(f) /\ Failed /\ UNCHANGED ms1

\* A timeout, an error or the end of the stream; what was heard before counts.
Silence ==
    /\ Shut
    /\ \/ Verdict(first) /\ Settle
       \/ ~Verdict(first) /\ Failed /\ UNCHANGED ms1
    /\ UNCHANGED <<first, size, reads, heard, truth>>

Recv ==
    /\ pc = "read"
    /\ Elapse
    /\ Chunk \/ Silence
    /\ UNCHANGED <<options, node, call, calls, probe, t0, connected, cut>>

\* The pause between the two probes, interrupted or not.
Gap ==
    /\ pc = "gap"
    /\ pc' = "create"
    /\ probe' = 2
    /\ UNCHANGED <<options, node, samples, call, calls, owner, clock, t0, first, size,
                   reads, ms1, answer, connected, heard, truth, cut>>

\* A KeyboardInterrupt leaves the call.  tcpval closes in a finally; the other
\* two guard connect with "except Exception" only, and the rest with a finally.
\* Inside tls_wrap the descriptor is ssl's, which is taken to close it.
Interrupt ==
    /\ pc \in Running
    /\ pc' = "raised"
    /\ cut' = pc
    /\ owner' = IF pc = "connect" /\ call # "tcp" THEN owner ELSE "none"
    /\ answer' = FALSE
    /\ UNCHANGED <<options, node, samples, call, calls, probe, clock, t0, first, size,
                   reads, ms1, connected, heard, truth>>

Step == Create \/ Connect \/ Wrap \/ Send \/ Recv \/ Gap

Next == (\E c \in Calls : Begin(c)) \/ Step \/ Interrupt

Spec == Init /\ [][Next]_vars

\* A call that is running goes on: every socket has a timeout, so each call of
\* it returns.  Nothing is assumed of the time it takes.
FairSpec == Spec /\ WF_vars(Step)

-----------------------------------------------------------------------------
(* Properties *)

\* handshake.py:50, tcpval.py:29: whatever way an exchange is left, and however
\* often the layers are called, no descriptor stays open; the one exception is
\* an interrupt while handshake or measure connect.
SocketsClosed ==
    pc \in {"idle", "raised", "gap"} =>
        \/ owner = "none"
        \/ cut = "connect" /\ call # "tcp"

\* The two layers never drift apart (handshake.py:53): a call says ok exactly
\* when the first byte of one of its exchanges was an answer of the protocol,
\* no matter how the rest of the exchange went; with an odd clock, only then.
VerdictIsHeard ==
    pc = "idle" /\ call # "tcp" =>
        /\ answer => truth # <<>>
        /\ truth # <<>> /\ ~options.odd => answer

\* A sample appears on the node only when a call ends in success, leaves the
\* samples of the other kinds alone, and is what the layer's docstring measures:
\* for tcpval the time its connect has just taken; for a handshake the time from
\* the connected socket until the read loop of the same exchange has ended, an
\* answer having been heard; for measure the time from the connected socket to
\* the first answer of the last exchange of this call that had one.  A jitter
\* is the difference of the two exchanges of this call; after a failed second
\* probe the field is left as it was, so the jitter of an earlier measure call
\* on the node, if there was one, stays beside the new latency.
SamplesAreEarned ==
    [][samples' # samples /\ ~options.odd =>
        /\ pc' = "idle" /\ answer'
        /\ call = "tcp" =>
             /\ pc = "connect"
             /\ samples' = [samples EXCEPT !.tcp = clock']
        /\ call = "handshake" =>
             /\ truth' # <<>>
             /\ samples' = [samples EXCEPT !.handshake = clock' - connected']
        /\ call = "measure" =>
             samples' = [samples EXCEPT
                 !.measured = truth'[Len(truth')],
                 !.jitter = IF Len(truth') = 2 THEN AbsDiff(truth'[1], truth'[2])
                            ELSE @]]_vars

\* Every call ends, even against a server that sends one byte at a time.
CallsEnd == pc \in Running ~> pc \in {"idle", "raised"}

\* handshake.py:41: the latency "covers exactly post-TCP-connect -> last
\* qualifying response byte read".
HandshakeWindow ==
    [][samples'.handshake # samples.handshake => samples'.handshake = heard' - connected']_vars
==============================================================================
