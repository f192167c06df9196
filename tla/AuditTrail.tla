------------------------------ MODULE AuditTrail ------------------------------
(***************************************************************************)
(* What a run of the pipeline promises about the lines of its sources:     *)
(* each of them meets one fate, which is decided once and never revised,   *)
(* and the report of the run, if there is one, tells that fate of every    *)
(* line.  Which stage decides, and in what order the lines are handled,    *)
(* is left open.                                                           *)
(***************************************************************************)
CONSTANTS
    Lines,       \* all the places a line may have
    SourceOf     \* SourceOf[l]: the source of the line l

\* Fates of a line that is no node, and of a line that is one.
Unparsed == {"blank", "rejected", "unreadable"}
Parsed == {"dropped", "failed", "unranked", "scored"}

VARIABLES
    fate,     \* fate of each line, "unread" and "pending" before it is decided
    report    \* the audit once it is there, <<>> before

vars == <<fate, report>>

Init ==
    /\ fate \in [Lines -> {"unread", "blank"}]
    /\ report = <<>>

\* A line is read and turns out to be a node, or not.
ReadLine(l) ==
    /\ fate[l] = "unread"
    /\ \E f \in {"blank", "rejected", "pending"} : fate' = [fate EXCEPT ![l] = f]
    /\ UNCHANGED report

\* No line of a source that cannot be read is ever read.
LoseSource(s) ==
    /\ \A l \in Lines : SourceOf[l] = s => fate[l] \in {"unread", "blank"}
    /\ fate' = [l \in Lines |-> IF SourceOf[l] = s /\ fate[l] = "unread"
                                THEN "unreadable" ELSE fate[l]]
    /\ UNCHANGED report

\* A stage decides about a node.
Decide(l) ==
    /\ fate[l] = "pending"
    /\ \E f \in Parsed : fate' = [fate EXCEPT ![l] = f]
    /\ UNCHANGED report

\* The run is reported when every line is decided.
Report ==
    /\ report = <<>>
    /\ \A l \in Lines : fate[l] \in Unparsed \cup Parsed
    /\ report' = fate
    /\ UNCHANGED fate

Next ==
    \/ \E l \in Lines : ReadLine(l) \/ Decide(l)
    \/ \E l \in Lines : LoseSource(SourceOf[l])
    \/ Report

Spec == Init /\ [][Next]_vars
===============================================================================
