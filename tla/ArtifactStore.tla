---------------------------- MODULE ArtifactStore ----------------------------
(***************************************************************************)
(* What hubcore/writer.py promises to the callers of write_text: an        *)
(* artifact is replaced as a whole or not at all.  There are no locks, no  *)
(* temporary files and no partial contents here: a request either takes    *)
(* effect in one step, is confirmed because the file already holds the     *)
(* requested bytes, or fails and leaves the file alone.                    *)
(*                                                                         *)
(* The one weakness the promise admits is a power loss: the directory      *)
(* entry is never fsynced, so a file may fall back to an earlier WHOLE     *)
(* version of itself.                                                      *)
(***************************************************************************)
CONSTANTS Threads,   \* callers of the writer
          Files,     \* destination files
          Contents,  \* whole artifact contents
          Absent     \* the file does not exist

VARIABLES store,     \* what a reader of a file sees
          past,      \* versions a power loss may bring back
          op         \* the request each caller has in flight

storeVars == <<store, past, op>>

NoOp == [st |-> "none"]
Ops  == [st : {"pending", "applied"}, file : Files, data : Contents]

StoreTypeOK ==
    /\ store \in [Files -> Contents \cup {Absent}]
    /\ past \in [Files -> SUBSET (Contents \cup {Absent})]
    /\ op \in [Threads -> Ops \cup {NoOp}]

StoreInit ==
    /\ store \in [Files -> Contents \cup {Absent}]
    /\ past = [f \in Files |-> {store[f]}]
    /\ op = [t \in Threads |-> NoOp]

\* A caller asks for data to become the content of file.
Request(t, f, d) ==
    /\ op[t] = NoOp
    /\ op' = [op EXCEPT ![t] = [st |-> "pending", file |-> f, data |-> d]]
    /\ UNCHANGED <<store, past>>

\* The request takes effect, all of it in one step.
Publish(t) ==
    /\ op[t].st = "pending"
    /\ store' = [store EXCEPT ![op[t].file] = op[t].data]
    /\ past' = [past EXCEPT ![op[t].file] = @ \cup {op[t].data}]
    /\ op' = [op EXCEPT ![t].st = "applied"]

\* The file already holds the requested bytes: nothing is written.
Confirm(t) ==
    /\ op[t].st = "pending"
    /\ store[op[t].file] = op[t].data
    /\ op' = [op EXCEPT ![t].st = "applied"]
    /\ UNCHANGED <<store, past>>

\* Success is answered only once the request has taken effect.
Reply(t) ==
    /\ op[t].st = "applied"
    /\ op' = [op EXCEPT ![t] = NoOp]
    /\ UNCHANGED <<store, past>>

\* Success for one artifact and the request for the caller's next one.
ReplyAndRequest(t, f, d) ==
    /\ op[t].st = "applied"
    /\ op' = [op EXCEPT ![t] = [st |-> "pending", file |-> f, data |-> d]]
    /\ UNCHANGED <<store, past>>

\* The request is refused or fails: the previous file stays as it was.
Abort(t) ==
    /\ op[t].st = "pending"
    /\ op' = [op EXCEPT ![t] = NoOp]
    /\ UNCHANGED <<store, past>>

\* Callers are interrupted or killed; an applied request stays applied.
Die(T) ==
    /\ op' = [t \in Threads |-> IF t \in T THEN NoOp ELSE op[t]]
    /\ UNCHANGED <<store, past>>

\* A power loss: every caller is gone, every file is some earlier version.
Rollback ==
    /\ store' \in [Files -> Contents \cup {Absent}]
    /\ \A f \in Files : store'[f] \in past[f]
    /\ past' = [f \in Files |-> {store'[f]}]
    /\ op' = [t \in Threads |-> NoOp]

StoreNext ==
    \/ \E t \in Threads :
          \/ \E f \in Files, d \in Contents :
                Request(t, f, d) \/ ReplyAndRequest(t, f, d)
          \/ Publish(t) \/ Confirm(t) \/ Reply(t) \/ Abort(t)
    \/ \E T \in SUBSET Threads : Die(T)
    \/ Rollback

StoreSpec == StoreInit /\ [][StoreNext]_storeVars
==============================================================================
