---------------------------- MODULE ArtifactWriter ----------------------------
(***************************************************************************)
(* hubcore/writer.py: write_outputs, write_text, write_bytes and           *)
(* _atomic_replace, run by several threads of several processes on one     *)
(* output root.                                                            *)
(*                                                                         *)
(* A step of a thread is one filesystem or lock operation; each of them    *)
(* may fail with OSError.  Between any two steps another thread may run,   *)
(* a thread may be interrupted (KeyboardInterrupt), a process may be       *)
(* killed, or the machine may lose power.  Contents are opaque values; a   *)
(* file whose bytes are not exactly one of them is Torn.                   *)
(***************************************************************************)
EXTENDS Naturals, Sequences

CONSTANTS
    Threads, Procs, ProcOf,     \* ProcOf[t]: the process thread t belongs to
    Paths,                      \* relative artifact paths
    RefusedPaths,               \* paths validate_relative_path refuses
    Fold,                       \* Fold[p]: p.casefold()
    Files, FileOf,              \* FileOf[p]: the file p names on this filesystem
    Dirs, Root, DirOf,          \* DirOf[f]: the directory that holds the file
    Links,                      \* files that are symbolic links
    Contents, Absent, Torn,
    Jobs,                       \* calls: [items, create_root, create_dirs, skip_identical]
    None,                       \* no thread, no lock
    MaxCalls, MaxCrashes        \* bounds of the model

Items == [path : Paths, data : Contents]

JobSpace == [items : Seq(Items) \ {<<>>}, create_root : BOOLEAN,
             create_dirs : BOOLEAN, skip_identical : BOOLEAN]

ASSUME ThreadAssumption ==
    /\ ProcOf \in [Threads -> Procs]
    /\ None \notin Threads
ASSUME FileAssumption ==
    /\ FileOf \in [Paths -> Files]
    /\ DirOf \in [Files -> Dirs]
    /\ Root \in Dirs
    /\ RefusedPaths \subseteq Paths
    /\ \A p, q \in Paths : FileOf[p] = FileOf[q] => Fold[p] = Fold[q]
ASSUME ContentAssumption ==
    /\ Absent \notin Contents
    /\ Torn \notin Contents \cup {Absent}
ASSUME JobAssumption ==
    /\ Jobs \subseteq JobSpace
    /\ MaxCalls \in Nat
    /\ MaxCrashes \in Nat

VARIABLES
    \* the filesystem
    content,      \* content[f]: what a reader of the file gets
    possible,     \* versions of f a power loss may leave behind
    dirs,         \* directories that exist
    debris,       \* directories holding a temporary file nobody will remove
    \* the module-level lock table of each process
    lockTable,    \* _LOCKS: path |-> the thread whose lock object is stored
    holder,       \* holder[c][p]: who holds the lock c created for p
    \* the local state of each thread
    pc, job, idx, lk, temp, exc,
    result,       \* outcome of the current write_bytes
    written,      \* the list write_outputs builds: TRUE for changed
    \* history and bounds
    last,         \* the thread that last replaced a file
    alone,        \* no other thread has replaced any file since the call began
    same,         \* every artifact of the call was identical when it began
    calls, crashes

fsVars     == <<content, possible, dirs, debris>>
lockVars   == <<lockTable, holder>>
callVars   == <<job, idx, lk, written>>
histVars   == <<last, alone, same, calls, crashes>>
vars == <<content, possible, dirs, debris, lockTable, holder, pc, job, idx, lk,
          temp, exc, result, written, last, alone, same, calls, crashes>>

Resting == {"idle", "returned", "raised"}
\* Inside `with _target_lock(target)'.
Critical == {"check", "mkstemp", "fdopen", "write", "fsync", "replace",
             "cleanup", "release"}
Before   == {"root", "sub", "getlock", "acquire"}
\* Between mkstemp and the finally clause of _atomic_replace.
Replacing == {"fdopen", "write", "fsync", "replace", "cleanup"}

Item(t) == job[t].items[idx[t]]
Path(t) == Item(t).path
Data(t) == Item(t).data
File(t) == FileOf[Path(t)]

NoJob == [items |-> <<>>, create_root |-> FALSE, create_dirs |-> FALSE,
          skip_identical |-> FALSE]

TypeOK ==
    /\ content \in [Files -> Contents \cup {Absent, Torn}]
    /\ possible \in [Files -> SUBSET (Contents \cup {Absent, Torn})]
    /\ dirs \subseteq Dirs
    /\ debris \subseteq Dirs
    /\ lockTable \in [Procs -> [Paths -> Threads \cup {None}]]
    /\ holder \in [Threads -> [Paths -> Threads \cup {None}]]
    /\ pc \in [Threads -> Resting \cup Before \cup Critical]
    /\ job \in [Threads -> Jobs \cup {NoJob}]
    /\ idx \in [Threads -> Nat \ {0}]
    /\ \A t \in Threads : pc[t] \notin Resting => idx[t] <= Len(job[t].items)
    /\ lk \in [Threads -> Threads \cup {None}]
    /\ temp \in [Threads -> {"none", "empty", "partial", "flushed", "synced"}]
    /\ exc \in [Threads -> BOOLEAN]
    /\ result \in [Threads -> {"none", "changed", "unchanged"}]
    /\ written \in [Threads -> Seq(BOOLEAN)]
    /\ last \in [Files -> Threads \cup {None}]
    /\ alone \in [Threads -> BOOLEAN]
    /\ same \in [Threads -> BOOLEAN]
    /\ calls \in [Threads -> Nat]
    /\ crashes \in Nat

Init ==
    /\ content \in [Files -> Contents \cup {Absent}]
    /\ possible = [f \in Files |-> {content[f]}]
    /\ dirs \in SUBSET Dirs
    /\ dirs # {} => Root \in dirs
    /\ \A f \in Files : content[f] # Absent => DirOf[f] \in dirs
    /\ debris = {}
    /\ lockTable = [x \in Procs |-> [p \in Paths |-> None]]
    /\ holder = [t \in Threads |-> [p \in Paths |-> None]]
    /\ pc = [t \in Threads |-> "idle"]
    /\ job = [t \in Threads |-> NoJob]
    /\ idx = [t \in Threads |-> 1]
    /\ lk = [t \in Threads |-> None]
    /\ temp = [t \in Threads |-> "none"]
    /\ exc = [t \in Threads |-> FALSE]
    /\ result = [t \in Threads |-> "none"]
    /\ written = [t \in Threads |-> <<>>]
    /\ last = [f \in Files |-> None]
    /\ alone = [t \in Threads |-> FALSE]
    /\ same = [t \in Threads |-> FALSE]
    /\ calls = [t \in Threads |-> 0]
    /\ crashes = 0

Goto(t, to) == pc' = [pc EXCEPT ![t] = to]
Raise(t) == exc' = [exc EXCEPT ![t] = TRUE]

\* Mutant of Plannable: only equal paths are refused, not case-only clashes.
Plannable_NoCasefold(items) ==
    /\ \A i \in 1..Len(items) : items[i].path \notin RefusedPaths
    /\ \A i, j \in 1..Len(items) : i # j => items[i].path # items[j].path

(***************************************************************************)
(* plan_outputs: every path is valid and no two artifacts of one bundle    *)
(* have paths that are equal or differ only by case.  (write_text is the   *)
(* same call with one item, to which only the first conjunct applies.)     *)
(***************************************************************************)
Plannable(items) ==
    /\ \A i \in 1..Len(items) : items[i].path \notin RefusedPaths
    /\ \A i, j \in 1..Len(items) :
          i # j => Fold[items[i].path] # Fold[items[j].path]

\* write_outputs: the policy and the whole plan are checked before any file
\* is touched; a refused plan ends the call.
StartCall(t) ==
    /\ pc[t] \in Resting
    /\ calls[t] < MaxCalls
    /\ calls' = [calls EXCEPT ![t] = @ + 1]
    /\ \E j \in Jobs :
          /\ job' = [job EXCEPT ![t] = j]
          /\ Goto(t, IF Plannable(j.items) THEN "root" ELSE "raised")
          /\ same' = [same EXCEPT ![t] = \A i \in 1..Len(j.items) :
                         content[FileOf[j.items[i].path]] = j.items[i].data]
    /\ idx' = [idx EXCEPT ![t] = 1]
    /\ written' = [written EXCEPT ![t] = <<>>]
    /\ exc' = [exc EXCEPT ![t] = FALSE]
    /\ result' = [result EXCEPT ![t] = "none"]
    /\ alone' = [alone EXCEPT ![t] = TRUE]
    /\ UNCHANGED <<fsVars, lockVars, lk, temp, last, crashes>>

\* write_bytes: os.makedirs(real_root) when create_root.
MakeRoot(t) ==
    /\ pc[t] = "root"
    /\ \/ /\ dirs' = IF job[t].create_root THEN dirs \cup {Root} ELSE dirs
          /\ Goto(t, "sub")
       \/ /\ job[t].create_root
          /\ Goto(t, "raised")
          /\ UNCHANGED dirs
    /\ UNCHANGED <<content, possible, debris, lockVars, callVars, temp, exc,
                   result, histVars>>

\* Mutant of MakeSub: the containment check is forgotten.
MakeSub_NoLinkCheck(t) ==
    /\ pc[t] = "sub"
    /\ dirs' = IF job[t].create_dirs /\ DirOf[File(t)] # Root
               THEN dirs \cup {Root, DirOf[File(t)]} ELSE dirs
    /\ Goto(t, "getlock")
    /\ UNCHANGED <<content, possible, debris, lockVars, callVars, temp, exc,
                   result, histVars>>

\* os.makedirs of the sub-directory, which creates its missing ancestors as
\* well, then the containment check, which refuses a symbolic link.
MakeSub(t) ==
    /\ pc[t] = "sub"
    /\ LET nested == job[t].create_dirs /\ DirOf[File(t)] # Root
       IN  \/ /\ dirs' = IF nested THEN dirs \cup {Root, DirOf[File(t)]} ELSE dirs
              /\ Goto(t, IF File(t) \in Links THEN "raised" ELSE "getlock")
           \/ /\ nested
              /\ Goto(t, "raised")
              /\ UNCHANGED dirs
    /\ UNCHANGED <<content, possible, debris, lockVars, callVars, temp, exc,
                   result, histVars>>

\* Mutant of LockObject: a lock per call instead of a lock per target.
LockObject_PerCall(t) == t

\* The lock object thread t is given for its target: the one in the table, or
\* a new one, created by t.
LockObject(t) ==
    IF lockTable[ProcOf[t]][Path(t)] = None THEN t
    ELSE lockTable[ProcOf[t]][Path(t)]

\* _target_lock: get-or-create, atomic because of _LOCKS_GUARD.
GetLock(t) ==
    /\ pc[t] = "getlock"
    /\ lk' = [lk EXCEPT ![t] = LockObject(t)]
    /\ lockTable' = [lockTable EXCEPT ![ProcOf[t]][Path(t)] = LockObject(t)]
    /\ Goto(t, "acquire")
    /\ UNCHANGED <<fsVars, holder, job, idx, written, temp, exc, result, histVars>>

\* Entering the with block.
Acquire(t) ==
    /\ pc[t] = "acquire"
    /\ holder[lk[t]][Path(t)] = None
    /\ holder' = [holder EXCEPT ![lk[t]][Path(t)] = t]
    /\ Goto(t, "check")
    /\ UNCHANGED <<fsVars, lockTable, callVars, temp, exc, result, histVars>>

\* Mutant of CheckIdentical: a file that exists is taken for identical.
CheckIdentical_ExistsOnly(t) ==
    /\ pc[t] = "check"
    /\ IF job[t].skip_identical /\ content[File(t)] # Absent
       THEN /\ result' = [result EXCEPT ![t] = "unchanged"]
            /\ Goto(t, "release")
       ELSE Goto(t, "mkstemp") /\ UNCHANGED result
    /\ UNCHANGED <<fsVars, lockVars, callVars, temp, exc, histVars>>

\* Mutant of CheckIdentical: the comparison is never made.
CheckIdentical_Never(t) ==
    /\ pc[t] = "check"
    /\ Goto(t, "mkstemp")
    /\ UNCHANGED <<fsVars, lockVars, callVars, temp, exc, result, histVars>>

\* skip_identical: compare with the file on disk.  One descriptor is read, so
\* the comparison is with one version; an unreadable file counts as different.
CheckIdentical(t) ==
    /\ pc[t] = "check"
    /\ \/ /\ job[t].skip_identical
          /\ content[File(t)] = Data(t)
          /\ result' = [result EXCEPT ![t] = "unchanged"]
          /\ Goto(t, "release")
          /\ UNCHANGED same
       \/ /\ job[t].skip_identical => content[File(t)] # Data(t)
          /\ Goto(t, "mkstemp")
          /\ UNCHANGED <<result, same>>
       \/ /\ job[t].skip_identical        \* OSError while reading
          /\ content[File(t)] # Absent
          /\ Goto(t, "mkstemp")
          /\ same' = [same EXCEPT ![t] = FALSE]
          /\ UNCHANGED result
    /\ UNCHANGED <<fsVars, lockVars, callVars, temp, exc, last, alone, calls,
                   crashes>>

\* tempfile.mkstemp in the destination directory.
MkStemp(t) ==
    /\ pc[t] = "mkstemp"
    /\ \/ /\ DirOf[File(t)] \in dirs
          /\ temp' = [temp EXCEPT ![t] = "empty"]
          /\ Goto(t, "fdopen")
          /\ UNCHANGED exc
       \/ /\ Raise(t)
          /\ Goto(t, "release")
          /\ UNCHANGED temp
    /\ UNCHANGED <<fsVars, lockVars, callVars, result, histVars>>

\* os.fdopen of the descriptor.
FdOpen(t) ==
    /\ pc[t] = "fdopen"
    /\ \/ Goto(t, "write") /\ UNCHANGED exc
       \/ Goto(t, "cleanup") /\ Raise(t)
    /\ UNCHANGED <<fsVars, lockVars, callVars, temp, result, histVars>>

\* Mutant of WriteTemp: a failed write leaves without the finally clause.
WriteTemp_NoFinally(t) ==
    /\ pc[t] = "write"
    /\ \/ /\ temp' = [temp EXCEPT ![t] = "flushed"]
          /\ Goto(t, "fsync")
          /\ UNCHANGED exc
       \/ /\ temp' = [temp EXCEPT ![t] = "partial"]
          /\ Goto(t, "release")
          /\ Raise(t)
    /\ UNCHANGED <<fsVars, lockVars, callVars, result, histVars>>

\* handle.write and handle.flush: all bytes reach the kernel, or an error
\* leaves a prefix.
WriteTemp(t) ==
    /\ pc[t] = "write"
    /\ \/ /\ temp' = [temp EXCEPT ![t] = "flushed"]
          /\ Goto(t, "fsync")
          /\ UNCHANGED exc
       \/ /\ temp' = [temp EXCEPT ![t] = "partial"]
          /\ Goto(t, "cleanup")
          /\ Raise(t)
    /\ UNCHANGED <<fsVars, lockVars, callVars, result, histVars>>

\* Mutant of FsyncTemp: os.fsync is left out.
FsyncTemp_Skipped(t) ==
    /\ pc[t] = "fsync"
    /\ Goto(t, "replace")
    /\ UNCHANGED <<fsVars, lockVars, callVars, temp, exc, result, histVars>>

\* os.fsync, and the close whose errors are swallowed.
FsyncTemp(t) ==
    /\ pc[t] = "fsync"
    /\ \/ /\ temp' = [temp EXCEPT ![t] = "synced"]
          /\ Goto(t, "replace")
          /\ UNCHANGED exc
       \/ /\ Goto(t, "cleanup")
          /\ Raise(t)
          /\ UNCHANGED temp
    /\ UNCHANGED <<fsVars, lockVars, callVars, result, histVars>>

\* What the destination holds once t's temporary file is renamed onto it, and
\* what a power loss may make of it.
Moved(t) == IF temp[t] \in {"flushed", "synced"} THEN Data(t) ELSE Torn
AfterPowerLoss(t) == {Moved(t)} \cup (IF temp[t] = "synced" THEN {} ELSE {Torn})

\* Mutant of ReplaceTarget: an error of os.replace is swallowed.
ReplaceTarget_Swallow(t) ==
    /\ pc[t] = "replace"
    /\ Goto(t, "cleanup")
    /\ \/ /\ content' = [content EXCEPT ![File(t)] = Moved(t)]
          /\ possible' = [possible EXCEPT ![File(t)] = @ \cup AfterPowerLoss(t)]
          /\ temp' = [temp EXCEPT ![t] = "none"]
          /\ result' = [result EXCEPT ![t] = "changed"]
          /\ last' = [last EXCEPT ![File(t)] = t]
          /\ alone' = [u \in Threads |-> alone[u] /\ u = t]
       \/ UNCHANGED <<content, possible, temp, result, last, alone>>
    /\ UNCHANGED <<dirs, debris, lockVars, callVars, exc, same, calls, crashes>>

\* os.replace(temp_path, target); temp_path = None.
ReplaceTarget(t) ==
    /\ pc[t] = "replace"
    /\ Goto(t, "cleanup")
    /\ \/ /\ content' = [content EXCEPT ![File(t)] = Moved(t)]
          /\ possible' = [possible EXCEPT ![File(t)] = @ \cup AfterPowerLoss(t)]
          /\ temp' = [temp EXCEPT ![t] = "none"]
          /\ result' = [result EXCEPT ![t] = "changed"]
          /\ last' = [last EXCEPT ![File(t)] = t]
          /\ alone' = [u \in Threads |-> alone[u] /\ u = t]
          /\ UNCHANGED exc
       \/ /\ Raise(t)
          /\ UNCHANGED <<content, possible, temp, result, last, alone>>
    /\ UNCHANGED <<dirs, debris, lockVars, callVars, same, calls, crashes>>

\* The finally clause: unlink the temporary file unless it was moved; an
\* unlink that fails is ignored.
Cleanup(t) ==
    /\ pc[t] = "cleanup"
    /\ temp' = [temp EXCEPT ![t] = "none"]
    /\ \/ UNCHANGED debris
       \/ /\ temp[t] # "none"
          /\ debris' = debris \cup {DirOf[File(t)]}
    /\ Goto(t, "release")
    /\ UNCHANGED <<content, possible, dirs, lockVars, callVars, exc, result,
                   histVars>>

\* Mutant of Release: the loop runs past the last artifact.
Release_PastEnd(t) ==
    /\ pc[t] = "release"
    /\ holder' = [holder EXCEPT ![lk[t]][Path(t)] = None]
    /\ lk' = [lk EXCEPT ![t] = None]
    /\ written' = [written EXCEPT ![t] = Append(@, result[t] = "changed")]
    /\ Goto(t, IF idx[t] > Len(job[t].items) THEN "returned" ELSE "root")
    /\ idx' = [idx EXCEPT ![t] = @ + 1]
    /\ result' = [result EXCEPT ![t] = "none"]
    /\ UNCHANGED <<fsVars, lockTable, job, temp, exc, histVars>>

\* Mutant of Release: an exception leaves the lock held.
Release_LockKept(t) ==
    /\ pc[t] = "release"
    /\ holder' = IF exc[t] THEN holder
                 ELSE [holder EXCEPT ![lk[t]][Path(t)] = None]
    /\ lk' = [lk EXCEPT ![t] = None]
    /\ written' = [written EXCEPT ![t] = Append(@, result[t] = "changed")]
    /\ Goto(t, IF exc[t] THEN "raised" ELSE "returned")
    /\ UNCHANGED <<fsVars, lockTable, job, idx, temp, exc, result, histVars>>

\* Leaving the with block.  An exception ends write_outputs; otherwise the
\* outcome is recorded and the next artifact, if any, is written.
Release(t) ==
    /\ pc[t] = "release"
    /\ holder' = [holder EXCEPT ![lk[t]][Path(t)] = None]
    /\ lk' = [lk EXCEPT ![t] = None]
    /\ \/ /\ exc[t]
          /\ Goto(t, "raised")
          /\ UNCHANGED <<idx, written, result>>
       \/ /\ ~exc[t]
          /\ written' = [written EXCEPT ![t] = Append(@, result[t] = "changed")]
          /\ IF idx[t] = Len(job[t].items)
             THEN Goto(t, "returned") /\ UNCHANGED <<idx, result>>
             ELSE /\ Goto(t, "root")
                  /\ idx' = [idx EXCEPT ![t] = @ + 1]
                  /\ result' = [result EXCEPT ![t] = "none"]
    /\ UNCHANGED <<fsVars, lockTable, job, temp, exc, histVars>>

\* What a running thread does next by itself.
ThreadStep(t) ==
    \/ MakeRoot(t) \/ MakeSub(t) \/ GetLock(t) \/ Acquire(t)
    \/ CheckIdentical(t) \/ MkStemp(t) \/ FdOpen(t) \/ WriteTemp(t)
    \/ FsyncTemp(t) \/ ReplaceTarget(t) \/ Cleanup(t) \/ Release(t)

\* KeyboardInterrupt.  Outside the lock it ends the call; inside it the
\* context manager and the finally clauses still run, except that a temporary
\* file is forgotten when the interrupt comes before the try statement that
\* owns it, or in the middle of the cleanup.
Interrupt(t) ==
    /\ crashes < MaxCrashes
    /\ crashes' = crashes + 1
    /\ \/ /\ pc[t] \in Before
          /\ Goto(t, "raised")
          /\ lk' = [lk EXCEPT ![t] = None]
          /\ UNCHANGED <<temp, exc, debris>>
       \/ /\ pc[t] \in {"check", "mkstemp"}
          /\ Goto(t, "release")
          /\ Raise(t)
          /\ UNCHANGED <<lk, temp, debris>>
       \/ /\ pc[t] \in Replacing
          /\ Goto(t, "cleanup")
          /\ Raise(t)
          /\ UNCHANGED <<lk, temp, debris>>
       \/ /\ pc[t] \in {"fdopen", "cleanup"}
          /\ temp[t] # "none"
          /\ debris' = debris \cup {DirOf[File(t)]}
          /\ temp' = [temp EXCEPT ![t] = "none"]
          /\ Goto(t, "release")
          /\ Raise(t)
          /\ UNCHANGED lk
    /\ UNCHANGED <<content, possible, dirs, lockVars, job, idx, written, result,
                   last, alone, same, calls>>

\* The threads of D disappear: no finally clause runs, their temporary files
\* stay, and the lock tables of their processes vanish with the memory.
Vanish(D) ==
    /\ debris' = debris \cup {DirOf[File(t)] : t \in {u \in D : temp[u] # "none"}}
    /\ pc' = [t \in Threads |-> IF t \in D THEN "idle" ELSE pc[t]]
    /\ lk' = [t \in Threads |-> IF t \in D THEN None ELSE lk[t]]
    /\ temp' = [t \in Threads |-> IF t \in D THEN "none" ELSE temp[t]]
    /\ exc' = [t \in Threads |-> IF t \in D THEN FALSE ELSE exc[t]]
    /\ result' = [t \in Threads |-> IF t \in D THEN "none" ELSE result[t]]
    /\ lockTable' = [x \in Procs |-> IF \E t \in D : ProcOf[t] = x
                                     THEN [p \in Paths |-> None] ELSE lockTable[x]]
    /\ holder' = [t \in Threads |-> IF t \in D THEN [p \in Paths |-> None]
                                    ELSE holder[t]]
    /\ UNCHANGED <<dirs, job, idx, written, same, calls>>

\* One process is killed; the kernel keeps what it was given.
Kill(x) ==
    /\ crashes < MaxCrashes
    /\ crashes' = crashes + 1
    /\ Vanish({t \in Threads : ProcOf[t] = x})
    /\ UNCHANGED <<content, possible, last, alone>>

\* The machine loses power: each file is one of the versions the disk may
\* hold, since the rename itself is never fsynced.
PowerLoss ==
    /\ crashes < MaxCrashes
    /\ crashes' = crashes + 1
    /\ Vanish(Threads)
    /\ content' \in [Files -> Contents \cup {Absent, Torn}]
    /\ \A f \in Files : content'[f] \in possible[f]
    /\ possible' = [f \in Files |-> {content'[f]}]
    /\ last' = [f \in Files |-> None]
    /\ alone' = [t \in Threads |-> FALSE]

Next ==
    \/ \E t \in Threads : StartCall(t) \/ ThreadStep(t) \/ Interrupt(t)
    \/ \E x \in Procs : Kill(x)
    \/ PowerLoss

Spec == Init /\ [][Next]_vars

\* A running thread is scheduled again and filesystem calls return.
FairSpec == Spec /\ \A t \in Threads : WF_vars(ThreadStep(t))

-----------------------------------------------------------------------------
(* Properties *)

\* A reader never sees a half-written artifact, and no power loss can uncover
\* one (the ATOMICITY contract; the order write, flush, fsync, replace).
NeverTorn ==
    \A f \in Files : content[f] # Torn /\ Torn \notin possible[f]

\* Two threads of one process are never both inside the critical section of
\* one target (the comment above _LOCKS).
TargetExclusion ==
    \A t, u \in Threads :
        /\ t # u
        /\ ProcOf[t] = ProcOf[u]
        /\ pc[t] \in Critical
        /\ pc[u] \in Critical
        => Path(t) # Path(u)

\* A thread outside _atomic_replace owns no temporary file, whichever of its
\* steps failed or was interrupted.
NoTempOutsideReplace ==
    \A t \in Threads : temp[t] # "none" => pc[t] \in Replacing

\* When write_bytes is about to answer, the file holds the payload unless a
\* writer of another process, or of another path naming the same file, got in
\* between (last writer wins): no thread of this process can come between the
\* comparison or the replace and the answer.
AnswerIsTrue ==
    \A t \in Threads :
        /\ pc[t] = "release"
        /\ ~exc[t]
        => \/ content[File(t)] = Data(t)
           \/ /\ last[File(t)] \in Threads \ {t}
              /\ \/ ProcOf[last[File(t)]] # ProcOf[t]
                 \/ \E p \in Paths \ {Path(t)} : FileOf[p] = File(t)

\* A bundle that returned, with nobody else writing meanwhile, is on disk
\* whole: no artifact was lost to another of the same bundle (ALIAS SAFETY).
BundleComplete ==
    \A t \in Threads :
        pc[t] = "returned" /\ alone[t] =>
            /\ Len(written[t]) = Len(job[t].items)
            /\ \A i \in 1..Len(job[t].items) :
                  content[FileOf[job[t].items[i].path]] = job[t].items[i].data

\* Writing a bundle that is already on disk with skip_identical rewrites
\* nothing (the IDEMPOTENCE contract).
IdempotentRun ==
    \A t \in Threads :
        alone[t] /\ same[t] /\ job[t].skip_identical =>
            \A i \in 1..Len(written[t]) : ~written[t][i]

\* A thread that reaches os.replace has a target that passed every check made
\* before the lock was taken: the path was accepted, the file is no symbolic
\* link and its directory exists.
ReplaceIsChecked ==
    \A t \in Threads :
        pc[t] = "replace" => /\ Path(t) \notin RefusedPaths
                             /\ File(t) \notin Links
                             /\ DirOf[File(t)] \in dirs

\* Every call ends: no thread waits forever for a target lock.
CallsEnd ==
    \A t \in Threads : pc[t] \notin Resting ~> pc[t] \in Resting

\* The request a thread has in flight, as ArtifactStore sees it.
StoreOp(t) ==
    IF pc[t] \in Resting THEN [st |-> "none"]
    ELSE [st   |-> IF result[t] = "none" THEN "pending" ELSE "applied",
          file |-> File(t),
          data |-> Data(t)]

\* The writer implements ArtifactStore: request, atomic effect or failure.
Store == INSTANCE ArtifactStore WITH
    store <- content,
    past <- possible,
    op <- [t \in Threads |-> StoreOp(t)]

StoreSpec == Store!StoreSpec
==============================================================================
