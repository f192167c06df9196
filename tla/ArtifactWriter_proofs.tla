------------------------- MODULE ArtifactWriter_proofs -------------------------
(***************************************************************************)
(* Theorems about ArtifactWriter, for any number of threads, processes,    *)
(* paths and contents.                                                     *)
(*                                                                         *)
(*   Typing      types, together with the fact that only a thread inside   *)
(*               _atomic_replace owns a temporary file (a killed thread    *)
(*               leaves it in the directory of its target).                *)
(*   Locking     the lock table gives every thread of a process the same   *)
(*               lock for a path, so a target has one writer per process.  *)
(*   Integrity   only a synced temporary file reaches os.replace, so no    *)
(*               file is ever torn.                                        *)
(*   Checked     what a call has established about its target by the time  *)
(*               it asks for the lock, and by the time it has a temporary  *)
(*               file.                                                     *)
(*   Answered, Undisturbed, Accomplished                                   *)
(*               what the outcome of one artifact, an idempotent call and  *)
(*               a finished bundle say about the files on disk.            *)
(*   LocksAreServed, CallsAdvance                                          *)
(*               no lock is left behind, and no step sends a call back.    *)
(***************************************************************************)
EXTENDS ArtifactWriter, TLAPS

Typing == TypeOK /\ NoTempOutsideReplace

\* The three forms of update the solvers need to meet outside their context:
\* a set that grows, a flag that is cleared, and a recorded outcome.
LEMMA GrowAt ==
    ASSUME NEW S, NEW V, NEW F \in [S -> SUBSET V], NEW x \in S, NEW A \in SUBSET V
    PROVE  [F EXCEPT ![x] = @ \cup A] \in [S -> SUBSET V]
OBVIOUS

\* A function into BOOLEAN cut down to one argument is one still.
LEMMA KeepOnly ==
    ASSUME NEW S, NEW F \in [S -> BOOLEAN], NEW t
    PROVE  [u \in S |-> F[u] /\ u = t] \in [S -> BOOLEAN]
OBVIOUS

\* Adding a flag to what one thread has written keeps the type.
LEMMA RecordFlag ==
    ASSUME NEW S, NEW F \in [S -> Seq(BOOLEAN)], NEW t \in S, NEW b \in BOOLEAN
    PROVE  [F EXCEPT ![t] = Append(@, b)] \in [S -> Seq(BOOLEAN)]
<1>1. F[t] \in Seq(BOOLEAN)
  OBVIOUS
<1>2. Append(F[t], b) \in Seq(BOOLEAN)
  BY <1>1
<1> QED
  BY <1>2

\* A running call is at an item of a job.
LEMMA ItemType ==
    ASSUME TypeOK, NEW t \in Threads, pc[t] \notin Resting
    PROVE  /\ Item(t) \in Items
           /\ Path(t) \in Paths
           /\ Data(t) \in Contents
           /\ File(t) \in Files
           /\ DirOf[File(t)] \in Dirs
<1>1. job[t] \in Jobs \cup {NoJob} /\ idx[t] \in 1..Len(job[t].items)
  BY DEF TypeOK, NoJob
<1>2. job[t] \in Jobs
  BY <1>1 DEF NoJob
<1>3. job[t].items \in Seq(Items)
  BY <1>2, JobAssumption DEF JobSpace
<1>4. Item(t) \in Items
  BY <1>1, <1>3 DEF Item
<1> QED
  BY <1>4, FileAssumption DEF Path, Data, File, Items

\* Killed threads leave their temporary files in existing directories.
LEMMA VanishTyping ==
    ASSUME Typing, NEW D \in SUBSET Threads, Vanish(D),
           content' \in [Files -> Contents \cup {Absent, Torn}],
           possible' \in [Files -> SUBSET (Contents \cup {Absent, Torn})],
           last' \in [Files -> Threads \cup {None}],
           alone' \in [Threads -> BOOLEAN],
           crashes' \in Nat
    PROVE  Typing'
<1>1. \A t \in D : temp[t] # "none" => DirOf[File(t)] \in Dirs
  BY ItemType DEF Typing, NoTempOutsideReplace, Replacing, Resting
<1>2. debris' \subseteq Dirs
  BY <1>1 DEF Vanish, Typing, TypeOK
<1>3. TypeOK'
  BY <1>2 DEF Typing, TypeOK, Vanish, Resting
<1>4. NoTempOutsideReplace'
  BY DEF Typing, TypeOK, NoTempOutsideReplace, Vanish
<1> QED
  BY <1>3, <1>4 DEF Typing

\* Every step of the writer keeps the types.
LEMMA TypingStep == Typing /\ [Next]_vars => Typing'
<1> SUFFICES ASSUME Typing, [Next]_vars PROVE Typing'
  OBVIOUS
<1>15. ASSUME NEW x \in Procs, Kill(x) PROVE Typing'
  <2>1. crashes' \in Nat
    BY <1>15 DEF Kill, Typing, TypeOK
  <2>2. /\ content' \in [Files -> Contents \cup {Absent, Torn}]
        /\ possible' \in [Files -> SUBSET (Contents \cup {Absent, Torn})]
        /\ last' \in [Files -> Threads \cup {None}]
        /\ alone' \in [Threads -> BOOLEAN]
    BY <1>15 DEF Kill, Typing, TypeOK
  <2>3. Vanish({t \in Threads : ProcOf[t] = x})
    BY <1>15 DEF Kill
  <2> QED
    BY <2>1, <2>2, <2>3, VanishTyping
<1>16. CASE PowerLoss
  <2>1. crashes' \in Nat
    BY <1>16 DEF PowerLoss, Typing, TypeOK
  <2>2. /\ content' \in [Files -> Contents \cup {Absent, Torn}]
        /\ possible' \in [Files -> SUBSET (Contents \cup {Absent, Torn})]
        /\ last' \in [Files -> Threads \cup {None}]
        /\ alone' \in [Threads -> BOOLEAN]
    BY <1>16 DEF PowerLoss
  <2>3. Vanish(Threads)
    BY <1>16 DEF PowerLoss
  <2> QED
    BY <2>1, <2>2, <2>3, VanishTyping
<1> USE DEF Typing, TypeOK, NoTempOutsideReplace, Resting, Before, Critical,
            Replacing, Goto, Raise, fsVars, lockVars, callVars, histVars
<1>1. ASSUME NEW t \in Threads, StartCall(t) PROVE Typing'
  <2>1. PICK j \in Jobs :
           /\ job' = [job EXCEPT ![t] = j]
           /\ Goto(t, IF Plannable(j.items) THEN "root" ELSE "raised")
           /\ same' = [same EXCEPT ![t] = \A i \in 1..Len(j.items) :
                          content[FileOf[j.items[i].path]] = j.items[i].data]
    BY <1>1 DEF StartCall
  <2>2. Len(j.items) \in Nat \ {0}
    BY JobAssumption DEF JobSpace
  <2>3. same' \in [Threads -> BOOLEAN]
    BY <2>1
  <2> QED
    BY <1>1, <2>1, <2>2, <2>3, SMTT(30) DEF StartCall
<1>2. ASSUME NEW t \in Threads, MakeRoot(t) PROVE Typing'
  BY <1>2, FileAssumption, ZenonT(60) DEF MakeRoot
<1>3. ASSUME NEW t \in Threads, MakeSub(t) PROVE Typing'
  <2>1. DirOf[File(t)] \in Dirs
    BY <1>3, ItemType DEF MakeSub
  <2> QED
    BY <1>3, <2>1, FileAssumption, ZenonT(60) DEF MakeSub
<1>4. ASSUME NEW t \in Threads, GetLock(t) PROVE Typing'
  <2>1. Path(t) \in Paths /\ ProcOf[t] \in Procs
    BY <1>4, ItemType, ThreadAssumption DEF GetLock
  <2>2. LockObject(t) \in Threads
    BY <2>1 DEF LockObject
  <2> QED
    BY <1>4, <2>1, <2>2 DEF GetLock
<1>5. ASSUME NEW t \in Threads, Acquire(t) PROVE Typing'
  BY <1>5, ItemType DEF Acquire
<1>6. ASSUME NEW t \in Threads, CheckIdentical(t) PROVE Typing'
  <2>1. pc[t] = "check" /\ \E to \in {"release", "mkstemp"} : pc' = [pc EXCEPT ![t] = to]
    BY <1>6 DEF CheckIdentical
  <2>2. result' \in [Threads -> {"none", "changed", "unchanged"}]
    BY <1>6 DEF CheckIdentical
  <2>3. same' \in [Threads -> BOOLEAN]
    BY <1>6 DEF CheckIdentical
  <2> QED
    <3>1. UNCHANGED <<fsVars, lockVars, callVars, temp, exc, last, alone, calls,
                      crashes>>
      BY <1>6 DEF CheckIdentical
    <3>2. pc' \in [Threads -> Resting \cup Before \cup Critical]
      BY <2>1
    <3>3. NoTempOutsideReplace'
      BY <2>1, <3>1
    <3>4. \A u \in Threads : pc'[u] \notin Resting => idx'[u] <= Len(job'[u].items)
      BY <2>1, <3>1
    <3> QED
      BY <2>2, <2>3, <3>1, <3>2, <3>3, <3>4
<1>7. ASSUME NEW t \in Threads, MkStemp(t) PROVE Typing'
  BY <1>7, ZenonT(60) DEF MkStemp
<1>8. ASSUME NEW t \in Threads, FdOpen(t) PROVE Typing'
  BY <1>8, ZenonT(60) DEF FdOpen
<1>9. ASSUME NEW t \in Threads, WriteTemp(t) PROVE Typing'
  BY <1>9, ZenonT(60) DEF WriteTemp
<1>10. ASSUME NEW t \in Threads, FsyncTemp(t) PROVE Typing'
  BY <1>10, ZenonT(60) DEF FsyncTemp
<1>11. ASSUME NEW t \in Threads, ReplaceTarget(t) PROVE Typing'
  <2>1. File(t) \in Files /\ Data(t) \in Contents
    BY <1>11, ItemType DEF ReplaceTarget
  <2>2. Moved(t) \in Contents \cup {Torn}
    BY <2>1 DEF Moved
  <2>3. AfterPowerLoss(t) \subseteq Contents \cup {Torn}
    BY <2>2 DEF AfterPowerLoss
  <2> QED
    <3>1. \/ UNCHANGED <<content, possible>>
          \/ /\ content' = [content EXCEPT ![File(t)] = Moved(t)]
             /\ possible' = [possible EXCEPT ![File(t)] = @ \cup AfterPowerLoss(t)]
      BY <1>11 DEF ReplaceTarget
    <3>0. /\ content \in [Files -> Contents \cup {Absent, Torn}]
          /\ possible \in [Files -> SUBSET (Contents \cup {Absent, Torn})]
          /\ last \in [Files -> Threads \cup {None}]
          /\ alone \in [Threads -> BOOLEAN]
      OBVIOUS
    <3>5. content' \in [Files -> Contents \cup {Absent, Torn}]
      BY ONLY <2>1, <2>2, <3>0, <3>1
    <3>8. possible' \in [Files -> SUBSET (Contents \cup {Absent, Torn})]
      BY ONLY <2>1, <2>3, <3>0, <3>1, GrowAt
    <3>2. /\ temp' \in [Threads -> {"none", "empty", "partial", "flushed", "synced"}]
          /\ \A u \in Threads : temp'[u] # "none" => temp[u] # "none"
      BY <1>11 DEF ReplaceTarget
    <3>3. result' \in [Threads -> {"none", "changed", "unchanged"}]
      BY <1>11 DEF ReplaceTarget
    <3>10. last' \in [Files -> Threads \cup {None}]
      <4>1. last' = [last EXCEPT ![File(t)] = t] \/ last' = last
        BY <1>11 DEF ReplaceTarget
      <4> QED
        BY ONLY <2>1, <3>0, <4>1, t \in Threads
    <3>9. exc' \in [Threads -> BOOLEAN]
      <4>1. exc' = [exc EXCEPT ![t] = TRUE] \/ exc' = exc
        BY <1>11 DEF ReplaceTarget
      <4> QED
        BY <4>1
    <3>6. alone' \in [Threads -> BOOLEAN]
      <4>1. alone' = [u \in Threads |-> alone[u] /\ u = t] \/ alone' = alone
        BY <1>11 DEF ReplaceTarget
      <4> QED
        BY ONLY <3>0, <4>1, KeepOnly
    <3>7. UNCHANGED <<dirs, debris, lockVars, callVars, same, calls, crashes>>
      BY <1>11 DEF ReplaceTarget
    <3>4. pc[t] = "replace" /\ pc' = [pc EXCEPT ![t] = "cleanup"]
      BY <1>11 DEF ReplaceTarget
    <3> QED
      BY <3>2, <3>3, <3>4, <3>5, <3>6, <3>7, <3>8, <3>9, <3>10, ZenonT(60)
<1>12. ASSUME NEW t \in Threads, Cleanup(t) PROVE Typing'
  <2>1. DirOf[File(t)] \in Dirs
    BY <1>12, ItemType DEF Cleanup
  <2> QED
    BY <1>12, <2>1 DEF Cleanup
<1>13. ASSUME NEW t \in Threads, Release(t) PROVE Typing'
  <2>1. Len(job[t].items) \in Nat
    <3>1. job[t] \in Jobs \cup {NoJob}
      OBVIOUS
    <3> QED
      BY <3>1, JobAssumption DEF JobSpace, NoJob
  <2>2. CASE exc[t]
    BY <1>13, <2>2, ItemType, ZenonT(60) DEF Release
  <2>3. CASE ~exc[t]
    <3>1. written' \in [Threads -> Seq(BOOLEAN)]
      <4>1. written' = [written EXCEPT ![t] = Append(@, result[t] = "changed")]
        BY <1>13, <2>3 DEF Release
      <4>2. (result[t] = "changed") \in BOOLEAN
        OBVIOUS
      <4> QED
        BY <4>1, <4>2, RecordFlag
    <3>2. holder' \in [Threads -> [Paths -> Threads \cup {None}]]
      BY <1>13, ItemType DEF Release
    <3>3. pc[t] = "release" /\ temp[t] = "none"
      BY <1>13 DEF Release
    <3> QED
      <4>1. lk' \in [Threads -> Threads \cup {None}]
        BY <1>13 DEF Release
      <4>11. result' \in [Threads -> {"none", "changed", "unchanged"}]
        <5>1. result' = [result EXCEPT ![t] = "none"] \/ result' = result
          BY <1>13, <2>3 DEF Release
        <5> QED
          BY <5>1
      <4>10. idx' \in [Threads -> Nat \ {0}]
        <5>1. idx' = [idx EXCEPT ![t] = @ + 1] \/ idx' = idx
          BY <1>13, <2>3 DEF Release
        <5>2. idx \in [Threads -> Nat \ {0}]
          OBVIOUS
        <5> QED
          BY ONLY <5>1, <5>2
      <4>7. \E to \in {"returned", "root"} : pc' = [pc EXCEPT ![t] = to]
        BY <1>13, <2>3 DEF Release
      <4>8. pc' \in [Threads -> Resting \cup Before \cup Critical]
        BY <4>7
      <4>2. UNCHANGED <<fsVars, lockTable, job, temp, exc, histVars>>
        BY <1>13 DEF Release
      <4>3. \A u \in Threads : u # t => pc'[u] = pc[u] /\ idx'[u] = idx[u]
        BY <1>13, <2>3 DEF Release
      <4>4. pc'[t] \notin Resting => idx[t] # Len(job[t].items) /\ idx'[t] = idx[t] + 1
        BY <1>13, <2>3 DEF Release
      <4>5. idx[t] <= Len(job[t].items) /\ idx[t] \in Nat
        BY <1>13 DEF Release
      <4>6. \A u \in Threads : pc'[u] \notin Resting => idx'[u] <= Len(job'[u].items)
        <5>1. TAKE u \in Threads
        <5>2. CASE u = t
          BY <2>1, <4>2, <4>4, <4>5, <5>2
        <5>3. CASE u # t
          BY <4>2, <4>3, <5>3
        <5> QED
          BY <5>2, <5>3
      <4>9. NoTempOutsideReplace'
        BY <3>3, <4>2, <4>3
      <4> QED
        BY <3>1, <3>2, <4>1, <4>2, <4>6, <4>8, <4>9, <4>10, <4>11
  <2> QED
    BY <2>2, <2>3
<1>14. ASSUME NEW t \in Threads, Interrupt(t) PROVE Typing'
  <2>1. pc[t] \in Replacing => DirOf[File(t)] \in Dirs
    BY ItemType
  <2> QED
    <3>1. debris' \subseteq Dirs /\ exc' \in [Threads -> BOOLEAN]
      BY <1>14, <2>1 DEF Interrupt
    <3>2. /\ lk' \in [Threads -> Threads \cup {None}]
          /\ temp' \in [Threads -> {"none", "empty", "partial", "flushed", "synced"}]
          /\ \A u \in Threads : temp'[u] # "none" => temp'[u] = temp[u]
      BY <1>14 DEF Interrupt
    <3>3. /\ pc[t] \notin Resting
          /\ \/ pc' = [pc EXCEPT ![t] = "cleanup"]
             \/ /\ pc' = [pc EXCEPT ![t] = "raised"] \/ pc' = [pc EXCEPT ![t] = "release"]
                /\ temp'[t] = "none"
      BY <1>14 DEF Interrupt
    <3> QED
      <4>1. UNCHANGED <<content, possible, dirs, lockVars, job, idx, written,
                        result, last, alone, same, calls>>
        BY <1>14 DEF Interrupt
      <4>2. crashes' \in Nat
        BY <1>14 DEF Interrupt
      <4>3. pc' \in [Threads -> Resting \cup Before \cup Critical]
        <5>1. \E to \in {"cleanup", "raised", "release"} : pc' = [pc EXCEPT ![t] = to]
          BY ONLY <3>3
        <5>2. pc \in [Threads -> Resting \cup Before \cup Critical]
          OBVIOUS
        <5> QED
          BY ONLY <5>1, <5>2 DEF Resting, Before, Critical
      <4>4. NoTempOutsideReplace'
        BY <3>2, <3>3, ZenonT(60)
      <4>5. \A u \in Threads : pc'[u] \notin Resting => idx'[u] <= Len(job'[u].items)
        BY <3>3, <4>1
      <4> QED
        BY <3>1, <3>2, <4>1, <4>2, <4>3, <4>4, <4>5
<1>17. CASE UNCHANGED vars
  BY <1>17 DEF vars
<1> QED
  BY <1>1, <1>2, <1>3, <1>4, <1>5, <1>6, <1>7, <1>8, <1>9, <1>10, <1>11, <1>12,
     <1>13, <1>14, <1>15, <1>16, <1>17 DEF Next, ThreadStep

\* The writer starts with the types it keeps.
LEMMA TypingInit == Init => Typing
<1> SUFFICES ASSUME Init PROVE Typing
  OBVIOUS
<1>1. /\ content \in [Files -> Contents \cup {Absent, Torn}]
      /\ possible \in [Files -> SUBSET (Contents \cup {Absent, Torn})]
  BY DEF Init
<1> QED
  BY <1>1 DEF Init, Typing, TypeOK, NoTempOutsideReplace, Resting

\* Type correctness of hubcore/writer.py's model: every reachable state has
\* the types of TypeOK, and a running call is at one of its artifacts.
THEOREM TypeCorrect == Spec => []TypeOK
<1>1. Typing => TypeOK
  BY DEF Typing
<1> QED
  BY TypingInit, TypingStep, <1>1, PTL DEF Spec

\* Only a thread inside _atomic_replace owns a temporary file: whichever step
\* fails or is interrupted, the finally clause has removed it, or given up on
\* it, before the call leaves the target's lock.
THEOREM TemporaryFilesOwned == Spec => []NoTempOutsideReplace
<1>1. Typing => NoTempOutsideReplace
  BY DEF Typing
<1> QED
  BY TypingInit, TypingStep, <1>1, PTL DEF Spec

-----------------------------------------------------------------------------
(* The lock table.  A lock belongs to the process whose table holds it, a    *)
(* thread that has been given a lock was given the one in the table, and     *)
(* inside the with block it is that lock's holder.                           *)

LockInv ==
    /\ \A x \in Procs, p \in Paths :
          lockTable[x][p] # None => ProcOf[lockTable[x][p]] = x
    /\ \A t \in Threads : pc[t] \in {"acquire"} \cup Critical =>
          /\ lk[t] \in Threads
          /\ lockTable[ProcOf[t]][Path(t)] = lk[t]
    /\ \A t \in Threads : pc[t] \in Critical => holder[lk[t]][Path(t)] = t

\* Steps that touch no lock, and only move threads that already hold theirs,
\* keep the invariant.
LEMMA LockFrame ==
    ASSUME LockInv,
           UNCHANGED <<lockTable, holder, job, idx, lk>>,
           \A u \in Threads : pc'[u] \in Critical => pc[u] \in Critical,
           \A u \in Threads : pc'[u] = "acquire" => pc[u] = "acquire"
    PROVE  LockInv'
<1>1. \A u \in Threads : Path(u)' = Path(u)
  BY DEF Path, Item
<1> QED
  BY <1>1 DEF LockInv

\* A process that vanishes takes its own lock table and nothing else.
LEMMA LockVanish ==
    ASSUME Typing, LockInv, NEW D \in SUBSET Threads, Vanish(D),
           \A t \in D, u \in Threads : ProcOf[u] = ProcOf[t] => u \in D
    PROVE  LockInv'
<1>1. \A u \in Threads : Path(u)' = Path(u)
  BY DEF Path, Item, Vanish
<1>2. \A u \in Threads \ D : /\ lk'[u] = lk[u]
                             /\ pc'[u] = pc[u]
                             /\ lockTable'[ProcOf[u]] = lockTable[ProcOf[u]]
  BY ThreadAssumption DEF Vanish
<1>3. \A u \in D : pc'[u] = "idle"
  BY DEF Vanish
<1>4. \A x \in Procs, p \in Paths : lockTable'[x][p] \in {lockTable[x][p], None}
  BY DEF Vanish, Typing, TypeOK
<1>5. ASSUME NEW u \in Threads, pc'[u] \in {"acquire"} \cup Critical
      PROVE  /\ lk'[u] \in Threads
             /\ lockTable'[ProcOf[u]][Path(u)'] = lk'[u]
             /\ pc'[u] \in Critical => holder'[lk'[u]][Path(u)'] = u
  <2>1. u \notin D
    BY <1>3, <1>5 DEF Critical
  <2>2. pc[u] \in {"acquire"} \cup Critical /\ pc[u] = pc'[u]
    BY <1>2, <1>5, <2>1
  <2>3. lk[u] \in Threads /\ lockTable[ProcOf[u]][Path(u)] = lk[u]
    BY <2>2 DEF LockInv
  <2>4. Path(u) \in Paths /\ ProcOf[u] \in Procs
    BY <2>2, ItemType, ThreadAssumption DEF Typing, Resting, Critical
  <2>5. ProcOf[lk[u]] = ProcOf[u]
    BY <2>3, <2>4, ThreadAssumption DEF LockInv
  <2>6. lk[u] \notin D
    BY <2>1, <2>5
  <2>7. holder'[lk[u]] = holder[lk[u]]
    BY <2>3, <2>6 DEF Vanish
  <2> QED
    BY <1>1, <1>2, <2>1, <2>2, <2>3, <2>7 DEF LockInv
<1> QED
  BY <1>4, <1>5 DEF LockInv

\* The lock table keeps its meaning in every step.
LEMMA LockStep == Typing /\ LockInv /\ [Next]_vars => LockInv'
<1> SUFFICES ASSUME Typing, LockInv, [Next]_vars PROVE LockInv'
  OBVIOUS
<1>0. /\ pc \in [Threads -> Resting \cup Before \cup Critical]
      /\ lk \in [Threads -> Threads \cup {None}]
      /\ lockTable \in [Procs -> [Paths -> Threads \cup {None}]]
      /\ holder \in [Threads -> [Paths -> Threads \cup {None}]]
      /\ job \in [Threads -> Jobs \cup {NoJob}]
      /\ idx \in [Threads -> Nat \ {0}]
  BY DEF Typing, TypeOK
<1>t. \A u \in Threads : pc[u] \notin Resting =>
         Path(u) \in Paths /\ ProcOf[u] \in Procs
  BY ItemType, ThreadAssumption DEF Typing
<1>1. ASSUME NEW t \in Threads, StartCall(t) PROVE LockInv'
  <2>1. pc' = [pc EXCEPT ![t] = "root"] \/ pc' = [pc EXCEPT ![t] = "raised"]
    BY <1>1 DEF StartCall, Goto
  <2>2. \A u \in Threads \ {t} : pc'[u] = pc[u] /\ Path(u)' = Path(u)
    BY <1>0, <1>1, <2>1 DEF StartCall, Path, Item
  <2>3. pc'[t] \notin {"acquire"} \cup Critical
    BY <1>0, <2>1 DEF Critical
  <2> QED
    BY <1>1, <2>2, <2>3 DEF StartCall, LockInv, lockVars
<1>2. ASSUME NEW t \in Threads,
             \/ MakeRoot(t) \/ MakeSub(t) \/ CheckIdentical(t) \/ MkStemp(t)
             \/ FdOpen(t) \/ WriteTemp(t) \/ FsyncTemp(t) \/ ReplaceTarget(t)
             \/ Cleanup(t)
      PROVE  LockInv'
  <2>1. UNCHANGED <<lockTable, holder, job, idx, lk>>
    BY <1>2 DEF MakeRoot, MakeSub, CheckIdentical, MkStemp, FdOpen, WriteTemp,
                FsyncTemp, ReplaceTarget, Cleanup, lockVars, callVars
  <2>2. \/ /\ pc[t] \in Critical
           /\ \E to \in Critical : pc' = [pc EXCEPT ![t] = to]
        \/ \E to \in {"sub", "getlock", "raised"} : pc' = [pc EXCEPT ![t] = to]
    BY <1>2 DEF MakeRoot, MakeSub, CheckIdentical, MkStemp, FdOpen, WriteTemp,
                FsyncTemp, ReplaceTarget, Cleanup, Goto, Critical
  <2>3. \A u \in Threads : /\ pc'[u] \in Critical => pc[u] \in Critical
                           /\ pc'[u] = "acquire" => pc[u] = "acquire"
    BY <1>0, <2>2 DEF Critical
  <2> QED
    BY <2>1, <2>3, LockFrame
<1>3. ASSUME NEW t \in Threads, GetLock(t) PROVE LockInv'
  <2>1. Path(t) \in Paths /\ ProcOf[t] \in Procs /\ pc[t] = "getlock"
    BY <1>3, <1>t DEF GetLock, Resting
  <2>2. LockObject(t) \in Threads /\ ProcOf[LockObject(t)] = ProcOf[t]
    BY <1>0, <2>1 DEF LockObject, LockInv
  <2>3. \A u \in Threads : Path(u)' = Path(u)
    BY <1>3 DEF GetLock, Path, Item
  <2>4. \A x \in Procs, p \in Paths :
           lockTable'[x][p] = IF x = ProcOf[t] /\ p = Path(t)
                              THEN LockObject(t) ELSE lockTable[x][p]
    BY <1>0, <1>3 DEF GetLock
  <2>5. lockTable[ProcOf[t]][Path(t)] \in {None, LockObject(t)}
    BY DEF LockObject
  <2>6. \A u \in Threads \ {t} : lk'[u] = lk[u] /\ pc'[u] = pc[u]
    BY <1>0, <1>3 DEF GetLock, Goto
  <2>7. lk'[t] = LockObject(t) /\ pc'[t] = "acquire" /\ holder' = holder
    BY <1>0, <1>3 DEF GetLock, Goto
  <2>8. ASSUME NEW u \in Threads, pc'[u] \in {"acquire"} \cup Critical
        PROVE  /\ lk'[u] \in Threads
               /\ lockTable'[ProcOf[u]][Path(u)'] = lk'[u]
               /\ pc'[u] \in Critical => holder'[lk'[u]][Path(u)'] = u
    <3>1. CASE u = t
      BY <2>1, <2>2, <2>3, <2>4, <2>7, <3>1 DEF Critical
    <3>2. CASE u # t
      <4>1. /\ lk[u] \in Threads
            /\ lockTable[ProcOf[u]][Path(u)] = lk[u]
            /\ pc[u] \in Critical => holder[lk[u]][Path(u)] = u
        BY <2>6, <2>8, <3>2 DEF LockInv
      <4>2. Path(u) \in Paths /\ ProcOf[u] \in Procs
        BY <1>t, <2>6, <2>8, <3>2 DEF Resting, Critical
      <4> QED
        BY <2>3, <2>4, <2>5, <2>6, <2>7, <3>2, <4>1, <4>2, ThreadAssumption
    <3> QED
      BY <3>1, <3>2
  <2>9. \A x \in Procs, p \in Paths :
           lockTable'[x][p] # None => ProcOf[lockTable'[x][p]] = x
    BY <2>2, <2>4 DEF LockInv
  <2> QED
    BY <2>8, <2>9 DEF LockInv
<1>4. ASSUME NEW t \in Threads, Acquire(t) PROVE LockInv'
  <2>1. Path(t) \in Paths /\ lk[t] \in Threads /\ holder[lk[t]][Path(t)] = None
    BY <1>4, <1>t DEF Acquire, LockInv, Resting
  <2>2. \A u \in Threads : Path(u)' = Path(u)
    BY <1>4 DEF Acquire, callVars, Path, Item
  <2>3. \A c \in Threads, p \in Paths :
           holder'[c][p] = IF c = lk[t] /\ p = Path(t) THEN t ELSE holder[c][p]
    BY <1>0, <1>4 DEF Acquire
  <2>4. UNCHANGED <<lk, lockTable>>
    BY <1>4 DEF Acquire, callVars
  <2>5. \A u \in Threads \ {t} : pc'[u] = pc[u]
    BY <1>0, <1>4 DEF Acquire, Goto
  <2>6. pc[t] = "acquire" /\ pc'[t] = "check"
    BY <1>0, <1>4 DEF Acquire, Goto
  <2>7. ASSUME NEW u \in Threads, pc'[u] \in Critical
        PROVE  holder'[lk[u]][Path(u)] = u
    <3>1. CASE u = t
      BY <2>1, <2>3, <3>1
    <3>2. CASE u # t
      <4>1. holder[lk[u]][Path(u)] = u /\ lk[u] \in Threads /\ Path(u) \in Paths
        BY <1>t, <2>5, <2>7, <3>2 DEF LockInv, Resting, Critical
      <4> QED
        BY <2>1, <2>3, <4>1, ThreadAssumption
    <3> QED
      BY <3>1, <3>2
  <2>8. \A u \in Threads : pc'[u] \in {"acquire"} \cup Critical =>
           pc[u] \in {"acquire"} \cup Critical
    BY <2>5, <2>6
  <2> QED
    BY <2>2, <2>4, <2>7, <2>8 DEF LockInv
<1>5. ASSUME NEW t \in Threads, Release(t) PROVE LockInv'
  <2>1. /\ pc[t] = "release"
        /\ Path(t) \in Paths
        /\ lk[t] \in Threads
        /\ holder[lk[t]][Path(t)] = t
    BY <1>5, <1>t DEF Release, LockInv, Resting, Critical
  <2>2. \E to \in {"raised", "returned", "root"} : pc' = [pc EXCEPT ![t] = to]
    BY <1>5 DEF Release, Goto
  <2>3. \A u \in Threads \ {t} : /\ pc'[u] = pc[u]
                                 /\ lk'[u] = lk[u]
                                 /\ Path(u)' = Path(u)
    BY <1>0, <1>5, <2>2 DEF Release, Path, Item
  <2>4. pc'[t] \notin {"acquire"} \cup Critical
    BY <1>0, <2>2 DEF Critical
  <2>5. \A c \in Threads, p \in Paths :
           holder'[c][p] = IF c = lk[t] /\ p = Path(t) THEN None ELSE holder[c][p]
    BY <1>0, <1>5 DEF Release
  <2>6. lockTable' = lockTable
    BY <1>5 DEF Release
  <2>7. ASSUME NEW u \in Threads, u # t, pc[u] \in Critical
        PROVE  holder'[lk[u]][Path(u)] = u
    <3>1. holder[lk[u]][Path(u)] = u /\ lk[u] \in Threads /\ Path(u) \in Paths
      BY <1>t, <2>7 DEF LockInv, Resting, Critical
    <3> QED
      BY <2>1, <2>5, <2>7, <3>1
  <2> QED
    BY <2>3, <2>4, <2>6, <2>7 DEF LockInv
<1>6. ASSUME NEW t \in Threads, Interrupt(t) PROVE LockInv'
  <2>1. UNCHANGED <<lockTable, holder, job, idx>>
    BY <1>6 DEF Interrupt, lockVars
  <2>2. CASE pc[t] \in Before
    <3>1. pc' = [pc EXCEPT ![t] = "raised"] /\ lk' = [lk EXCEPT ![t] = None]
      BY <1>6, <2>2 DEF Interrupt, Goto, Before, Replacing
    <3>2. \A u \in Threads \ {t} : pc'[u] = pc[u] /\ lk'[u] = lk[u]
      BY <1>0, <3>1
    <3>3. pc'[t] \notin {"acquire"} \cup Critical
      BY <1>0, <3>1 DEF Critical
    <3>4. \A u \in Threads : Path(u)' = Path(u)
      BY <2>1 DEF Path, Item
    <3> QED
      BY <2>1, <3>2, <3>3, <3>4 DEF LockInv
  <2>3. CASE pc[t] \notin Before
    <3>1. /\ pc[t] \in Critical
          /\ lk' = lk
          /\ \E to \in {"release", "cleanup"} : pc' = [pc EXCEPT ![t] = to]
      BY <1>6, <2>3 DEF Interrupt, Goto, Critical, Replacing
    <3>2. \A u \in Threads : /\ pc'[u] \in Critical => pc[u] \in Critical
                             /\ pc'[u] = "acquire" => pc[u] = "acquire"
      BY <1>0, <3>1
    <3> QED
      BY <2>1, <3>1, <3>2, LockFrame
  <2> QED
    BY <2>2, <2>3
<1>7. ASSUME NEW x \in Procs, Kill(x) PROVE LockInv'
  <2> DEFINE D == {t \in Threads : ProcOf[t] = x}
  <2>1. Vanish(D) /\ D \in SUBSET Threads
    BY <1>7 DEF Kill
  <2>2. \A t \in D, u \in Threads : ProcOf[u] = ProcOf[t] => u \in D
    OBVIOUS
  <2> HIDE DEF D
  <2> QED
    BY <2>1, <2>2, LockVanish
<1>8. CASE PowerLoss
  <2>1. Vanish(Threads)
    BY <1>8 DEF PowerLoss
  <2> QED
    BY <2>1, LockVanish
<1>9. CASE UNCHANGED vars
  BY <1>9, LockFrame DEF vars
<1> QED
  BY <1>1, <1>2, <1>3, <1>4, <1>5, <1>6, <1>7, <1>8, <1>9 DEF Next, ThreadStep

\* One writer per target and process (the comment above _LOCKS): two threads of
\* one process are never both between _target_lock's acquisition and release
\* for one path, however their calls, failures and interrupts interleave.
THEOREM Exclusion == Spec => []TargetExclusion
<1>1. Init => LockInv
  <2> SUFFICES ASSUME Init PROVE LockInv
    OBVIOUS
  <2> QED
    BY ThreadAssumption DEF Init, LockInv, Critical
<1>2. Typing /\ LockInv => TargetExclusion
  <2> SUFFICES ASSUME Typing, LockInv,
                      NEW t \in Threads, NEW u \in Threads,
                      ProcOf[t] = ProcOf[u],
                      pc[t] \in Critical, pc[u] \in Critical,
                      Path(t) = Path(u)
               PROVE  t = u
    BY DEF TargetExclusion
  <2>1. lk[t] = lk[u]
    BY DEF LockInv
  <2> QED
    BY <2>1 DEF LockInv
<1> QED
  BY TypingInit, TypingStep, LockStep, <1>1, <1>2, PTL DEF Spec

-----------------------------------------------------------------------------
(* No lock is left behind.  A step moves one thread, and the lock of a thread *)
(* that leaves its with block is released in that very step.                  *)

\* A lock is held only by a thread that is at work on the very target it was given
\* the lock for, and works there without waiting for another: no failure, interrupt
\* or kill leaves a lock behind, and no circle of threads waits for each other.
LocksAreServed ==
    \A u \in Threads, p \in Paths :
        holder[u][p] # None =>
            LET h == holder[u][p]
            IN  pc[h] \in Critical /\ lk[h] = u /\ Path(h) = p

\* Steps inside and outside the with block, taken without its lock.
LEMMA ServedFrame ==
    ASSUME LocksAreServed,
           UNCHANGED <<holder, job, idx>>,
           \A u \in Threads : pc[u] \in Critical => pc'[u] \in Critical /\ lk'[u] = lk[u],
           \A u \in Threads, p \in Paths : holder[u][p] \in Threads \cup {None}
    PROVE  LocksAreServed'
<1>1. \A u \in Threads : Path(u)' = Path(u)
  BY DEF Path, Item
<1> QED
  BY <1>1 DEF LocksAreServed

\* A process that vanishes takes the locks of its threads, and only these: they
\* are held by threads of its own.
LEMMA ServedVanish ==
    ASSUME Typing, LockInv, LocksAreServed, NEW D \in SUBSET Threads, Vanish(D),
           \A t \in D, u \in Threads : ProcOf[u] = ProcOf[t] => u \in D
    PROVE  LocksAreServed'
<1> SUFFICES ASSUME NEW u \in Threads, NEW p \in Paths, holder'[u][p] # None
             PROVE  LET g == holder'[u][p]
                    IN  /\ pc'[g] \in Critical /\ lk'[g] = u
                        /\ job'[g].items[idx'[g]].path = p
  BY DEF LocksAreServed, Path, Item
<1> DEFINE h == holder[u][p]
<1>1. u \notin D /\ holder'[u][p] = h
  BY DEF Vanish
<1>2. h \in Threads
  BY <1>1 DEF Typing, TypeOK
<1>3. pc[h] \in Critical /\ lk[h] = u /\ Path(h) = p
  BY <1>1 DEF LocksAreServed
<1> HIDE DEF h
<1>4. ProcOf[h] = ProcOf[u]
  <2>1. lockTable[ProcOf[h]][p] = u
    BY <1>2, <1>3 DEF LockInv
  <2>2. ProcOf[h] \in Procs /\ u # None
    BY <1>2, ThreadAssumption
  <2> QED
    BY <2>1, <2>2 DEF LockInv
<1>5. h \notin D
  BY <1>1, <1>4
<1>6. pc'[h] = pc[h] /\ lk'[h] = lk[h] /\ job'[h].items[idx'[h]].path = Path(h)
  BY <1>2, <1>5 DEF Vanish, Path, Item
<1> QED
  BY <1>1, <1>3, <1>6

\* No step leaves a lock behind.
LEMMA ServedStep ==
    Typing /\ LockInv /\ LocksAreServed /\ [Next]_vars => LocksAreServed'
<1> SUFFICES ASSUME Typing, LockInv, LocksAreServed, [Next]_vars PROVE LocksAreServed'
  OBVIOUS
<1>0. /\ pc \in [Threads -> Resting \cup Before \cup Critical]
      /\ lk \in [Threads -> Threads \cup {None}]
      /\ holder \in [Threads -> [Paths -> Threads \cup {None}]]
      /\ job \in [Threads -> Jobs \cup {NoJob}]
      /\ idx \in [Threads -> Nat \ {0}]
  BY DEF Typing, TypeOK
<1>t. \A u \in Threads : pc[u] \notin Resting => Path(u) \in Paths
  BY ItemType DEF Typing
<1>h. \A u \in Threads, p \in Paths : holder[u][p] \in Threads \cup {None}
  BY <1>0
<1>1. ASSUME NEW t \in Threads, StartCall(t) PROVE LocksAreServed'
  <2>1. pc[t] \in Resting /\ holder' = holder /\ lk' = lk
    BY <1>1 DEF StartCall, lockVars
  <2>2. \A u \in Threads \ {t} : pc'[u] = pc[u] /\ Path(u)' = Path(u)
    BY <1>0, <1>1 DEF StartCall, Goto, Path, Item
  <2>3. \A u \in Threads, p \in Paths : holder[u][p] # t
    BY <2>1, ThreadAssumption DEF LocksAreServed, Resting, Critical
  <2> QED
    BY <1>h, <2>1, <2>2, <2>3 DEF LocksAreServed
<1>2. ASSUME NEW t \in Threads,
             \/ MakeRoot(t) \/ MakeSub(t) \/ CheckIdentical(t) \/ MkStemp(t)
             \/ FdOpen(t) \/ WriteTemp(t) \/ FsyncTemp(t) \/ ReplaceTarget(t)
             \/ Cleanup(t)
      PROVE  LocksAreServed'
  <2>1. UNCHANGED <<holder, job, idx, lk>>
    BY <1>2 DEF MakeRoot, MakeSub, CheckIdentical, MkStemp, FdOpen, WriteTemp,
                FsyncTemp, ReplaceTarget, Cleanup, lockVars, callVars
  <2>2. \/ \E to \in Critical : pc' = [pc EXCEPT ![t] = to]
        \/ pc[t] \notin Critical /\ \E to : pc' = [pc EXCEPT ![t] = to]
    BY <1>2 DEF MakeRoot, MakeSub, CheckIdentical, MkStemp, FdOpen, WriteTemp,
                FsyncTemp, ReplaceTarget, Cleanup, Goto, Critical
  <2>3. \A u \in Threads : pc[u] \in Critical => pc'[u] \in Critical
    BY <1>0, <2>2
  <2> QED
    BY <1>h, <2>1, <2>3, ServedFrame
<1>3. ASSUME NEW t \in Threads, GetLock(t) PROVE LocksAreServed'
  <2>1. UNCHANGED <<holder, job, idx>>
    BY <1>3 DEF GetLock
  <2>2. pc[t] \notin Critical /\ \A u \in Threads \ {t} : pc'[u] = pc[u] /\ lk'[u] = lk[u]
    BY <1>0, <1>3 DEF GetLock, Goto, Critical
  <2> QED
    BY <1>h, <2>1, <2>2, ServedFrame
<1>4. ASSUME NEW t \in Threads, Acquire(t) PROVE LocksAreServed'
  <2>1. Path(t) \in Paths /\ lk[t] \in Threads
    BY <1>4, <1>t DEF Acquire, LockInv, Resting
  <2>2. \A u \in Threads : Path(u)' = Path(u) /\ lk'[u] = lk[u]
    BY <1>4 DEF Acquire, callVars, Path, Item
  <2>3. \A c \in Threads, p \in Paths :
           holder'[c][p] = IF c = lk[t] /\ p = Path(t) THEN t ELSE holder[c][p]
    BY <1>0, <1>4 DEF Acquire
  <2>4. /\ pc[t] = "acquire" /\ pc'[t] = "check"
        /\ \A u \in Threads \ {t} : pc'[u] = pc[u]
    BY <1>0, <1>4 DEF Acquire, Goto
  <2>5. pc'[t] \in Critical /\ \A u \in Threads : pc[u] \in Critical => pc'[u] \in Critical
    BY <2>4 DEF Critical
  <2> QED
    BY <1>h, <2>1, <2>2, <2>3, <2>5 DEF LocksAreServed
<1>5. ASSUME NEW t \in Threads, Release(t) PROVE LocksAreServed'
  <2>1. pc[t] = "release" /\ Path(t) \in Paths /\ lk[t] \in Threads
    BY <1>5, <1>t DEF Release, LockInv, Resting, Critical
  <2>2. \A u \in Threads \ {t} : /\ pc'[u] = pc[u]
                                 /\ lk'[u] = lk[u]
                                 /\ Path(u)' = Path(u)
    BY <1>0, <1>5 DEF Release, Goto, Path, Item
  <2>3. \A c \in Threads, p \in Paths :
           holder'[c][p] = IF c = lk[t] /\ p = Path(t) THEN None ELSE holder[c][p]
    BY <1>0, <1>5 DEF Release
  <2>4. \A c \in Threads, p \in Paths : holder'[c][p] # t
    BY <2>1, <2>3, ThreadAssumption DEF LocksAreServed
  <2> QED
    BY <1>h, <2>2, <2>3, <2>4 DEF LocksAreServed
<1>6. ASSUME NEW t \in Threads, Interrupt(t) PROVE LocksAreServed'
  <2>1. UNCHANGED <<holder, job, idx>>
    BY <1>6 DEF Interrupt, lockVars
  <2>2. \/ pc[t] \notin Critical
        \/ lk' = lk /\ \E to \in Critical : pc' = [pc EXCEPT ![t] = to]
    BY <1>6 DEF Interrupt, Goto, Before, Critical
  <2>3. \A u \in Threads \ {t} : pc'[u] = pc[u] /\ lk'[u] = lk[u]
    BY <1>0, <1>6 DEF Interrupt, Goto
  <2>4. \A u \in Threads : pc[u] \in Critical => pc'[u] \in Critical /\ lk'[u] = lk[u]
    BY <1>0, <2>2, <2>3
  <2> QED
    BY <1>h, <2>1, <2>4, ServedFrame
<1>7. ASSUME NEW x \in Procs, Kill(x) PROVE LocksAreServed'
  <2> DEFINE D == {t \in Threads : ProcOf[t] = x}
  <2>1. Vanish(D) /\ D \in SUBSET Threads
    BY <1>7 DEF Kill
  <2>2. \A t \in D, u \in Threads : ProcOf[u] = ProcOf[t] => u \in D
    OBVIOUS
  <2> HIDE DEF D
  <2> QED
    BY <2>1, <2>2, ServedVanish
<1>8. CASE PowerLoss
  <2>1. Vanish(Threads)
    BY <1>8 DEF PowerLoss
  <2> QED
    BY <2>1, ServedVanish
<1>9. CASE UNCHANGED vars
  BY <1>h, <1>9, ServedFrame DEF vars
<1> QED
  BY <1>1, <1>2, <1>3, <1>4, <1>5, <1>6, <1>7, <1>8, <1>9 DEF Next, ThreadStep

\* Whatever fails, is interrupted or is killed, a lock that is held is held by a
\* thread at work on its target, which waits for no other: whoever waits for a lock
\* waits for a thread that can go on.
THEOREM NoLockLeftBehind == Spec => []LocksAreServed
<1>1. Init => LockInv /\ LocksAreServed
  <2> SUFFICES ASSUME Init PROVE LockInv /\ LocksAreServed
    OBVIOUS
  <2> QED
    BY ThreadAssumption DEF Init, LockInv, Critical, LocksAreServed
<1> QED
  BY TypingInit, TypingStep, LockStep, ServedStep, <1>1, PTL DEF Spec

-----------------------------------------------------------------------------
(* Integrity.  os.replace is reached only behind a successful write, flush   *)
(* and fsync of the whole payload.                                           *)

SyncedBeforeReplace ==
    \A t \in Threads : /\ pc[t] = "fsync" => temp[t] = "flushed"
                       /\ pc[t] = "replace" => temp[t] = "synced"

\* Only FsyncTemp leads a thread to os.replace.
LEMMA SyncedStep ==
    Typing /\ SyncedBeforeReplace /\ [Next]_vars => SyncedBeforeReplace'
<1> SUFFICES ASSUME Typing, SyncedBeforeReplace, [Next]_vars
             PROVE  SyncedBeforeReplace'
  OBVIOUS
<1>0. /\ pc \in [Threads -> Resting \cup Before \cup Critical]
      /\ temp \in [Threads -> {"none", "empty", "partial", "flushed", "synced"}]
  BY DEF Typing, TypeOK
<1>1. ASSUME NEW t \in Threads, StartCall(t) PROVE SyncedBeforeReplace'
  <2>1. pc' = [pc EXCEPT ![t] = "root"] \/ pc' = [pc EXCEPT ![t] = "raised"]
    BY <1>1 DEF StartCall, Goto
  <2> QED
    BY <1>0, <1>1, <2>1 DEF StartCall, SyncedBeforeReplace
<1>2. ASSUME NEW t \in Threads, ThreadStep(t) PROVE SyncedBeforeReplace'
  <2>1. /\ \A u \in Threads \ {t} : pc'[u] = pc[u] /\ temp'[u] = temp[u]
        /\ pc'[t] = "fsync" => temp'[t] = "flushed"
        /\ pc'[t] = "replace" => temp'[t] = "synced"
    BY <1>0, <1>2 DEF ThreadStep, MakeRoot, MakeSub, GetLock, Acquire,
       CheckIdentical, MkStemp, FdOpen, WriteTemp, FsyncTemp, ReplaceTarget,
       Cleanup, Release, Goto
  <2> QED
    BY <2>1 DEF SyncedBeforeReplace
<1>3. ASSUME NEW t \in Threads, Interrupt(t) PROVE SyncedBeforeReplace'
  <2>1. /\ \A u \in Threads \ {t} : pc'[u] = pc[u] /\ temp'[u] = temp[u]
        /\ pc'[t] \in {"raised", "release", "cleanup"}
    BY <1>0, <1>3 DEF Interrupt, Goto
  <2> QED
    BY <2>1 DEF SyncedBeforeReplace
<1>4. ASSUME NEW D \in SUBSET Threads, Vanish(D) PROVE SyncedBeforeReplace'
  BY <1>4 DEF Vanish, SyncedBeforeReplace
<1>5. ASSUME NEW x \in Procs, Kill(x) PROVE SyncedBeforeReplace'
  BY <1>4, <1>5 DEF Kill
<1>6. CASE PowerLoss
  BY <1>4, <1>6 DEF PowerLoss
<1>7. CASE UNCHANGED vars
  BY <1>7 DEF vars, SyncedBeforeReplace
<1> QED
  BY <1>1, <1>2, <1>3, <1>5, <1>6, <1>7 DEF Next

\* So no step makes a file torn, and a power loss uncovers none.
LEMMA IntegrityStep ==
    Typing /\ SyncedBeforeReplace /\ NeverTorn /\ [Next]_vars => NeverTorn'
<1> SUFFICES ASSUME Typing, SyncedBeforeReplace, NeverTorn, [Next]_vars
             PROVE  NeverTorn'
  OBVIOUS
<1>1. ASSUME NEW t \in Threads, ReplaceTarget(t) PROVE NeverTorn'
  <2>1. temp[t] = "synced"
    BY <1>1 DEF ReplaceTarget, SyncedBeforeReplace
  <2>2. Data(t) \in Contents /\ File(t) \in Files
    BY <1>1, ItemType DEF ReplaceTarget, Typing, Resting
  <2>3. Moved(t) # Torn /\ Torn \notin AfterPowerLoss(t)
    BY <2>1, <2>2, ContentAssumption DEF Moved, AfterPowerLoss
  <2>4. \/ UNCHANGED <<content, possible>>
        \/ /\ content' = [content EXCEPT ![File(t)] = Moved(t)]
           /\ possible' = [possible EXCEPT ![File(t)] = @ \cup AfterPowerLoss(t)]
    BY <1>1 DEF ReplaceTarget
  <2>5. /\ content \in [Files -> Contents \cup {Absent, Torn}]
        /\ possible \in [Files -> SUBSET (Contents \cup {Absent, Torn})]
    BY DEF Typing, TypeOK
  <2> QED
    BY <2>2, <2>3, <2>4, <2>5 DEF NeverTorn
<1>2. CASE PowerLoss
  BY <1>2 DEF PowerLoss, NeverTorn
<1>3. CASE UNCHANGED <<content, possible>>
  BY <1>3 DEF NeverTorn
<1>4. ASSUME NEW t \in Threads,
             StartCall(t) \/ Interrupt(t) \/ (ThreadStep(t) /\ ~ReplaceTarget(t))
      PROVE  UNCHANGED <<content, possible>>
  BY <1>4 DEF StartCall, Interrupt, ThreadStep, MakeRoot, MakeSub, GetLock,
     Acquire, CheckIdentical, MkStemp, FdOpen, WriteTemp, FsyncTemp, Cleanup,
     Release, fsVars
<1>5. ASSUME NEW x \in Procs, Kill(x) PROVE UNCHANGED <<content, possible>>
  BY <1>5 DEF Kill
<1> QED
  BY <1>1, <1>2, <1>3, <1>4, <1>5 DEF Next, vars

\* The ATOMICITY contract of the module's docstring: no reader ever sees a
\* half-written artifact, and no power loss can uncover one.
THEOREM Integrity == Spec => []NeverTorn
<1>1. Init => SyncedBeforeReplace /\ NeverTorn
  <2> SUFFICES ASSUME Init PROVE SyncedBeforeReplace /\ NeverTorn
    OBVIOUS
  <2> QED
    BY ContentAssumption DEF Init, SyncedBeforeReplace, NeverTorn
<1> QED
  BY TypingInit, TypingStep, SyncedStep, IntegrityStep, <1>1, PTL DEF Spec

-----------------------------------------------------------------------------
(* Refinement.  A request is pending until its outcome is recorded in        *)
(* result, which the comparison and os.replace do in the same step as they   *)
(* take effect; every other exit from the with block carries an exception.   *)

OutcomeInv ==
    \A t \in Threads :
        /\ pc[t] \in Before \cup {"check", "mkstemp", "fdopen", "write", "fsync", "replace"}
              => result[t] = "none" /\ ~exc[t]
        /\ pc[t] \in {"cleanup", "release"} /\ result[t] = "none" => exc[t]

\* result, pc and exc stay together in every step.
LEMMA OutcomeStep == Typing /\ OutcomeInv /\ [Next]_vars => OutcomeInv'
<1> SUFFICES ASSUME Typing, OutcomeInv, [Next]_vars PROVE OutcomeInv'
  OBVIOUS
<1>0. /\ pc \in [Threads -> Resting \cup Before \cup Critical]
      /\ result \in [Threads -> {"none", "changed", "unchanged"}]
      /\ exc \in [Threads -> BOOLEAN]
  BY DEF Typing, TypeOK
<1> DEFINE Good(t) ==
        /\ pc'[t] \in Before \cup {"check", "mkstemp", "fdopen", "write", "fsync", "replace"}
              => result'[t] = "none" /\ ~exc'[t]
        /\ pc'[t] \in {"cleanup", "release"} /\ result'[t] = "none" => exc'[t]
<1>1. ASSUME NEW t \in Threads, StartCall(t) \/ ThreadStep(t) \/ Interrupt(t)
      PROVE  OutcomeInv'
  <2>1. ASSUME NEW u \in Threads \ {t}
        PROVE  pc'[u] = pc[u] /\ result'[u] = result[u] /\ exc'[u] = exc[u]
    BY <1>0, <1>1 DEF StartCall, Interrupt, ThreadStep, MakeRoot, MakeSub,
       GetLock, Acquire, CheckIdentical, MkStemp, FdOpen, WriteTemp, FsyncTemp,
       ReplaceTarget, Cleanup, Release, Goto, Raise, lockVars, histVars
  <2>2. CASE StartCall(t)
    <3>1. pc'[t] \in {"root", "raised"} /\ result'[t] = "none" /\ exc'[t] = FALSE
      BY <1>0, <2>2 DEF StartCall, Goto
    <3> QED
      BY <2>1, <3>1 DEF OutcomeInv, Before
  <2>3. CASE ThreadStep(t)
    <3>1. CASE Release(t)
      <4>1. \/ pc'[t] \in {"raised", "returned"}
            \/ pc'[t] = "root" /\ result'[t] = "none" /\ ~exc'[t]
        BY <1>0, <3>1 DEF Release, Goto
      <4> QED
        BY <2>1, <4>1 DEF OutcomeInv, Before
    <3>2. CASE MakeRoot(t) \/ MakeSub(t) \/ GetLock(t) \/ Acquire(t)
      <4>1. /\ pc[t] \in Before
            /\ pc'[t] \in {"raised", "sub", "getlock", "acquire", "check"}
            /\ result'[t] = result[t] /\ exc'[t] = exc[t]
        BY <1>0, <3>2 DEF MakeRoot, MakeSub, GetLock, Acquire, Goto, Before
      <4> QED
        BY <2>1, <4>1 DEF OutcomeInv, Before
    <3>3. CASE CheckIdentical(t)
      <4>1. /\ pc[t] = "check" /\ exc'[t] = exc[t]
            /\ \/ pc'[t] = "release" /\ result'[t] = "unchanged"
               \/ pc'[t] = "mkstemp" /\ result'[t] = result[t]
        BY <1>0, <3>3 DEF CheckIdentical, Goto
      <4> QED
        BY <2>1, <4>1 DEF OutcomeInv, Before
    <3>4. CASE MkStemp(t) \/ FdOpen(t) \/ WriteTemp(t) \/ FsyncTemp(t)
      <4>1. /\ pc[t] \in {"mkstemp", "fdopen", "write", "fsync"}
            /\ result'[t] = result[t]
            /\ \/ pc'[t] \in {"fdopen", "write", "fsync", "replace"} /\ exc'[t] = exc[t]
               \/ pc'[t] \in {"release", "cleanup"} /\ exc'[t]
        BY <1>0, <3>4 DEF MkStemp, FdOpen, WriteTemp, FsyncTemp, Goto, Raise
      <4> QED
        BY <2>1, <4>1 DEF OutcomeInv, Before
    <3>5. CASE ReplaceTarget(t)
      <4>1. pc'[t] = "cleanup" /\ (result'[t] = "changed" \/ exc'[t])
        BY <1>0, <3>5 DEF ReplaceTarget, Goto, Raise
      <4> QED
        BY <2>1, <4>1 DEF OutcomeInv, Before
    <3>6. CASE Cleanup(t)
      <4>1. /\ pc[t] = "cleanup" /\ pc'[t] = "release"
            /\ result'[t] = result[t] /\ exc'[t] = exc[t]
        BY <1>0, <3>6 DEF Cleanup, Goto
      <4> QED
        BY <2>1, <4>1 DEF OutcomeInv, Before
    <3> QED
      BY <2>3, <3>1, <3>2, <3>3, <3>4, <3>5, <3>6 DEF ThreadStep
  <2>4. CASE Interrupt(t)
    <3>1. pc'[t] = "raised" \/ (pc'[t] \in {"release", "cleanup"} /\ exc'[t])
      BY <1>0, <2>4 DEF Interrupt, Goto, Raise
    <3> QED
      BY <2>1, <3>1 DEF OutcomeInv, Before
  <2> QED
    BY <1>1, <2>2, <2>3, <2>4
<1>2. ASSUME NEW D \in SUBSET Threads, Vanish(D) PROVE OutcomeInv'
  BY <1>2 DEF Vanish, OutcomeInv, Before
<1>3. ASSUME NEW x \in Procs, Kill(x) PROVE OutcomeInv'
  BY <1>2, <1>3 DEF Kill
<1>4. CASE PowerLoss
  BY <1>2, <1>4 DEF PowerLoss
<1>5. CASE UNCHANGED vars
  BY <1>5 DEF vars, OutcomeInv
<1> QED
  BY <1>1, <1>3, <1>4, <1>5 DEF Next

\* The request in flight of every thread whose local state is untouched is
\* untouched.
LEMMA StoreOpFrame ==
    ASSUME NEW t \in Threads,
           \A u \in Threads \ {t} : /\ pc'[u] = pc[u]
                                    /\ result'[u] = result[u]
                                    /\ job'[u] = job[u]
                                    /\ idx'[u] = idx[u]
    PROVE  [u \in Threads |-> StoreOp(u)]'
              = [[u \in Threads |-> StoreOp(u)] EXCEPT ![t] = StoreOp(t)']
<1>1. \A u \in Threads \ {t} : StoreOp(u)' = StoreOp(u)
  BY DEF StoreOp, File, Data, Path, Item
<1> QED
  BY <1>1

\* The fields of a request in flight.
LEMMA StoreOpValue ==
    ASSUME NEW t \in Threads
    PROVE  /\ pc[t] \in Resting => StoreOp(t) = Store!NoOp
           /\ pc[t] \notin Resting /\ result[t] = "none" =>
                 StoreOp(t) = [st |-> "pending", file |-> File(t), data |-> Data(t)]
           /\ pc[t] \notin Resting /\ result[t] # "none" =>
                 StoreOp(t) = [st |-> "applied", file |-> File(t), data |-> Data(t)]
BY DEF StoreOp, Store!NoOp

\* ItemType after a step.
LEMMA ItemTypeNext ==
    ASSUME TypeOK', NEW t \in Threads, pc'[t] \notin Resting
    PROVE  Data(t)' \in Contents /\ File(t)' \in Files
<1>1. job'[t] \in Jobs \cup {NoJob} /\ idx'[t] \in 1..Len(job'[t].items)
  BY DEF TypeOK, NoJob
<1>2. job'[t] \in Jobs
  BY <1>1 DEF NoJob
<1>3. job'[t].items \in Seq(Items)
  BY <1>2, JobAssumption DEF JobSpace
<1>4. job'[t].items[idx'[t]] \in Items
  BY <1>1, <1>3
<1> QED
  BY <1>4, FileAssumption DEF Path, Data, File, Item, Items

\* A thread whose request in flight does not change takes a stuttering step.
LEMMA StoreStutter ==
    ASSUME NEW t \in Threads,
           UNCHANGED <<content, possible>>,
           StoreOp(t)' = StoreOp(t),
           [u \in Threads |-> StoreOp(u)]'
              = [[u \in Threads |-> StoreOp(u)] EXCEPT ![t] = StoreOp(t)']
    PROVE  UNCHANGED Store!storeVars
BY DEF Store!storeVars

\* Every step is one of the store or leaves the store alone.
LEMMA StoreStep ==
    Typing /\ Typing' /\ OutcomeInv /\ NeverTorn' /\ [Next]_vars
        => [Store!StoreNext]_(Store!storeVars)
<1> SUFFICES ASSUME Typing, Typing', OutcomeInv, NeverTorn', [Next]_vars
             PROVE  [Store!StoreNext]_(Store!storeVars)
  OBVIOUS
<1> DEFINE op == [u \in Threads |-> StoreOp(u)]
<1>0. /\ pc \in [Threads -> Resting \cup Before \cup Critical]
      /\ result \in [Threads -> {"none", "changed", "unchanged"}]
      /\ job \in [Threads -> Jobs \cup {NoJob}]
      /\ idx \in [Threads -> Nat \ {0}]
      /\ exc \in [Threads -> BOOLEAN]
  BY DEF Typing, TypeOK
<1>f. ASSUME NEW t \in Threads, StartCall(t) \/ ThreadStep(t) \/ Interrupt(t)
      PROVE  op' = [op EXCEPT ![t] = StoreOp(t)']
  <2>1. \A u \in Threads \ {t} : /\ pc'[u] = pc[u]
                                 /\ result'[u] = result[u]
                                 /\ job'[u] = job[u]
                                 /\ idx'[u] = idx[u]
    BY <1>0, <1>f DEF StartCall, Interrupt, ThreadStep, MakeRoot, MakeSub,
       GetLock, Acquire, CheckIdentical, MkStemp, FdOpen, WriteTemp, FsyncTemp,
       ReplaceTarget, Cleanup, Release, Goto, callVars, histVars
  <2> QED
    BY <2>1, StoreOpFrame
<1>v. ASSUME NEW t \in Threads
      PROVE  /\ pc'[t] \in Resting => StoreOp(t)' = Store!NoOp
             /\ pc'[t] \notin Resting /\ result'[t] = "none" =>
                   StoreOp(t)' = [st |-> "pending", file |-> File(t)', data |-> Data(t)']
             /\ pc'[t] \notin Resting /\ result'[t] # "none" =>
                   StoreOp(t)' = [st |-> "applied", file |-> File(t)', data |-> Data(t)']
  BY DEF StoreOp, Store!NoOp
<1>n. ASSUME NEW t \in Threads PROVE op[t] = StoreOp(t)
  OBVIOUS
<1>d. ASSUME NEW t \in Threads, UNCHANGED <<job, idx>>
      PROVE  File(t)' = File(t) /\ Data(t)' = Data(t)
  BY <1>d DEF File, Data, Path, Item
<1> HIDE DEF op
<1>1. ASSUME NEW t \in Threads, StartCall(t)
      PROVE  [Store!StoreNext]_(Store!storeVars)
  <2>1. UNCHANGED <<content, possible>> /\ pc[t] \in Resting /\ result'[t] = "none"
    BY <1>0, <1>1 DEF StartCall, fsVars
  <2>2. StoreOp(t) = Store!NoOp
    BY <2>1, StoreOpValue
  <2>3. CASE pc'[t] \in Resting
    BY <1>1, <1>f, <1>v, <2>1, <2>2, <2>3, StoreStutter DEF op
  <2>4. CASE pc'[t] \notin Resting
    <3>1. Data(t)' \in Contents /\ File(t)' \in Files
      BY <2>4, ItemTypeNext DEF Typing
    <3>2. Store!Request(t, File(t)', Data(t)')
      BY <1>1, <1>f, <1>n, <1>v, <2>1, <2>2, <2>4 DEF Store!Request, op
    <3> QED
      BY <3>1, <3>2 DEF Store!StoreNext
  <2> QED
    BY <2>3, <2>4
\* A failure or refusal before the effect: the pending request is aborted.
<1>2. ASSUME NEW t \in Threads, op' = [op EXCEPT ![t] = StoreOp(t)'],
             UNCHANGED <<content, possible>>,
             pc[t] \notin Resting, result[t] = "none", pc'[t] \in Resting
      PROVE  [Store!StoreNext]_(Store!storeVars)
  <2>1. StoreOp(t).st = "pending" /\ StoreOp(t)' = Store!NoOp
    BY <1>2, <1>v, StoreOpValue
  <2>2. Store!Abort(t)
    BY <1>2, <1>n, <2>1 DEF Store!Abort, op
  <2> QED
    BY <2>2 DEF Store!StoreNext
\* A step inside a call that neither takes effect nor ends it.
<1>3. ASSUME NEW t \in Threads, op' = [op EXCEPT ![t] = StoreOp(t)'],
             UNCHANGED <<content, possible, job, idx>>,
             pc[t] \notin Resting, pc'[t] \notin Resting, result'[t] = result[t]
      PROVE  [Store!StoreNext]_(Store!storeVars)
  <2>1. StoreOp(t)' = StoreOp(t)
    BY <1>3, <1>d, <1>v, StoreOpValue
  <2> QED
    BY <1>3, <2>1, StoreStutter DEF op
<1>4. ASSUME NEW t \in Threads, MakeRoot(t) \/ MakeSub(t) \/ GetLock(t) \/ Acquire(t)
      PROVE  [Store!StoreNext]_(Store!storeVars)
  <2>1. /\ UNCHANGED <<content, possible, job, idx>>
        /\ pc[t] \in Before
        /\ result'[t] = result[t]
    BY <1>0, <1>4 DEF MakeRoot, MakeSub, GetLock, Acquire, fsVars, callVars, Before
  <2>2. result[t] = "none" /\ pc[t] \notin Resting
    BY <2>1 DEF OutcomeInv, Before, Resting
  <2>3. op' = [op EXCEPT ![t] = StoreOp(t)']
    BY <1>4, <1>f DEF ThreadStep
  <2> QED
    BY <1>2, <1>3, <2>1, <2>2, <2>3
<1>5. ASSUME NEW t \in Threads, CheckIdentical(t)
      PROVE  [Store!StoreNext]_(Store!storeVars)
  <2>1. op' = [op EXCEPT ![t] = StoreOp(t)']
    BY <1>5, <1>f DEF ThreadStep
  <2>2. /\ UNCHANGED <<content, possible, job, idx>>
        /\ pc[t] = "check" /\ pc'[t] \in {"release", "mkstemp"}
    BY <1>0, <1>5 DEF CheckIdentical, fsVars, callVars, Goto
  <2>3. result[t] = "none" /\ pc[t] \notin Resting /\ pc'[t] \notin Resting
    BY <2>2 DEF OutcomeInv, Resting
  <2>4. \/ content[File(t)] = Data(t) /\ result'[t] = "unchanged"
        \/ result'[t] = result[t]
    BY <1>0, <1>5 DEF CheckIdentical
  <2>5. CASE content[File(t)] = Data(t) /\ result'[t] = "unchanged"
    <3>1. StoreOp(t) = [st |-> "pending", file |-> File(t), data |-> Data(t)]
      BY <2>3, StoreOpValue
    <3>2. StoreOp(t)' = [st |-> "applied", file |-> File(t), data |-> Data(t)]
      BY <1>v, <1>d, <2>2, <2>3, <2>5
    <3>3. StoreOp(t)' = [StoreOp(t) EXCEPT !.st = "applied"]
      BY <3>1, <3>2
    <3>4. op' = [op EXCEPT ![t].st = "applied"]
      BY <1>n, <2>1, <3>3 DEF op
    <3>5. Store!Confirm(t)
      BY <1>n, <2>2, <2>5, <3>1, <3>4 DEF Store!Confirm, op
    <3> QED
      BY <3>5 DEF Store!StoreNext
  <2>6. CASE result'[t] = result[t]
    BY <1>3, <2>1, <2>2, <2>3, <2>6
  <2> QED
    BY <2>4, <2>5, <2>6
<1>6. ASSUME NEW t \in Threads,
             MkStemp(t) \/ FdOpen(t) \/ WriteTemp(t) \/ FsyncTemp(t) \/ Cleanup(t)
      PROVE  [Store!StoreNext]_(Store!storeVars)
  <2>1. /\ UNCHANGED <<content, possible, job, idx>>
        /\ pc[t] \in Critical /\ pc'[t] \in Critical
        /\ result'[t] = result[t]
    BY <1>0, <1>6 DEF MkStemp, FdOpen, WriteTemp, FsyncTemp, Cleanup, fsVars,
                      callVars, Goto, Critical
  <2>2. op' = [op EXCEPT ![t] = StoreOp(t)']
    BY <1>6, <1>f DEF ThreadStep
  <2> QED
    BY <1>3, <2>1, <2>2 DEF Critical, Resting
<1>7. ASSUME NEW t \in Threads, ReplaceTarget(t)
      PROVE  [Store!StoreNext]_(Store!storeVars)
  <2>1. op' = [op EXCEPT ![t] = StoreOp(t)']
    BY <1>7, <1>f DEF ThreadStep
  <2>2. /\ UNCHANGED <<job, idx>> /\ pc[t] = "replace" /\ pc'[t] = "cleanup"
    BY <1>0, <1>7 DEF ReplaceTarget, callVars, Goto
  <2>3. result[t] = "none" /\ pc[t] \notin Resting /\ pc'[t] \notin Resting
    BY <2>2 DEF OutcomeInv, Resting
  <2>4. File(t) \in Files /\ Data(t) \in Contents
    BY <2>3, ItemType DEF Typing
  <2>5. CASE /\ content' = [content EXCEPT ![File(t)] = Moved(t)]
             /\ possible' = [possible EXCEPT ![File(t)] = @ \cup AfterPowerLoss(t)]
             /\ result' = [result EXCEPT ![t] = "changed"]
    <3>1. /\ content \in [Files -> Contents \cup {Absent, Torn}]
          /\ possible \in [Files -> SUBSET (Contents \cup {Absent, Torn})]
      BY DEF Typing, TypeOK
    <3>2. Moved(t) = Data(t)
      <4>1. content'[File(t)] = Moved(t)
        BY <2>4, <2>5, <3>1
      <4> QED
        BY <2>4, <4>1 DEF NeverTorn, Moved
    <3>3. AfterPowerLoss(t) = {Data(t)}
      <4>1. AfterPowerLoss(t) \subseteq possible'[File(t)]
        BY <2>4, <2>5, <3>1
      <4> QED
        BY <2>4, <3>2, <4>1 DEF NeverTorn, AfterPowerLoss
    <3>4. StoreOp(t) = [st |-> "pending", file |-> File(t), data |-> Data(t)]
      BY <2>3, StoreOpValue
    <3>5. StoreOp(t)' = [st |-> "applied", file |-> File(t), data |-> Data(t)]
      BY <1>0, <1>v, <1>d, <2>2, <2>3, <2>5
    <3>6. StoreOp(t)' = [StoreOp(t) EXCEPT !.st = "applied"]
      BY <3>4, <3>5
    <3>7. op' = [op EXCEPT ![t].st = "applied"]
      BY <1>n, <2>1, <3>6 DEF op
    <3>8. Store!Publish(t)
      <4>1. /\ op[t].st = "pending"
            /\ op[t].file = File(t)
            /\ op[t].data = Data(t)
        BY <1>n, <3>4
      <4>2. /\ content' = [content EXCEPT ![op[t].file] = op[t].data]
            /\ possible' = [possible EXCEPT ![op[t].file] = @ \cup {op[t].data}]
        BY <2>5, <3>2, <3>3, <4>1
      <4> QED
        BY <3>7, <4>1, <4>2 DEF Store!Publish, op
    <3> QED
      BY <3>8 DEF Store!StoreNext
  <2>6. CASE UNCHANGED <<content, possible, result>>
    BY <1>3, <2>1, <2>2, <2>3, <2>6
  <2> QED
    BY <1>7, <2>5, <2>6 DEF ReplaceTarget
<1>8. ASSUME NEW t \in Threads, Release(t)
      PROVE  [Store!StoreNext]_(Store!storeVars)
  <2>1. op' = [op EXCEPT ![t] = StoreOp(t)']
    BY <1>8, <1>f DEF ThreadStep
  <2>2. UNCHANGED <<content, possible>> /\ pc[t] = "release" /\ pc[t] \notin Resting
    BY <1>8 DEF Release, fsVars, Resting
  <2>3. CASE exc[t]
    <3>1. pc'[t] \in Resting
      BY <1>0, <1>8, <2>3 DEF Release, Goto, Resting
    <3>2. CASE result[t] = "none"
      BY <1>2, <2>1, <2>2, <3>1, <3>2
    <3>3. CASE result[t] # "none"
      <4>2. op[t].st = "applied" /\ StoreOp(t)' = Store!NoOp
        BY <1>n, <1>v, <2>2, <3>1, <3>3, StoreOpValue
      <4>1. Store!Reply(t)
        BY <2>1, <2>2, <4>2 DEF Store!Reply, op
      <4> QED
        BY <4>1 DEF Store!StoreNext
    <3> QED
      BY <3>2, <3>3
  <2>4. CASE ~exc[t]
    <3>1. result[t] # "none" /\ StoreOp(t).st = "applied"
      BY <2>2, <2>4, StoreOpValue DEF OutcomeInv
    <3>2. CASE pc'[t] \in Resting
      <4>1. Store!Reply(t)
        BY <1>n, <1>v, <2>1, <2>2, <3>1, <3>2 DEF Store!Reply, op
      <4> QED
        BY <4>1 DEF Store!StoreNext
    <3>3. CASE pc'[t] \notin Resting
      <4>1. result'[t] = "none"
        BY <1>0, <1>8, <2>4, <3>3 DEF Release, Goto, Resting
      <4>2. Data(t)' \in Contents /\ File(t)' \in Files
        BY <3>3, ItemTypeNext DEF Typing
      <4>3. Store!ReplyAndRequest(t, File(t)', Data(t)')
        BY <1>n, <1>v, <2>1, <2>2, <3>1, <3>3, <4>1 DEF Store!ReplyAndRequest, op
      <4> QED
        BY <4>2, <4>3 DEF Store!StoreNext
    <3> QED
      BY <3>2, <3>3
  <2> QED
    BY <2>3, <2>4
<1>9. ASSUME NEW t \in Threads, Interrupt(t)
      PROVE  [Store!StoreNext]_(Store!storeVars)
  <2>1. op' = [op EXCEPT ![t] = StoreOp(t)']
    BY <1>9, <1>f
  <2>2. UNCHANGED <<content, possible, job, idx>> /\ result' = result
    BY <1>9 DEF Interrupt
  <2>3. \/ pc[t] \in Before /\ pc'[t] \in Resting
        \/ pc[t] \in Critical /\ pc'[t] \in Critical
    BY <1>0, <1>9 DEF Interrupt, Goto, Critical, Resting, Replacing
  <2>4. CASE pc[t] \in Before /\ pc'[t] \in Resting
    <3>1. result[t] = "none" /\ pc[t] \notin Resting
      BY <2>4 DEF OutcomeInv, Before, Resting
    <3> QED
      BY <1>2, <2>1, <2>2, <2>4, <3>1
  <2>5. CASE pc[t] \in Critical /\ pc'[t] \in Critical
    BY <1>3, <2>1, <2>2, <2>5 DEF Critical, Resting
  <2> QED
    BY <2>3, <2>4, <2>5
<1>k. ASSUME NEW D \in SUBSET Threads, Vanish(D)
      PROVE  op' = [u \in Threads |-> IF u \in D THEN Store!NoOp ELSE op[u]]
  <2>1. ASSUME NEW u \in Threads
        PROVE  StoreOp(u)' = IF u \in D THEN Store!NoOp ELSE StoreOp(u)
    <3>1. File(u)' = File(u) /\ Data(u)' = Data(u)
      BY <1>k, <1>d DEF Vanish
    <3>2. CASE u \in D
      BY <1>k, <1>v, <3>2 DEF Vanish, Resting
    <3>3. CASE u \notin D
      BY <1>k, <3>1, <3>3 DEF Vanish, StoreOp
    <3> QED
      BY <3>2, <3>3
  <2> QED
    BY <2>1 DEF op
<1>10. ASSUME NEW x \in Procs, Kill(x)
       PROVE  [Store!StoreNext]_(Store!storeVars)
  <2> DEFINE D == {t \in Threads : ProcOf[t] = x}
  <2>1. Vanish(D) /\ D \in SUBSET Threads /\ UNCHANGED <<content, possible>>
    BY <1>10 DEF Kill
  <2> HIDE DEF D
  <2>2. Store!Die(D)
    BY <1>k, <2>1 DEF Store!Die, op
  <2> QED
    BY <2>1, <2>2 DEF Store!StoreNext
<1>11. CASE PowerLoss
  <2>1. Vanish(Threads)
    BY <1>11 DEF PowerLoss
  <2>2. op' = [u \in Threads |-> Store!NoOp]
    BY <1>k, <2>1
  <2>3. content' \in [Files -> Contents \cup {Absent}]
    BY DEF Typing, TypeOK, NeverTorn
  <2>4. Store!Rollback
    BY <1>11, <2>2, <2>3 DEF PowerLoss, Store!Rollback, op
  <2> QED
    BY <2>4 DEF Store!StoreNext
<1>12. CASE UNCHANGED vars
  <2>1. \A u \in Threads : StoreOp(u)' = StoreOp(u)
    BY <1>12 DEF vars, StoreOp, File, Data, Path, Item
  <2> QED
    BY <1>12, <2>1 DEF vars, Store!storeVars
<1> QED
  BY <1>1, <1>4, <1>5, <1>6, <1>7, <1>8, <1>9, <1>10, <1>11, <1>12
     DEF Next, ThreadStep

\* hubcore/writer.py implements ArtifactStore: seen from its callers and from
\* readers of the output root, every artifact is replaced atomically or not at
\* all, whatever fails, is interrupted or crashes.
THEOREM WriterRefinesStore == Spec => StoreSpec
<1>1. Init => Store!StoreInit
  <2> SUFFICES ASSUME Init PROVE Store!StoreInit
    OBVIOUS
  <2>1. \A t \in Threads : StoreOp(t) = Store!NoOp
    BY StoreOpValue DEF Init, Resting
  <2> QED
    BY <2>1 DEF Init, Store!StoreInit
<1>2. Init => SyncedBeforeReplace /\ NeverTorn /\ OutcomeInv
  <2> SUFFICES ASSUME Init PROVE SyncedBeforeReplace /\ NeverTorn /\ OutcomeInv
    OBVIOUS
  <2> QED
    BY ContentAssumption DEF Init, SyncedBeforeReplace, NeverTorn, OutcomeInv, Before
<1> QED
  BY TypingInit, TypingStep, SyncedStep, IntegrityStep, OutcomeStep, StoreStep,
     <1>1, <1>2, PTL DEF Spec, StoreSpec, Store!StoreSpec

-----------------------------------------------------------------------------
(* What a call has checked, written and may answer.                          *)

\* A step of thread t leaves the local state of every other thread alone and
\* removes no directory.
LEMMA OwnStep ==
    ASSUME Typing, NEW t \in Threads, StartCall(t) \/ ThreadStep(t) \/ Interrupt(t)
    PROVE  /\ \A u \in Threads \ {t} : /\ pc'[u] = pc[u]
                                       /\ result'[u] = result[u]
                                       /\ job'[u] = job[u]
                                       /\ idx'[u] = idx[u]
                                       /\ written'[u] = written[u]
                                       /\ same'[u] = same[u]
           /\ dirs \subseteq dirs'
<1>0. /\ pc \in [Threads -> Resting \cup Before \cup Critical]
      /\ result \in [Threads -> {"none", "changed", "unchanged"}]
      /\ job \in [Threads -> Jobs \cup {NoJob}]
      /\ idx \in [Threads -> Nat \ {0}]
      /\ written \in [Threads -> Seq(BOOLEAN)]
      /\ same \in [Threads -> BOOLEAN]
  BY DEF Typing, TypeOK
<1>1. /\ \A u \in Threads \ {t} : /\ pc'[u] = pc[u]
                                  /\ result'[u] = result[u]
                                  /\ job'[u] = job[u]
                                  /\ idx'[u] = idx[u]
  BY <1>0 DEF StartCall, Interrupt, ThreadStep, MakeRoot, MakeSub,
     GetLock, Acquire, CheckIdentical, MkStemp, FdOpen, WriteTemp, FsyncTemp,
     ReplaceTarget, Cleanup, Release, Goto, callVars, histVars
<1>2. \A u \in Threads \ {t} : written'[u] = written[u] /\ same'[u] = same[u]
  <2>1. \A b : \A u \in Threads \ {t} : /\ [written EXCEPT ![t] = b][u] = written[u]
                                        /\ [same EXCEPT ![t] = b][u] = same[u]
    BY <1>0
  <2>2. written' = written \/ \E b : written' = [written EXCEPT ![t] = b]
    BY DEF StartCall, Interrupt, ThreadStep, MakeRoot, MakeSub,
       GetLock, Acquire, CheckIdentical, MkStemp, FdOpen, WriteTemp, FsyncTemp,
       ReplaceTarget, Cleanup, Release, callVars
  <2>3. same' = same \/ \E b : same' = [same EXCEPT ![t] = b]
    BY DEF StartCall, Interrupt, ThreadStep, MakeRoot, MakeSub,
       GetLock, Acquire, CheckIdentical, MkStemp, FdOpen, WriteTemp, FsyncTemp,
       ReplaceTarget, Cleanup, Release, histVars
  <2> QED
    BY <2>1, <2>2, <2>3, ZenonT(60)
<1>3. dirs \subseteq dirs'
  BY DEF StartCall, Interrupt, ThreadStep, MakeRoot, MakeSub,
     GetLock, Acquire, CheckIdentical, MkStemp, FdOpen, WriteTemp, FsyncTemp,
     ReplaceTarget, Cleanup, Release, fsVars
<1> QED
  BY <1>1, <1>2, <1>3

\* Only os.replace changes what readers see.
LEMMA OnlyReplace ==
    ASSUME Typing, NEW t \in Threads, StartCall(t) \/ ThreadStep(t) \/ Interrupt(t)
    PROVE  \/ /\ content' = content
              /\ last' = last
              /\ \A u \in Threads \ {t} : alone'[u] = alone[u]
              /\ ~StartCall(t) => alone' = alone
           \/ /\ pc[t] = "replace"
              /\ pc'[t] = "cleanup"
              /\ content' = [content EXCEPT ![File(t)] = Moved(t)]
              /\ last' = [last EXCEPT ![File(t)] = t]
              /\ \A u \in Threads \ {t} : ~alone'[u]
              /\ alone'[t] = alone[t]
              /\ result'[t] = "changed"
<1>0. /\ pc \in [Threads -> Resting \cup Before \cup Critical]
      /\ result \in [Threads -> {"none", "changed", "unchanged"}]
      /\ alone \in [Threads -> BOOLEAN]
  BY DEF Typing, TypeOK
<1>1. CASE ReplaceTarget(t)
  <2>1. CASE UNCHANGED <<content, last, alone>>
    BY <2>1
  <2>2. CASE ~UNCHANGED <<content, last, alone>>
    <3>1. /\ pc[t] = "replace"
          /\ pc'[t] = "cleanup"
          /\ content' = [content EXCEPT ![File(t)] = Moved(t)]
          /\ last' = [last EXCEPT ![File(t)] = t]
          /\ alone' = [u \in Threads |-> alone[u] /\ u = t]
          /\ result'[t] = "changed"
      BY <1>0, <1>1, <2>2 DEF ReplaceTarget, Goto
    <3>2. (\A u \in Threads \ {t} : ~alone'[u]) /\ alone'[t] = alone[t]
      BY <1>0, <3>1
    <3> QED
      BY <3>1, <3>2
  <2> QED
    BY <2>1, <2>2
<1>2. CASE StartCall(t)
  BY <1>0, <1>2 DEF StartCall, fsVars
<1>3. CASE ~ReplaceTarget(t) /\ ~StartCall(t)
  BY <1>3 DEF Interrupt, ThreadStep, MakeRoot, MakeSub,
     GetLock, Acquire, CheckIdentical, MkStemp, FdOpen, WriteTemp, FsyncTemp,
     Cleanup, Release, fsVars, histVars
<1> QED
  BY <1>1, <1>2, <1>3

\* The checks of a call, in the order it makes them: its plan is accepted
\* before it runs, its target is no symbolic link once it asks for the lock,
\* and the directory exists once it has a temporary file there.
Checked ==
    \A t \in Threads :
        /\ pc[t] \notin Resting => Plannable(job[t].items)
        /\ pc[t] \in {"getlock", "acquire"} \cup Critical => File(t) \notin Links
        /\ pc[t] \in Replacing => DirOf[File(t)] \in dirs

\* What a call has established about its target holds until it is used.
LEMMA CheckedStep == Typing /\ Checked /\ [Next]_vars => Checked'
<1> SUFFICES ASSUME Typing, Checked, [Next]_vars PROVE Checked'
  OBVIOUS
<1>0. /\ pc \in [Threads -> Resting \cup Before \cup Critical]
      /\ job \in [Threads -> Jobs \cup {NoJob}]
  BY DEF Typing, TypeOK
<1>f. ASSUME NEW u \in Threads, pc'[u] = pc[u], job'[u] = job[u], idx'[u] = idx[u],
             dirs \subseteq dirs'
      PROVE  /\ pc'[u] \notin Resting => Plannable(job'[u].items)
             /\ pc'[u] \in {"getlock", "acquire"} \cup Critical => File(u)' \notin Links
             /\ pc'[u] \in Replacing => DirOf[File(u)'] \in dirs'
  <2>1. File(u)' = File(u)
    BY <1>f DEF File, Path, Item
  <2> QED
    BY <1>f, <2>1 DEF Checked
<1>1. ASSUME NEW t \in Threads, StartCall(t) \/ ThreadStep(t) \/ Interrupt(t)
      PROVE  Checked'
  <2>1. ASSUME NEW u \in Threads \ {t}
        PROVE  /\ pc'[u] = pc[u] /\ job'[u] = job[u] /\ idx'[u] = idx[u]
               /\ dirs \subseteq dirs'
    BY <1>1, OwnStep
  <2>2. /\ pc'[t] \notin Resting => Plannable(job'[t].items)
        /\ pc'[t] \in {"getlock", "acquire"} \cup Critical => File(t)' \notin Links
        /\ pc'[t] \in Replacing => DirOf[File(t)'] \in dirs'
    <3>1. CASE StartCall(t)
      <4>1. PICK j \in Jobs :
               /\ job' = [job EXCEPT ![t] = j]
               /\ Goto(t, IF Plannable(j.items) THEN "root" ELSE "raised")
        BY <3>1 DEF StartCall
      <4>2. /\ job'[t] = j
            /\ pc'[t] \in {"root", "raised"}
            /\ pc'[t] = "root" => Plannable(j.items)
        BY <1>0, <4>1 DEF Goto
      <4> QED
        BY <4>2 DEF Resting, Critical, Replacing
    <3>2. CASE Release(t)
      <4>1. /\ job'[t] = job[t] /\ pc[t] \notin Resting
            /\ pc'[t] \in {"raised", "returned", "root"}
        BY <1>0, <3>2 DEF Release, Goto, Resting
      <4> QED
        BY <4>1 DEF Checked, Resting, Critical, Replacing
    <3>3. CASE ~StartCall(t) /\ ~Release(t)
      <4>1. UNCHANGED <<job, idx>> /\ pc[t] \notin Resting /\ dirs \subseteq dirs'
        BY <1>1, <3>3, OwnStep
           DEF Interrupt, ThreadStep, MakeRoot, MakeSub, GetLock, Acquire,
               CheckIdentical, MkStemp, FdOpen, WriteTemp, FsyncTemp,
               ReplaceTarget, Cleanup, callVars, Resting, Before, Replacing
      <4>2. File(t)' = File(t)
        BY <4>1 DEF File, Path, Item
      <4>3. pc'[t] \in {"getlock", "acquire"} \cup Critical =>
               pc[t] \in {"getlock", "acquire"} \cup Critical \/ File(t) \notin Links
        BY <1>0, <1>1, <3>3
           DEF Interrupt, ThreadStep, MakeRoot, MakeSub, GetLock, Acquire,
               CheckIdentical, MkStemp, FdOpen, WriteTemp, FsyncTemp,
               ReplaceTarget, Cleanup, Goto, Before, Replacing, Critical
      <4>4. pc'[t] \in Replacing => pc[t] \in Replacing \/ DirOf[File(t)] \in dirs
        BY <1>0, <1>1, <3>3
           DEF Interrupt, ThreadStep, MakeRoot, MakeSub, GetLock, Acquire,
               CheckIdentical, MkStemp, FdOpen, WriteTemp, FsyncTemp,
               ReplaceTarget, Cleanup, Goto, Before, Replacing
      <4> QED
        BY <4>1, <4>2, <4>3, <4>4 DEF Checked
    <3> QED
      BY <3>1, <3>2, <3>3
  <2> QED
    BY <1>f, <2>1, <2>2 DEF Checked
<1>2. ASSUME NEW D, Vanish(D) PROVE Checked'
  <2>1. ASSUME NEW u \in Threads PROVE pc'[u] = "idle" \/ pc'[u] = pc[u]
    BY <1>2 DEF Vanish
  <2>2. UNCHANGED <<job, idx, dirs>>
    BY <1>2 DEF Vanish
  <2> QED
    BY <1>f, <2>1, <2>2 DEF Checked, Resting, Critical, Replacing
<1>3. CASE UNCHANGED vars
  BY <1>3, <1>f DEF vars, Checked
<1> QED
  BY <1>1, <1>2, <1>3 DEF Next, Kill, PowerLoss

\* A thread about to call os.replace has a target that passed every check: the
\* path was accepted by the plan, the file is no symbolic link, and the
\* directory the temporary file is in still exists.
THEOREM ReplacesOnlyChecked == Spec => []ReplaceIsChecked
<1>1. Init => Checked
  BY ZenonT(60) DEF Init, Checked, Resting, Critical, Replacing
<1>2. Typing /\ Checked => ReplaceIsChecked
  <2> SUFFICES ASSUME Typing, Checked, NEW t \in Threads, pc[t] = "replace"
               PROVE  /\ Path(t) \notin RefusedPaths
                      /\ File(t) \notin Links
                      /\ DirOf[File(t)] \in dirs
    BY DEF ReplaceIsChecked
  <2>1. Plannable(job[t].items) /\ File(t) \notin Links /\ DirOf[File(t)] \in dirs
    BY DEF Checked, Resting, Critical, Replacing
  <2>2. idx[t] \in 1..Len(job[t].items)
    <3>1. pc[t] \notin Resting
      BY DEF Resting
    <3> QED
      BY <3>1 DEF Typing, TypeOK, NoJob
  <2> QED
    BY <2>1, <2>2 DEF Plannable, Path, Item
<1> QED
  BY TypingInit, TypingStep, CheckedStep, <1>1, <1>2, PTL DEF Spec

\* The last writer of t's file is one that t's target lock does not keep out.
Overtaken(t) ==
    /\ last[File(t)] \in Threads \ {t}
    /\ \/ ProcOf[last[File(t)]] # ProcOf[t]
       \/ \E p \in Paths \ {Path(t)} : FileOf[p] = File(t)

\* Once write_bytes has an outcome, the file holds the payload, unless it was
\* overtaken, until the lock is released.
Answered ==
    \A t \in Threads :
        pc[t] \in {"cleanup", "release"} /\ result[t] # "none"
            => content[File(t)] = Data(t) \/ Overtaken(t)

\* No thread that the target lock reaches comes between the replace, or the
\* comparison, and the answer.
LEMMA AnsweredStep ==
    /\ Typing
    /\ TargetExclusion
    /\ SyncedBeforeReplace
    /\ OutcomeInv
    /\ Answered
    /\ [Next]_vars
    => Answered'
<1> SUFFICES ASSUME Typing, TargetExclusion, SyncedBeforeReplace, OutcomeInv,
                    Answered, [Next]_vars
             PROVE  Answered'
  OBVIOUS
<1>0. /\ pc \in [Threads -> Resting \cup Before \cup Critical]
      /\ result \in [Threads -> {"none", "changed", "unchanged"}]
      /\ content \in [Files -> Contents \cup {Absent, Torn}]
      /\ last \in [Files -> Threads \cup {None}]
  BY DEF Typing, TypeOK
<1>n. ASSUME NEW u \in Threads, job'[u] = job[u], idx'[u] = idx[u]
      PROVE  File(u)' = File(u) /\ Data(u)' = Data(u) /\ Path(u)' = Path(u)
  BY <1>n DEF File, Data, Path, Item
<1>f. ASSUME NEW u \in Threads, job'[u] = job[u], idx'[u] = idx[u],
             pc[u] \in {"cleanup", "release"}, result[u] # "none",
             content'[File(u)] = content[File(u)], last'[File(u)] = last[File(u)]
      PROVE  content'[File(u)'] = Data(u)' \/ Overtaken(u)'
  <2>1. content[File(u)] = Data(u) \/ Overtaken(u)
    BY <1>f DEF Answered
  <2> QED
    BY <1>f, <1>n, <2>1 DEF Overtaken
\* The thread itself: an outcome is new only in os.replace and in the comparison.
<1>1. ASSUME NEW t \in Threads, StartCall(t) \/ ThreadStep(t) \/ Interrupt(t),
             pc'[t] \in {"cleanup", "release"}, result'[t] # "none"
      PROVE  content'[File(t)'] = Data(t)' \/ Overtaken(t)'
  <2>1. ~StartCall(t) /\ ~Release(t)
    BY <1>0, <1>1 DEF StartCall, Release, Goto
  <2>2. UNCHANGED <<job, idx>> /\ pc[t] \notin Resting
    BY <1>1, <2>1
       DEF Interrupt, ThreadStep, MakeRoot, MakeSub, GetLock, Acquire,
           CheckIdentical, MkStemp, FdOpen, WriteTemp, FsyncTemp,
           ReplaceTarget, Cleanup, callVars, Resting, Before, Replacing
  <2>3. File(t)' = File(t) /\ Data(t)' = Data(t)
    BY <1>n, <2>2
  <2>4. CASE /\ pc[t] = "replace"
             /\ content' = [content EXCEPT ![File(t)] = Moved(t)]
    <3>1. File(t) \in Files
      BY <2>2, ItemType DEF Typing
    <3>2. Moved(t) = Data(t)
      BY <2>4 DEF SyncedBeforeReplace, Moved
    <3> QED
      BY <1>0, <2>3, <2>4, <3>1, <3>2
  <2>5. CASE content' = content /\ last' = last
    <3>1. CASE result' = result
      <4>1. pc[t] \in {"cleanup", "release"} \cup Before \cup
                      {"check", "mkstemp", "fdopen", "write", "fsync", "replace"}
        BY <1>0, <2>2 DEF Critical
      <4>2. pc[t] \in {"cleanup", "release"}
        BY <1>1, <3>1, <4>1 DEF OutcomeInv
      <4> QED
        BY <1>1, <1>f, <2>2, <2>5, <3>1, <4>2
    <3>2. CASE result' # result
      <4>1. ReplaceTarget(t) \/ CheckIdentical(t)
        BY <1>1, <2>1, <3>2
           DEF Interrupt, ThreadStep, MakeRoot, MakeSub, GetLock, Acquire,
               MkStemp, FdOpen, WriteTemp, FsyncTemp, Cleanup
      <4>2. CASE ReplaceTarget(t)
        <5>1. content' = [content EXCEPT ![File(t)] = Moved(t)] /\ pc[t] = "replace"
          BY <3>2, <4>2 DEF ReplaceTarget
        <5> QED
          BY <2>4, <5>1
      <4>3. CASE CheckIdentical(t)
        <5>1. content[File(t)] = Data(t)
          BY <3>2, <4>3 DEF CheckIdentical
        <5> QED
          BY <2>3, <2>5, <5>1
      <4> QED
        BY <4>1, <4>2, <4>3
    <3> QED
      BY <3>1, <3>2
  <2> QED
    BY <1>1, <2>4, <2>5, OnlyReplace
\* Another thread: if it replaces this file, the lock let it, for one of two
\* reasons.
<1>2. ASSUME NEW t \in Threads, StartCall(t) \/ ThreadStep(t) \/ Interrupt(t),
             NEW u \in Threads \ {t},
             pc'[u] \in {"cleanup", "release"}, result'[u] # "none"
      PROVE  content'[File(u)'] = Data(u)' \/ Overtaken(u)'
  <2>1. /\ pc[u] \in {"cleanup", "release"}
        /\ result[u] # "none"
        /\ job'[u] = job[u]
        /\ idx'[u] = idx[u]
    BY <1>2, OwnStep
  <2>2. CASE content' = content /\ last' = last
    BY <1>f, <2>1, <2>2
  <2>3. CASE /\ pc[t] = "replace"
             /\ content' = [content EXCEPT ![File(t)] = Moved(t)]
             /\ last' = [last EXCEPT ![File(t)] = t]
    <3>1. /\ File(t) \in Files
          /\ Path(t) \in Paths
          /\ File(u) \in Files
          /\ Path(u) \in Paths
      BY <2>1, <2>3, ItemType DEF Typing, Resting
    <3>2. CASE File(u) # File(t)
      <4>1. content'[File(u)] = content[File(u)] /\ last'[File(u)] = last[File(u)]
        BY <1>0, <2>3, <3>1, <3>2
      <4> QED
        BY <1>f, <2>1, <4>1
    <3>3. CASE File(u) = File(t)
      <4>1. last'[File(u)] = t
        BY <1>0, <2>3, <3>1, <3>3
      <4>2. ProcOf[t] = ProcOf[u] => Path(t) # Path(u)
        BY <2>1, <2>3 DEF TargetExclusion, Critical
      <4>3. FileOf[Path(t)] = File(u)
        BY <3>3 DEF File
      <4>4. File(u)' = File(u) /\ Path(u)' = Path(u)
        BY <1>n, <2>1
      <4> QED
        BY <3>1, <4>1, <4>2, <4>3, <4>4 DEF Overtaken
    <3> QED
      BY <3>2, <3>3
  <2> QED
    BY <1>2, <2>2, <2>3, OnlyReplace
<1>3. ASSUME NEW x \in Procs, Kill(x), NEW u \in Threads,
             pc'[u] \in {"cleanup", "release"}, result'[u] # "none"
      PROVE  content'[File(u)'] = Data(u)' \/ Overtaken(u)'
  <2>1. /\ UNCHANGED <<content, last, job, idx>>
        /\ pc'[u] = "idle" \/ pc'[u] = pc[u]
        /\ result'[u] = "none" \/ result'[u] = result[u]
    BY <1>3 DEF Kill, Vanish
  <2> QED
    BY <1>3, <1>f, <2>1
<1>4. ASSUME PowerLoss, NEW u \in Threads
      PROVE  pc'[u] = "idle"
  BY <1>4 DEF PowerLoss, Vanish
<1>5. ASSUME UNCHANGED vars, NEW u \in Threads,
             pc'[u] \in {"cleanup", "release"}, result'[u] # "none"
      PROVE  content'[File(u)'] = Data(u)' \/ Overtaken(u)'
  BY <1>5, <1>f DEF vars
<1>6. ASSUME NEW u \in Threads, pc'[u] \in {"cleanup", "release"}, result'[u] # "none"
      PROVE  content'[File(u)'] = Data(u)' \/ Overtaken(u)'
  BY <1>1, <1>2, <1>3, <1>4, <1>5, <1>6 DEF Next
<1> QED
  BY <1>6 DEF Answered

\* The answer of write_bytes is true: while it still holds the target lock, the
\* file holds the payload, unless a process the lock does not reach, or a path
\* the lock does not know to be the same file, has replaced it since.
THEOREM AnswersAreTrue == Spec => []AnswerIsTrue
<1>1. Init => SyncedBeforeReplace /\ OutcomeInv /\ Answered
  BY DEF Init, SyncedBeforeReplace, OutcomeInv, Answered, Before
<1>2. OutcomeInv /\ Answered => AnswerIsTrue
  <2> SUFFICES ASSUME OutcomeInv, Answered,
                      NEW t \in Threads, pc[t] = "release", ~exc[t]
               PROVE  content[File(t)] = Data(t) \/ Overtaken(t)
    BY DEF AnswerIsTrue, Overtaken
  <2> QED
    BY DEF OutcomeInv, Answered
<1> QED
  BY TypingInit, TypingStep, Exclusion, SyncedStep, OutcomeStep, AnsweredStep,
     <1>1, <1>2, PTL DEF Spec

\* Every artifact of the call is on disk with the bytes the call brings.
OnDisk(t) ==
    \A i \in 1..Len(job[t].items) :
        content[FileOf[job[t].items[i].path]] = job[t].items[i].data

\* A call that skips identical bytes, found every artifact on disk and was
\* alone since, never gets as far as a temporary file.
Settled(t) ==
    /\ OnDisk(t)
    /\ \A i \in 1..Len(written[t]) : ~written[t][i]
    /\ result[t] # "changed"
    /\ pc[t] \in Resting \cup Before \cup {"check", "release"}

Undisturbed ==
    \A t \in Threads : alone[t] /\ same[t] /\ job[t].skip_identical => Settled(t)

\* A flag added to a list.
LEMMA FlagAppended ==
    ASSUME NEW s \in Seq(BOOLEAN), NEW b \in BOOLEAN
    PROVE  /\ Len(Append(s, b)) = Len(s) + 1
           /\ \A i \in 1..Len(s) : Append(s, b)[i] = s[i]
           /\ Append(s, b)[Len(s) + 1] = b
OBVIOUS

\* An undisturbed call whose artifacts were on disk finds each of them there.
LEMMA UndisturbedStep ==
    /\ Typing
    /\ OutcomeInv
    /\ Undisturbed
    /\ [Next]_vars
    => Undisturbed'
<1> SUFFICES ASSUME Typing, OutcomeInv, Undisturbed, [Next]_vars
             PROVE  Undisturbed'
  OBVIOUS
<1>0. /\ pc \in [Threads -> Resting \cup Before \cup Critical]
      /\ result \in [Threads -> {"none", "changed", "unchanged"}]
      /\ job \in [Threads -> Jobs \cup {NoJob}]
      /\ written \in [Threads -> Seq(BOOLEAN)]
      /\ alone \in [Threads -> BOOLEAN]
      /\ same \in [Threads -> BOOLEAN]
      /\ content \in [Files -> Contents \cup {Absent, Torn}]
  BY DEF Typing, TypeOK
<1>f. ASSUME NEW u \in Threads, job'[u] = job[u], written'[u] = written[u],
             alone'[u] = alone[u], same'[u] = same[u],
             result'[u] \in {result[u], "none"}, pc'[u] \in {pc[u], "idle"},
             content' = content, alone'[u] /\ same'[u] /\ job'[u].skip_identical
      PROVE  Settled(u)'
  <2>1. Settled(u)
    BY <1>f DEF Undisturbed
  <2> QED
    BY <1>f, <2>1 DEF Settled, OnDisk, Resting
<1>1. ASSUME NEW t \in Threads, StartCall(t) \/ ThreadStep(t) \/ Interrupt(t),
             alone'[t], same'[t], job'[t].skip_identical
      PROVE  Settled(t)'
  <2>1. CASE StartCall(t)
    <3>1. PICK j \in Jobs :
             /\ job' = [job EXCEPT ![t] = j]
             /\ Goto(t, IF Plannable(j.items) THEN "root" ELSE "raised")
             /\ same' = [same EXCEPT ![t] = \A i \in 1..Len(j.items) :
                            content[FileOf[j.items[i].path]] = j.items[i].data]
      BY <2>1 DEF StartCall
    <3>2. /\ job'[t] = j
          /\ pc'[t] \in {"root", "raised"}
          /\ \A i \in 1..Len(j.items) :
                content[FileOf[j.items[i].path]] = j.items[i].data
      BY <1>0, <1>1, <3>1 DEF Goto
    <3>3. /\ content' = content
          /\ written'[t] = <<>>
          /\ result'[t] = "none"
      BY <1>0, <2>1 DEF StartCall, fsVars
    <3> QED
      BY <3>2, <3>3 DEF Settled, OnDisk, Resting, Before
  <2>2. CASE ~StartCall(t)
    <3>1. job' = job /\ (same'[t] => same[t]) /\ pc[t] \notin Resting
      BY <1>0, <1>1, <2>2
         DEF Interrupt, ThreadStep, MakeRoot, MakeSub, GetLock, Acquire,
             CheckIdentical, MkStemp, FdOpen, WriteTemp, FsyncTemp,
             ReplaceTarget, Cleanup, Release, callVars, histVars, Resting,
             Before, Replacing
    <3>2. alone[t]
      BY <1>1, <2>2, OnlyReplace
    <3>3. Settled(t)
      BY <1>1, <3>1, <3>2 DEF Undisturbed
    <3>4. pc[t] \in Before \cup {"check", "release"}
      BY <3>1, <3>3 DEF Settled
    <3>5. content' = content
      BY <1>1, <3>4, OnlyReplace DEF Before
    <3>6. OnDisk(t)'
      BY <3>1, <3>3, <3>5 DEF Settled, OnDisk
    <3>7. CASE Release(t) /\ ~exc[t]
      <4>1. /\ written' = [written EXCEPT ![t] = Append(@, result[t] = "changed")]
            /\ result'[t] \in {result[t], "none"}
            /\ pc'[t] \in {"returned", "root"}
        BY <1>0, <3>7 DEF Release, Goto
      <4>2. (result[t] = "changed") = FALSE
        BY <3>3 DEF Settled
      <4>3. written'[t] = Append(written[t], FALSE)
        BY <1>0, <4>1, <4>2
      <4>4. \A i \in 1..Len(written'[t]) : ~written'[t][i]
        BY <1>0, <3>3, <4>3, FlagAppended DEF Settled
      <4> QED
        BY <3>3, <3>6, <4>1, <4>4 DEF Settled, Resting, Before
    <3>8. CASE ~(Release(t) /\ ~exc[t])
      <4>1. written' = written
        BY <1>1, <2>2, <3>8
           DEF Interrupt, ThreadStep, MakeRoot, MakeSub, GetLock, Acquire,
               CheckIdentical, MkStemp, FdOpen, WriteTemp, FsyncTemp,
               ReplaceTarget, Cleanup, Release, callVars
      <4>2. CASE CheckIdentical(t)
        <5>1. Item(t) = job[t].items[idx[t]] /\ idx[t] \in 1..Len(job[t].items)
          BY <3>1 DEF Typing, TypeOK, NoJob, Item
        <5>2. content[File(t)] = Data(t)
          BY <3>3, <5>1 DEF Settled, OnDisk, File, Path, Data
        <5>3. result'[t] = "unchanged" /\ pc'[t] = "release"
          BY <1>0, <1>1, <3>1, <4>2, <5>2 DEF CheckIdentical, Goto
        <5> QED
          BY <3>3, <3>6, <4>1, <5>3 DEF Settled
      <4>3. CASE ~CheckIdentical(t)
        <5>1. result'[t] = result[t]
          BY <1>1, <2>2, <3>4, <3>8, <4>3
             DEF Interrupt, ThreadStep, MakeRoot, MakeSub, GetLock, Acquire,
                 MkStemp, FdOpen, WriteTemp, FsyncTemp, ReplaceTarget, Cleanup,
                 Release, Before
        <5>2. pc'[t] \in {"sub", "getlock", "acquire", "check", "release", "raised"}
          BY <1>0, <1>1, <2>2, <3>4, <3>8, <4>3
             DEF Interrupt, ThreadStep, MakeRoot, MakeSub, GetLock, Acquire,
                 MkStemp, FdOpen, WriteTemp, FsyncTemp, ReplaceTarget, Cleanup,
                 Release, Before, Goto, Replacing
        <5> QED
          BY <3>3, <3>6, <4>1, <5>1, <5>2 DEF Settled, Resting, Before
      <4> QED
        BY <4>2, <4>3
    <3> QED
      BY <3>7, <3>8
  <2> QED
    BY <2>1, <2>2
<1>2. ASSUME NEW t \in Threads, StartCall(t) \/ ThreadStep(t) \/ Interrupt(t),
             NEW u \in Threads \ {t},
             alone'[u], same'[u], job'[u].skip_identical
      PROVE  Settled(u)'
  <2>1. content' = content /\ alone'[u] = alone[u]
    BY <1>2, OnlyReplace
  <2> QED
    BY <1>2, <1>f, <2>1, OwnStep
<1>3. ASSUME NEW x \in Procs, Kill(x), NEW u \in Threads,
             alone'[u], same'[u], job'[u].skip_identical
      PROVE  Settled(u)'
  <2>1. /\ UNCHANGED <<content, alone, same, job, written>>
        /\ pc'[u] = "idle" \/ pc'[u] = pc[u]
        /\ result'[u] = "none" \/ result'[u] = result[u]
    BY <1>3 DEF Kill, Vanish
  <2> QED
    BY <1>3, <1>f, <2>1
<1>4. ASSUME PowerLoss, NEW u \in Threads PROVE ~alone'[u]
  BY <1>4 DEF PowerLoss
<1>5. ASSUME UNCHANGED vars, NEW u \in Threads,
             alone'[u], same'[u], job'[u].skip_identical
      PROVE  Settled(u)'
  BY <1>5, <1>f DEF vars
<1>6. ASSUME NEW u \in Threads, alone'[u], same'[u], job'[u].skip_identical
      PROVE  Settled(u)'
  BY <1>1, <1>2, <1>3, <1>4, <1>5, <1>6 DEF Next
<1> QED
  BY <1>6 DEF Undisturbed

\* The IDEMPOTENCE contract: a call with skip_identical whose artifacts were all
\* on disk when it began, and which nobody disturbs, reports no file as changed.
THEOREM RewritesNothing == Spec => []IdempotentRun
<1>1. Init => OutcomeInv /\ Undisturbed
  BY DEF Init, OutcomeInv, Undisturbed, Before
<1>2. Undisturbed => IdempotentRun
  BY DEF Undisturbed, Settled, IdempotentRun
<1> QED
  BY TypingInit, TypingStep, OutcomeStep, UndisturbedStep, <1>1, <1>2, PTL DEF Spec

\* The artifacts the call is done with are on disk as it brought them, as long
\* as it is alone, and so is the one it has just written; a bundle returns with
\* an outcome for each of its artifacts.
Done(t) ==
    /\ pc[t] = "returned" => Len(written[t]) = Len(job[t].items)
    /\ pc[t] \notin Resting => Len(written[t]) + 1 = idx[t]
    /\ Len(written[t]) <= Len(job[t].items)
    /\ \A i \in 1..Len(written[t]) :
          content[FileOf[job[t].items[i].path]] = job[t].items[i].data
    /\ pc[t] \in {"cleanup", "release"} /\ result[t] # "none"
          => content[File(t)] = Data(t)

Accomplished == \A t \in Threads : alone[t] => Done(t)

\* Two artifacts of an accepted bundle are two files.
LEMMA BundleIsApart ==
    ASSUME Typing, NEW t \in Threads, job[t] \in Jobs, Plannable(job[t].items),
           NEW i \in 1..Len(job[t].items), NEW j \in 1..Len(job[t].items), i # j
    PROVE  FileOf[job[t].items[i].path] # FileOf[job[t].items[j].path]
<1>1. job[t].items \in Seq(Items)
  BY JobAssumption DEF JobSpace
<1>2. job[t].items[i] \in Items /\ job[t].items[j] \in Items
  BY <1>1
<1>3. job[t].items[i].path \in Paths /\ job[t].items[j].path \in Paths
  BY <1>2 DEF Items
<1> QED
  BY <1>3, FileAssumption DEF Plannable

\* What an undisturbed call has written stays until it returns.
LEMMA AccomplishedStep ==
    /\ Typing
    /\ Checked
    /\ SyncedBeforeReplace
    /\ OutcomeInv
    /\ Accomplished
    /\ [Next]_vars
    => Accomplished'
<1> SUFFICES ASSUME Typing, Checked, SyncedBeforeReplace, OutcomeInv,
                    Accomplished, [Next]_vars
             PROVE  Accomplished'
  OBVIOUS
<1>0. /\ pc \in [Threads -> Resting \cup Before \cup Critical]
      /\ result \in [Threads -> {"none", "changed", "unchanged"}]
      /\ job \in [Threads -> Jobs \cup {NoJob}]
      /\ idx \in [Threads -> Nat \ {0}]
      /\ written \in [Threads -> Seq(BOOLEAN)]
      /\ alone \in [Threads -> BOOLEAN]
      /\ content \in [Files -> Contents \cup {Absent, Torn}]
  BY DEF Typing, TypeOK
<1>n. ASSUME NEW u \in Threads, job'[u] = job[u], idx'[u] = idx[u]
      PROVE  File(u)' = File(u) /\ Data(u)' = Data(u)
  BY <1>n DEF File, Data, Path, Item
<1>f. ASSUME NEW u \in Threads, job'[u] = job[u], idx'[u] = idx[u],
             written'[u] = written[u], alone'[u] = alone[u],
             result'[u] \in {result[u], "none"}, pc'[u] \in {pc[u], "idle"},
             content' = content, alone'[u]
      PROVE  Done(u)'
  <2>1. Done(u)
    BY <1>f DEF Accomplished
  <2> QED
    BY <1>f, <1>n, <2>1 DEF Done, Resting
<1>1. ASSUME NEW t \in Threads, StartCall(t) \/ ThreadStep(t) \/ Interrupt(t), alone'[t]
      PROVE  Done(t)'
  <2>1. CASE StartCall(t)
    <3>1. PICK j \in Jobs :
             /\ job' = [job EXCEPT ![t] = j]
             /\ Goto(t, IF Plannable(j.items) THEN "root" ELSE "raised")
      BY <2>1 DEF StartCall
    <3>2. /\ job'[t] = j
          /\ pc'[t] \in {"root", "raised"}
          /\ written'[t] = <<>>
          /\ idx'[t] = 1
      BY <1>0, <2>1, <3>1 DEF Goto, StartCall
    <3>3. Len(j.items) \in Nat
      BY JobAssumption DEF JobSpace
    <3> QED
      BY <3>2, <3>3 DEF Done
  <2>2. CASE ~StartCall(t)
    <3>1. job' = job /\ pc[t] \notin Resting
      BY <1>1, <2>2
         DEF Interrupt, ThreadStep, MakeRoot, MakeSub, GetLock, Acquire,
             CheckIdentical, MkStemp, FdOpen, WriteTemp, FsyncTemp,
             ReplaceTarget, Cleanup, Release, callVars, Resting,
             Before, Replacing
    <3>2. Done(t)
      BY <1>1, <2>2, OnlyReplace DEF Accomplished
    <3>3. /\ idx[t] \in 1..Len(job[t].items)
          /\ Len(written[t]) + 1 = idx[t]
          /\ Len(job[t].items) \in Nat
          /\ job[t] \in Jobs
      BY <1>0, <3>1, <3>2 DEF Typing, TypeOK, NoJob, Done
    <3>4. CASE Release(t) /\ ~exc[t]
      <4>1. /\ written' = [written EXCEPT ![t] = Append(@, result[t] = "changed")]
            /\ \/ /\ idx[t] = Len(job[t].items)
                  /\ pc'[t] = "returned"
               \/ /\ idx[t] # Len(job[t].items)
                  /\ pc'[t] = "root"
                  /\ idx'[t] = idx[t] + 1
        BY <1>0, <3>4 DEF Release, Goto
      <4>2. PICK b \in BOOLEAN : written'[t] = Append(written[t], b)
        BY <1>0, <4>1
      <4>3. Len(written'[t]) = idx[t]
        BY <1>0, <3>3, <4>2, FlagAppended
      <4>4. content[File(t)] = Data(t) /\ content' = content
        BY <3>2, <3>4 DEF Release, OutcomeInv, Done, fsVars
      <4>5. \A i \in 1..idx[t] :
               content[FileOf[job[t].items[i].path]] = job[t].items[i].data
        <5>1. TAKE i \in 1..idx[t]
        <5>2. CASE i = idx[t]
          BY <4>4, <5>2 DEF File, Data, Path, Item
        <5>3. CASE i # idx[t]
          <6>1. i \in 1..Len(written[t])
            BY <1>0, <3>3, <5>3
          <6> QED
            BY <3>2, <6>1 DEF Done
        <5> QED
          BY <5>2, <5>3
      <4> QED
        BY <3>1, <3>3, <4>1, <4>3, <4>4, <4>5 DEF Done, Resting
    <3>5. CASE ~(Release(t) /\ ~exc[t])
      <4>1. UNCHANGED <<written, idx>> /\ pc'[t] # "returned"
        BY <1>0, <1>1, <2>2, <3>5
           DEF Interrupt, ThreadStep, MakeRoot, MakeSub, GetLock, Acquire,
               CheckIdentical, MkStemp, FdOpen, WriteTemp, FsyncTemp,
               ReplaceTarget, Cleanup, Release, callVars, Goto
      <4>2. File(t)' = File(t) /\ Data(t)' = Data(t)
        BY <1>n, <3>1, <4>1
      <4>3. CASE /\ pc[t] = "replace"
                 /\ content' = [content EXCEPT ![File(t)] = Moved(t)]
        <5>1. Moved(t) = Data(t)
          BY <4>3 DEF SyncedBeforeReplace, Moved
        <5>2. File(t) \in Files
          BY <3>1, ItemType DEF Typing
        <5>3. content'[File(t)] = Data(t)
          BY <1>0, <4>3, <5>1, <5>2
        <5>4. ASSUME NEW i \in 1..Len(written[t])
              PROVE  content'[FileOf[job[t].items[i].path]] = job[t].items[i].data
          <6>1. i \in 1..Len(job[t].items) /\ i # idx[t]
            BY <1>0, <3>3
          <6>2. FileOf[job[t].items[i].path] # File(t)
            BY <3>1, <3>3, <6>1, BundleIsApart DEF Checked, File, Path, Item
          <6> QED
            BY <1>0, <3>2, <4>3, <6>2 DEF Done
        <5> QED
          BY <3>1, <3>2, <3>3, <4>1, <4>2, <5>3, <5>4 DEF Done
      <4>4. CASE content' = content
        <5>1. pc'[t] \in {"cleanup", "release"} /\ result'[t] # "none"
                 => content[File(t)] = Data(t)
          <6> SUFFICES ASSUME pc'[t] \in {"cleanup", "release"}, result'[t] # "none"
                       PROVE  content[File(t)] = Data(t)
            OBVIOUS
          <6>1. CASE result' = result
            <7>1. pc[t] \in {"cleanup", "release"} \cup Before \cup
                            {"check", "mkstemp", "fdopen", "write", "fsync", "replace"}
              BY <1>0, <3>1 DEF Critical
            <7>2. pc[t] \in {"cleanup", "release"}
              BY <6>1, <7>1 DEF OutcomeInv
            <7> QED
              BY <3>2, <6>1, <7>2 DEF Done
          <6>2. CASE result' # result
            <7>1. ReplaceTarget(t) \/ CheckIdentical(t)
              BY <1>1, <2>2, <3>5, <6>2
                 DEF Interrupt, ThreadStep, MakeRoot, MakeSub, GetLock, Acquire,
                     MkStemp, FdOpen, WriteTemp, FsyncTemp, Cleanup, Release
            <7>2. CASE ReplaceTarget(t)
              <8>1. /\ pc[t] = "replace"
                    /\ content' = [content EXCEPT ![File(t)] = Moved(t)]
                BY <6>2, <7>2 DEF ReplaceTarget
              <8>2. File(t) \in Files /\ Moved(t) = Data(t)
                BY <3>1, <8>1, ItemType DEF Typing, SyncedBeforeReplace, Moved
              <8> QED
                BY <1>0, <4>4, <8>1, <8>2
            <7>3. CASE CheckIdentical(t)
              BY <6>2, <7>3 DEF CheckIdentical
            <7> QED
              BY <7>1, <7>2, <7>3
          <6> QED
            BY <6>1, <6>2
        <5> QED
          BY <3>1, <3>2, <3>3, <4>1, <4>2, <4>4, <5>1 DEF Done
      <4> QED
        BY <1>1, <4>3, <4>4, OnlyReplace
    <3> QED
      BY <3>4, <3>5
  <2> QED
    BY <2>1, <2>2
<1>2. ASSUME NEW t \in Threads, StartCall(t) \/ ThreadStep(t) \/ Interrupt(t),
             NEW u \in Threads \ {t}, alone'[u]
      PROVE  Done(u)'
  <2>1. content' = content /\ alone'[u] = alone[u]
    BY <1>2, OnlyReplace
  <2> QED
    BY <1>2, <1>f, <2>1, OwnStep
<1>3. ASSUME NEW x \in Procs, Kill(x), NEW u \in Threads, alone'[u]
      PROVE  Done(u)'
  <2>1. /\ UNCHANGED <<content, alone, idx, job, written>>
        /\ pc'[u] = "idle" \/ pc'[u] = pc[u]
        /\ result'[u] = "none" \/ result'[u] = result[u]
    BY <1>3 DEF Kill, Vanish
  <2> QED
    BY <1>3, <1>f, <2>1
<1>4. ASSUME PowerLoss, NEW u \in Threads PROVE ~alone'[u]
  BY <1>4 DEF PowerLoss
<1>5. ASSUME UNCHANGED vars, NEW u \in Threads, alone'[u]
      PROVE  Done(u)'
  BY <1>5, <1>f DEF vars
<1>6. ASSUME NEW u \in Threads, alone'[u] PROVE Done(u)'
  BY <1>1, <1>2, <1>3, <1>4, <1>5, <1>6 DEF Next
<1> QED
  BY <1>6 DEF Accomplished

\* ALIAS SAFETY and completeness of write_outputs: a bundle that returned, with
\* nobody else writing meanwhile, is on disk whole, because plan_outputs refuses
\* two paths that could name one file.
THEOREM BundlesAreComplete == Spec => []BundleComplete
<1>1. Init => Checked /\ SyncedBeforeReplace /\ OutcomeInv /\ Accomplished
  BY DEF Init, Checked, SyncedBeforeReplace, OutcomeInv, Accomplished, Before,
         Resting, Critical, Replacing
<1>2. Accomplished => BundleComplete
  BY DEF Accomplished, Done, BundleComplete
<1> QED
  BY TypingInit, TypingStep, CheckedStep, SyncedStep, OutcomeStep,
     AccomplishedStep, <1>1, <1>2, PTL DEF Spec

-----------------------------------------------------------------------------
(* The length of a call                                                      *)

\* The way of one artifact.  A step of any thread leaves a running call where it
\* is, ends it, or brings it closer to its end, further on this way or at the next
\* artifact of its bundle: no failure and no other thread sends it back.
Way == <<"root", "sub", "getlock", "acquire", "check", "mkstemp", "fdopen", "write",
         "fsync", "replace", "cleanup", "release">>
Further(t) == \E i, j \in DOMAIN Way : i < j /\ Way[i] = pc[t] /\ Way[j] = pc'[t]
Advances(t) ==
    \/ pc'[t] \in Resting
    \/ /\ job'[t] = job[t]
       /\ \/ idx'[t] = idx[t] /\ (pc'[t] = pc[t] \/ Further(t))
          \/ idx'[t] \in (idx[t] + 1)..Len(job[t].items)
CallsAdvance == [][\A t \in Threads : pc[t] \in Resting \/ Advances(t)]_vars

\* A thread goes on along its way, ends its call or takes the next artifact.
LEMMA OwnAdvances ==
    ASSUME Typing, NEW t \in Threads, pc[t] \notin Resting, ThreadStep(t) \/ Interrupt(t)
    PROVE  Advances(t)
<1>0. /\ pc \in [Threads -> Resting \cup Before \cup Critical]
      /\ idx \in [Threads -> Nat \ {0}]
      /\ idx[t] <= Len(job[t].items)
  BY DEF Typing, TypeOK
<1>1. ASSUME job' = job, idx' = idx, NEW to,
             pc' = [pc EXCEPT ![t] = to],
             to \in Resting \/ \E i, j \in DOMAIN Way : i < j /\ Way[i] = pc[t] /\ Way[j] = to
      PROVE  Advances(t)
  BY <1>0, <1>1 DEF Advances, Further
<1>2. CASE MakeRoot(t) \/ MakeSub(t) \/ GetLock(t) \/ Acquire(t)
  <2>1. job' = job /\ idx' = idx
    BY <1>2 DEF MakeRoot, MakeSub, GetLock, Acquire, callVars
  <2>2. \/ pc[t] \in Before /\ pc' = [pc EXCEPT ![t] = "raised"]
        \/ pc[t] = "root" /\ pc' = [pc EXCEPT ![t] = "sub"]
        \/ pc[t] = "sub" /\ pc' = [pc EXCEPT ![t] = "getlock"]
        \/ pc[t] = "getlock" /\ pc' = [pc EXCEPT ![t] = "acquire"]
        \/ pc[t] = "acquire" /\ pc' = [pc EXCEPT ![t] = "check"]
    BY <1>2 DEF MakeRoot, MakeSub, GetLock, Acquire, Goto, Before
  <2> QED
    BY <1>1, <2>1, <2>2 DEF Way, Resting
<1>3. CASE \/ CheckIdentical(t) \/ MkStemp(t) \/ FdOpen(t) \/ WriteTemp(t)
           \/ FsyncTemp(t) \/ ReplaceTarget(t) \/ Cleanup(t)
  <2>1. job' = job /\ idx' = idx
    BY <1>3 DEF CheckIdentical, MkStemp, FdOpen, WriteTemp, FsyncTemp, ReplaceTarget,
                Cleanup, callVars
  <2>2. \/ pc[t] \in {"check", "mkstemp", "cleanup"} /\ pc' = [pc EXCEPT ![t] = "release"]
        \/ pc[t] \in {"fdopen", "write", "fsync", "replace"}
           /\ pc' = [pc EXCEPT ![t] = "cleanup"]
        \/ pc[t] = "check" /\ pc' = [pc EXCEPT ![t] = "mkstemp"]
        \/ pc[t] = "mkstemp" /\ pc' = [pc EXCEPT ![t] = "fdopen"]
        \/ pc[t] = "fdopen" /\ pc' = [pc EXCEPT ![t] = "write"]
        \/ pc[t] = "write" /\ pc' = [pc EXCEPT ![t] = "fsync"]
        \/ pc[t] = "fsync" /\ pc' = [pc EXCEPT ![t] = "replace"]
    BY <1>3 DEF CheckIdentical, MkStemp, FdOpen, WriteTemp, FsyncTemp, ReplaceTarget,
                Cleanup, Goto
  <2> QED
    BY <1>1, <2>1, <2>2 DEF Way
<1>4. CASE Release(t)
  <2>1. job' = job
    BY <1>4 DEF Release
  <2>2. CASE idx[t] # Len(job[t].items) /\ idx' = [idx EXCEPT ![t] = @ + 1]
    <3>1. Len(job[t].items) \in Nat
      BY ItemType, JobAssumption DEF Typing, TypeOK, NoJob, JobSpace
    <3> QED
      BY <1>0, <2>1, <2>2, <3>1 DEF Advances
  <2>3. CASE pc' = [pc EXCEPT ![t] = "raised"] \/ pc' = [pc EXCEPT ![t] = "returned"]
    BY <1>0, <2>3 DEF Advances, Resting
  <2> QED
    BY <1>4, <2>2, <2>3 DEF Release, Goto
<1>5. CASE Interrupt(t)
  <2>1. job' = job /\ idx' = idx
    BY <1>5 DEF Interrupt
  <2>2. \/ pc[t] \in Before /\ pc' = [pc EXCEPT ![t] = "raised"]
        \/ pc[t] \in {"check", "mkstemp", "fdopen", "cleanup"}
           /\ pc' = [pc EXCEPT ![t] = "release"]
        \/ pc[t] \in {"fdopen", "write", "fsync", "replace", "cleanup"}
           /\ pc' = [pc EXCEPT ![t] = "cleanup"]
    BY <1>5 DEF Interrupt, Goto, Replacing
  <2>3. CASE pc[t] = "cleanup" /\ pc' = [pc EXCEPT ![t] = "cleanup"]
    BY <1>0, <2>1, <2>3 DEF Advances
  <2>4. CASE ~(pc[t] = "cleanup" /\ pc' = [pc EXCEPT ![t] = "cleanup"])
    BY <1>1, <2>1, <2>2, <2>4 DEF Way, Resting
  <2> QED
    BY <2>3, <2>4
<1> QED
  BY <1>2, <1>3, <1>4, <1>5 DEF ThreadStep

\* A step of any thread, a kill or a power loss leaves each running call where it
\* is, ends it or brings it closer to its end: the steps of a call are bounded by
\* the length of its bundle, but for interrupts, and nothing sends it back.
THEOREM CallsGoOn == Spec => CallsAdvance
<1> DEFINE All == \A t \in Threads : pc[t] \in Resting \/ Advances(t)
<1>1. Typing /\ [Next]_vars => [All]_vars
  <2> SUFFICES ASSUME Typing, Next, NEW t \in Threads, pc[t] \notin Resting
               PROVE  Advances(t)
    OBVIOUS
  <2>1. ASSUME NEW u \in Threads, StartCall(u) \/ ThreadStep(u) \/ Interrupt(u), u # t
        PROVE  Advances(t)
    <3>1. pc'[t] = pc[t] /\ job'[t] = job[t] /\ idx'[t] = idx[t]
      BY <2>1, OwnStep
    <3> QED
      BY <3>1 DEF Advances
  <2>2. ASSUME StartCall(t) \/ ThreadStep(t) \/ Interrupt(t) PROVE Advances(t)
    BY <2>2, OwnAdvances DEF StartCall
  <2>3. ASSUME NEW D, Vanish(D) PROVE Advances(t)
    BY <2>3 DEF Vanish, Advances, Resting
  <2>4. (\E x \in Procs : Kill(x)) \/ PowerLoss => \E D : Vanish(D)
    BY DEF Kill, PowerLoss
  <2> QED
    BY <2>1, <2>2, <2>3, <2>4 DEF Next
<1>2. Spec => [][All]_vars
  <2> HIDE DEF All
  <2> QED
    BY <1>1, TypingInit, TypingStep, PTL DEF Spec
<1> QED
  BY <1>2 DEF CallsAdvance
===============================================================================
