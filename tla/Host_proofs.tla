----------------------------- MODULE Host_proofs -----------------------------
(***************************************************************************)
(* Proofs about what the program keeps on the host: the files that it      *)
(* writes (AtomicFile), the tools that it installs (Install), and the tools *)
(* that it finds (Detection).  For every set of writers, values and tools, *)
(* and every number of writes, commands, runs, failures and crashes.       *)
(***************************************************************************)
EXTENDS AtomicFile, Install, Detection, TLAPS

(***************************************************************************)
(* The atomic write of a file.                                             *)
(***************************************************************************)

Durable(fs) == \A f \in fs : f.whole /\ f.synced

\* How far the temporary files of a writer are, by its control state.
WriterInv(w) ==
    /\ pc[w] = "copy" => source[w] \in Contents /\ source[w].whole
    /\ pc[w] = "syncBak" => bakTemp[w] \in Contents /\ bakTemp[w].whole
    /\ pc[w] = "renameBak" => bakTemp[w].whole /\ bakTemp[w].synced
    /\ pc[w] = "sync" => temp[w] = Unsynced(new[w])
    /\ pc[w] = "rename" =>
         temp[w] = [value |-> new[w], whole |-> TRUE, synced |-> TRUE]

FilesInv == Durable(mayTarget) /\ Durable(mayBak)

IInv == TypeOK /\ FilesInv /\ \A w \in Writers : WriterInv(w)

-----------------------------------------------------------------------------
(* A file all of whose versions were synced survives as one of them.       *)

LEMMA SurvivorsOfDurable ==
    ASSUME NEW fs, Durable(fs)
    PROVE  Survivors(fs) = fs
BY DEF Survivors, Durable

LEMMA AbsentIsDurable == Absent \in Files /\ Absent.whole /\ Absent.synced
BY DEF Absent, Files

LEMMA InitInv == Init => IInv
<1>. SUFFICES ASSUME Init PROVE IInv
  OBVIOUS
<1>1. TypeOK
  <2>1. /\ target \in Files /\ bak \in Files
        /\ mayTarget \subseteq Files /\ mayBak \subseteq Files
        /\ target \in mayTarget /\ bak \in mayBak
    BY AbsentIsDurable DEF Init
  <2>2. /\ pc \in [Writers -> Steps] /\ new \in [Writers -> Values \cup {None}]
        /\ \A w \in Writers : (pc[w] = "idle" <=> new[w] = None)
    BY DEF Init, Steps
  <2>3. /\ source \in [Writers -> Files]
        /\ temp \in [Writers -> Files] /\ bakTemp \in [Writers -> Files]
    BY AbsentIsDurable DEF Init
  <2>4. crossed \in BOOLEAN /\ up \in BOOLEAN
    BY DEF Init
  <2>5. writes \in 0..MaxWrites /\ failures \in 0..MaxFailures
    BY FileAssumption DEF Init
  <2>. QED BY <2>1, <2>2, <2>3, <2>4, <2>5 DEF TypeOK
<1>2. FilesInv
  BY AbsentIsDurable DEF Init, FilesInv, Durable
<1>3. \A w \in Writers : WriterInv(w)
  BY DEF Init, WriterInv
<1>. QED BY <1>1, <1>2, <1>3 DEF IInv

-----------------------------------------------------------------------------
(* Each step keeps the invariant.                                          *)

LEMMA BeginInv ==
    ASSUME IInv, NEW w \in Writers, NEW v \in Values, Begin(w, v)
    PROVE  IInv'
<1>1. TypeOK'
  <2>1. crossed' \in BOOLEAN
    BY DEF Begin, Busy
  <2>2. IInv /\ Begin(w, v)
    OBVIOUS
  <2>. QED BY <2>1, <2>2, FileAssumption DEF IInv, TypeOK, Begin, Goto, files, counts, Steps
<1>2. FilesInv'
  BY DEF IInv, FilesInv, Durable, Begin, files
<1>3. ASSUME NEW x \in Writers PROVE WriterInv(x)'
  BY DEF IInv, TypeOK, WriterInv, Begin, Goto, files
<1>. QED BY <1>1, <1>2, <1>3 DEF IInv

LEMMA BackupInv ==
    ASSUME IInv, NEW w \in Writers, Backup(w)
    PROVE  IInv'
<1>. USE DEF IInv
<1>1. CASE BackupOpens(w)
  <2>1. TypeOK' /\ FilesInv'
    BY <1>1 DEF TypeOK, FilesInv, Durable, BackupOpens, Goto, files, counts, Steps
  <2>2. target \in Contents /\ target.whole
    BY <1>1 DEF TypeOK, FilesInv, Durable, BackupOpens, Files
  <2>3. ASSUME NEW x \in Writers PROVE WriterInv(x)'
    BY <1>1, <2>2 DEF TypeOK, WriterInv, BackupOpens, Goto
  <2>. QED BY <2>1, <2>3
<1>2. CASE BackupFindsNothing(w)
  BY <1>2 DEF TypeOK, FilesInv, Durable, WriterInv, BackupFindsNothing, Goto, files, counts, Steps
<1>3. CASE BackupCopies(w)
  <2>. DEFINE copy == [source[w] EXCEPT !.synced = FALSE]
  <2>1. copy \in Contents /\ copy \in Files /\ copy.whole
    BY <1>3 DEF WriterInv, BackupCopies, Contents, Files
  <2>2. TypeOK' /\ FilesInv'
    BY <1>3, <2>1 DEF TypeOK, FilesInv, Durable, BackupCopies, Goto, files, counts, Steps
  <2>3. ASSUME NEW x \in Writers PROVE WriterInv(x)'
    BY <1>3, <2>1 DEF TypeOK, WriterInv, BackupCopies, Goto
  <2>. QED BY <2>2, <2>3
<1>4. CASE BackupSyncs(w)
  <2>. DEFINE copy == [bakTemp[w] EXCEPT !.synced = TRUE]
  <2>1. copy \in Files /\ copy.whole /\ copy.synced
    BY <1>4 DEF WriterInv, BackupSyncs, Contents, Files
  <2>2. bakTemp' = [bakTemp EXCEPT ![w] = copy]
    BY <1>4 DEF BackupSyncs
  <2>3. TypeOK' /\ FilesInv'
    BY <1>4, <2>1, <2>2 DEF TypeOK, FilesInv, Durable, BackupSyncs, Goto, files, counts, Steps
  <2>4. ASSUME NEW x \in Writers PROVE WriterInv(x)'
    BY <1>4, <2>1, <2>2 DEF TypeOK, WriterInv, BackupSyncs, Goto
  <2>. QED BY <2>3, <2>4
<1>5. CASE BackupRenames(w)
  BY <1>5 DEF TypeOK, FilesInv, Durable, WriterInv, BackupRenames, SetBak, Goto, counts, Steps
<1>. QED BY <1>1, <1>2, <1>3, <1>4, <1>5 DEF Backup

LEMMA SyncUnsynced ==
    ASSUME NEW v \in Values
    PROVE  [Unsynced(v) EXCEPT !.synced = TRUE]
             = [value |-> v, whole |-> TRUE, synced |-> TRUE]
<1>. DEFINE f == Unsynced(v)
            g == [f EXCEPT !.synced = TRUE]
<1>1. f \in Contents /\ f.value = v /\ f.whole = TRUE
  BY DEF Unsynced, Contents
<1>2. g \in Contents /\ g.value = v /\ g.whole = TRUE /\ g.synced = TRUE
  BY <1>1 DEF Contents
<1>3. ASSUME NEW h \in Contents, h.value = v, h.whole = TRUE, h.synced = TRUE
      PROVE  h = [value |-> v, whole |-> TRUE, synced |-> TRUE]
  BY <1>3 DEF Contents
<1>. QED BY <1>2, <1>3

LEMMA WriteInv ==
    ASSUME IInv, NEW w \in Writers, WritesTemp(w) \/ Syncs(w) \/ Renames(w)
    PROVE  IInv'
<1>. USE DEF IInv
<1>1. CASE WritesTemp(w)
  <2>1. new[w] \in Values
    BY <1>1 DEF TypeOK, WritesTemp
  <2>2. Unsynced(new[w]) \in Files
    BY <2>1 DEF Unsynced, Files, Contents
  <2>. QED
    BY <1>1, <2>2
       DEF TypeOK, FilesInv, Durable, WriterInv, WritesTemp, Goto, files, counts, Steps
<1>2. CASE Syncs(w)
  <2>. DEFINE done == [value |-> new[w], whole |-> TRUE, synced |-> TRUE]
  <2>1. new[w] \in Values /\ done \in Files
    BY <1>2 DEF TypeOK, Syncs, Files, Contents
  <2>2. temp' = [temp EXCEPT ![w] = done]
    <3>1. temp[w] = Unsynced(new[w])
      BY <1>2 DEF WriterInv, Syncs
    <3>2. [temp[w] EXCEPT !.synced = TRUE] = done
      BY <2>1, <3>1, SyncUnsynced
    <3>3. temp' = [temp EXCEPT ![w] = [temp[w] EXCEPT !.synced = TRUE]]
      BY <1>2 DEF Syncs
    <3>. QED BY <3>2, <3>3
  <2>3. TypeOK' /\ FilesInv'
    BY <1>2, <2>1, <2>2 DEF TypeOK, FilesInv, Durable, Syncs, Goto, files, counts, Steps
  <2>4. ASSUME NEW x \in Writers PROVE WriterInv(x)'
    BY <1>2, <2>2 DEF TypeOK, WriterInv, Syncs, Goto
  <2>. QED BY <2>3, <2>4
<1>3. CASE Renames(w)
  <2>1. temp[w] \in Files /\ temp[w].whole /\ temp[w].synced
    BY <1>3 DEF TypeOK, WriterInv, Renames
  <2>. QED
    BY <1>3, <2>1
       DEF TypeOK, FilesInv, Durable, WriterInv, Renames, SetTarget, Goto, counts, Steps
<1>. QED BY <1>1, <1>2, <1>3

LEMMA StopInv ==
    ASSUME IInv, Stop, target' \in Files, bak' \in Files,
           mayTarget' \subseteq Files, mayBak' \subseteq Files,
           target' \in mayTarget', bak' \in mayBak',
           Durable(mayTarget)', Durable(mayBak)',
           failures' \in 0..MaxFailures
    PROVE  IInv'
BY DEF IInv, TypeOK, FilesInv, WriterInv, Stop, Steps

LEMMA FailureInv ==
    ASSUME IInv, (\E w \in Writers : CallFails(w)) \/ ProcessDies \/ PowerFails
    PROVE  IInv'
<1>1. failures' \in 0..MaxFailures
  BY FileAssumption DEF IInv, TypeOK, CallFails, ProcessDies, PowerFails, Failure
<1>2. ASSUME NEW w \in Writers, CallFails(w) PROVE IInv'
  BY <1>1, <1>2 DEF IInv, TypeOK, FilesInv, Durable, WriterInv, CallFails, Goto, files, Steps
<1>3. CASE ProcessDies
  BY <1>1, <1>3, StopInv DEF IInv, TypeOK, FilesInv, Durable, ProcessDies, files
<1>4. CASE PowerFails
  <2>1. Survivors(mayTarget) = mayTarget /\ Survivors(mayBak) = mayBak
    BY SurvivorsOfDurable DEF IInv, FilesInv
  <2>. QED BY <1>1, <1>4, <2>1, StopInv DEF IInv, TypeOK, FilesInv, Durable, PowerFails
<1>. QED BY <1>2, <1>3, <1>4

LEMMA WorldInv ==
    ASSUME IInv, Start \/ Remove \/ Settle
    PROVE  IInv'
BY AbsentIsDurable
   DEF IInv, TypeOK, FilesInv, Durable, WriterInv, Start, Remove, Settle, SetTarget,
       files, writer, counts

LEMMA NextInv == IInv /\ [Next]_vars => IInv'
<1>. SUFFICES ASSUME IInv, [Next]_vars PROVE IInv'
  OBVIOUS
<1>1. CASE Next
  BY <1>1, BeginInv, BackupInv, WriteInv, FailureInv, WorldInv DEF Next, AtomicWrite
<1>2. CASE UNCHANGED vars
  BY <1>2 DEF IInv, TypeOK, FilesInv, Durable, WriterInv, vars
<1>. QED BY <1>1, <1>2

THEOREM Invariance == Spec => []IInv
BY InitInv, NextInv, PTL DEF Spec

\* Every variable keeps its type, and the target and the backup stay among
\* what a power failure may leave (the program's own view is one of them).
THEOREM TypeCorrect == Spec => []TypeOK
BY Invariance, PTL DEF IInv

\* Whoever reads the target, and whenever, finds all of what one writer wrote
\* (fsutil.rs: "Never leaves a partially-written target behind"); and the
\* backup, which is what is left to go back to, is whole as well.
THEOREM FilesAlwaysWhole == Spec => []FilesAreWhole
<1>1. IInv => FilesAreWhole
  BY DEF IInv, TypeOK, FilesInv, Durable, FilesAreWhole
<1>. QED BY <1>1, Invariance, PTL

-----------------------------------------------------------------------------
(* The file implements the atomic register.                                *)

\* What readers see of a file whose versions were all synced.
LEMMA SeenOfDurable ==
    ASSUME NEW fs, NEW f \in fs, Durable(fs)
    PROVE  /\ Seen(f) = f.value
           /\ {Seen(g) : g \in Survivors(fs)} = {g.value : g \in fs}
<1>1. Survivors(fs) = fs
  BY SurvivorsOfDurable
<1>2. \A g \in fs : Seen(g) = g.value
  BY DEF Durable, Seen
<1>. QED BY <1>1, <1>2

\* A step that leaves the target alone is a stutter of the register.
LEMMA RegisterStutter ==
    ASSUME target' = target, mayTarget' = mayTarget
    PROVE  UNCHANGED Register!vars
BY DEF Register!vars, Seen, Survivors

LEMMA RegisterInit == Init => Register!Init
<1>. SUFFICES ASSUME Init PROVE Register!Init
  OBVIOUS
<1>1. Durable(mayTarget) /\ target \in mayTarget
  BY AbsentIsDurable DEF Init, Durable
<1>2. target.value = None /\ {f.value : f \in mayTarget} = {None}
  BY DEF Init, Absent
<1>. QED BY <1>1, <1>2, SeenOfDurable DEF Register!Init

LEMMA RegisterStep ==
    ASSUME IInv, IInv', [Next]_vars
    PROVE  [Register!Next]_Register!vars
<1>. DEFINE value == Seen(target)
            durable == {Seen(f) : f \in Survivors(mayTarget)}
            held == {f.value : f \in mayTarget}
<1>1. /\ value = target.value /\ durable = held
      /\ value' = target'.value /\ durable' = held'
  <2>1. target \in mayTarget /\ Durable(mayTarget)
    BY DEF IInv, TypeOK, FilesInv
  <2>2. target' \in mayTarget' /\ Durable(mayTarget')
    BY DEF IInv, TypeOK, FilesInv, Durable
  <2>3. Seen(target') = target'.value
        /\ {Seen(f) : f \in Survivors(mayTarget')} = {f.value : f \in mayTarget'}
    BY <2>2, SeenOfDurable
  <2>. QED BY <2>1, <2>3, SeenOfDurable DEF Seen, Survivors
<1>2. ASSUME NEW f, SetTarget(f) PROVE value' = f.value /\ durable' = durable \cup {f.value}
  BY <1>1, <1>2 DEF SetTarget
<1>3. ASSUME NEW w \in Writers, Renames(w) PROVE Register!Write(new[w]) /\ new[w] \in Values
  <2>1. temp[w].value = new[w] /\ new[w] \in Values
    BY <1>3 DEF IInv, TypeOK, WriterInv, Renames
  <2>. QED BY <1>2, <1>3, <2>1 DEF Renames, Register!Write, Register!Become
<1>4. CASE Remove
  BY <1>2, <1>4 DEF Remove, Absent, Register!Remove, Register!Become, Register!Next
<1>5. CASE Settle
  <2>1. target' = target /\ mayTarget' = {target}
    BY <1>5 DEF Settle
  <2>. QED BY <1>1, <2>1 DEF Register!Settle, Register!Next
<1>6. CASE PowerFails
  <2>1. target' \in mayTarget /\ mayTarget' = {target'}
    BY <1>6, SurvivorsOfDurable DEF PowerFails, IInv, FilesInv
  <2>. QED BY <1>1, <2>1 DEF Register!PowerFailure, Register!Next
<1>7. CASE target' = target /\ mayTarget' = mayTarget
  BY <1>7, RegisterStutter
<1>8. ASSUME NEW w \in Writers, AtomicWrite(w) \/ CallFails(w), ~Renames(w)
      PROVE  target' = target /\ mayTarget' = mayTarget
  BY <1>8 DEF AtomicWrite, Backup, Begin, BackupOpens, BackupFindsNothing, BackupCopies,
       BackupSyncs, BackupRenames, SetBak, WritesTemp, Syncs, CallFails, files
<1>9. CASE ProcessDies \/ Start \/ UNCHANGED vars
  BY <1>7, <1>9 DEF ProcessDies, Start, files, vars
<1>. QED BY <1>3, <1>4, <1>5, <1>6, <1>7, <1>8, <1>9 DEF Next, Register!Next

\* The detailed discipline implements the abstract register: every writer,
\* crash and power failure seen from outside is an atomic write, a removal, or
\* a return to one of the whole values since the directory was last synced.
THEOREM Refinement == Spec => ImplementsRegister
<1>1. IInv /\ IInv' /\ [Next]_vars => [Register!Next]_Register!vars
  BY RegisterStep
<1>. QED BY <1>1, RegisterInit, Invariance, PTL DEF Spec, ImplementsRegister, Register!Spec

-----------------------------------------------------------------------------
(* A write that met no other one replaces what it has copied.              *)

\* What the writer has copied so far is the target, unless it was removed.
CopiedInv(w) ==
    \/ target = Absent
    \/ /\ pc[w] = "copy" => source[w].value = target.value
       /\ pc[w] \in {"syncBak", "renameBak"} => bakTemp[w].value = target.value
       /\ pc[w] \in {"create", "sync", "rename"} => bak.value = target.value

\* A write that is not crossed is the only one in progress.
AloneInv ==
    ~crossed =>
        /\ \A v, w \in Writers : pc[v] # "idle" /\ pc[w] # "idle" => v = w
        /\ \A w \in Writers : CopiedInv(w)

LEMMA AloneBackup ==
    ASSUME IInv, AloneInv, NEW w \in Writers, Backup(w)
    PROVE  AloneInv'
<1>. SUFFICES ASSUME ~crossed' PROVE AloneInv'
  BY DEF AloneInv
<1>. USE DEF IInv, TypeOK, CopiedInv
<1>1. crossed' = crossed /\ target' = target
  BY DEF Backup, BackupOpens, BackupFindsNothing, BackupCopies, BackupSyncs, BackupRenames,
         SetBak, files
<1>2. pc[w] # "idle"
  BY DEF Backup, BackupOpens, BackupFindsNothing, BackupCopies, BackupSyncs, BackupRenames
<1>3. CopiedInv(w) /\ \A x \in Writers : x # w => pc[x] = "idle"
  BY <1>1, <1>2 DEF AloneInv
<1>4. \A x \in Writers : x # w => pc'[x] = "idle"
  BY <1>3 DEF Backup, BackupOpens, BackupFindsNothing, BackupCopies, BackupSyncs, BackupRenames,
       Goto
<1>5. CopiedInv(w)'
  <2>1. CASE BackupOpens(w) \/ BackupFindsNothing(w)
    BY <1>3, <2>1 DEF BackupOpens, BackupFindsNothing, Goto, files
  <2>2. CASE BackupCopies(w)
    <3>1. source[w] \in Contents
      BY <2>2 DEF BackupCopies, WriterInv
    <3>2. bakTemp'[w].value = source[w].value
      BY <2>2, <3>1 DEF BackupCopies, Contents
    <3>. QED BY <1>3, <2>2, <3>2 DEF BackupCopies, Goto, files
  <2>3. CASE BackupSyncs(w)
    <3>1. bakTemp[w] \in Contents
      BY <2>3 DEF BackupSyncs, WriterInv
    <3>2. bakTemp'[w].value = bakTemp[w].value
      BY <2>3, <3>1 DEF BackupSyncs, Contents
    <3>. QED BY <1>3, <2>3, <3>2 DEF BackupSyncs, Goto, files
  <2>4. CASE BackupRenames(w)
    BY <1>3, <2>4 DEF BackupRenames, SetBak, Goto
  <2>. QED BY <2>1, <2>2, <2>3, <2>4 DEF Backup
<1>6. \A x \in Writers : CopiedInv(x)'
  BY <1>4, <1>5
<1>. QED BY <1>4, <1>6 DEF AloneInv

LEMMA AloneWrite ==
    ASSUME IInv, AloneInv, NEW w \in Writers, AtomicWrite(w), ~Backup(w)
    PROVE  AloneInv'
<1>. SUFFICES ASSUME ~crossed' PROVE AloneInv'
  BY DEF AloneInv
<1>. USE DEF IInv, TypeOK, CopiedInv
<1>1. ASSUME NEW v \in Values, Begin(w, v) PROVE AloneInv'
  <2>1. \A x \in Writers : x # w => pc[x] = "idle" /\ pc'[x] = "idle"
    BY <1>1 DEF Begin, Busy, Goto
  <2>2. target = Absent \/ pc'[w] = "open"
    BY <1>1 DEF Begin, Goto
  <2>3. target' = target
    BY <1>1 DEF Begin, files
  <2>4. \A x \in Writers : CopiedInv(x)'
    BY <2>1, <2>2, <2>3
  <2>. QED BY <2>1, <2>4 DEF AloneInv
<1>2. CASE WritesTemp(w) \/ Syncs(w) \/ Renames(w)
  <2>1. ~crossed /\ pc[w] # "idle"
    BY <1>2 DEF WritesTemp, Syncs, Renames
  <2>2. CopiedInv(w) /\ \A x \in Writers : x # w => pc[x] = "idle"
    BY <2>1 DEF AloneInv
  <2>3. \A x \in Writers : x # w => pc'[x] = "idle"
    BY <1>2, <2>2 DEF WritesTemp, Syncs, Renames, Goto
  <2>4. CopiedInv(w)'
    BY <1>2, <2>2 DEF WritesTemp, Syncs, Renames, SetTarget, Goto, files, Steps
  <2>5. \A x \in Writers : CopiedInv(x)'
    BY <2>3, <2>4
  <2>. QED BY <2>3, <2>5 DEF AloneInv
<1>. QED BY <1>1, <1>2 DEF AtomicWrite

LEMMA AloneStep == IInv /\ AloneInv /\ [Next]_vars => AloneInv'
<1>. SUFFICES ASSUME IInv, AloneInv, [Next]_vars PROVE AloneInv'
  OBVIOUS
<1>1. ASSUME NEW w \in Writers, CallFails(w) PROVE AloneInv'
  <2>1. \A x \in Writers : pc'[x] = pc[x] \/ pc'[x] = "idle"
    BY <1>1 DEF CallFails, Goto, IInv, TypeOK
  <2>2. UNCHANGED <<target, bak, source, bakTemp, crossed>>
    BY <1>1 DEF CallFails, files
  <2>3. ASSUME NEW x \in Writers, CopiedInv(x) PROVE CopiedInv(x)'
    BY <2>1, <2>2, <2>3 DEF CopiedInv
  <2>. QED BY <2>1, <2>2, <2>3 DEF AloneInv
<1>2. CASE ProcessDies \/ PowerFails
  <2>1. \A x \in Writers : pc'[x] = "idle"
    BY <1>2 DEF ProcessDies, PowerFails, Stop
  <2>. QED BY <2>1 DEF AloneInv, CopiedInv
<1>3. CASE Start \/ Remove \/ Settle \/ UNCHANGED vars
  BY <1>3 DEF AloneInv, CopiedInv, Start, Remove, Settle, SetTarget, files, writer, vars
<1>. QED BY <1>1, <1>2, <1>3, AloneBackup, AloneWrite DEF Next

\* A write during which no other task writes the same target replaces only
\* what is in <target>.bak, whatever failed before (fsutil.rs, backup).
THEOREM BackupPrecedesReplacement == Spec => BackupIsPrevious
<1>1. Init => AloneInv
  BY DEF Init, AloneInv, CopiedInv
<1>2. IInv /\ AloneInv
        => (\A w \in Writers :
              Renames(w) /\ target # Absent /\ ~crossed => bak.value = target.value)
  BY DEF AloneInv, CopiedInv, Renames
<1>. QED BY <1>1, <1>2, AloneStep, Invariance, PTL DEF Spec, BackupIsPrevious

-----------------------------------------------------------------------------
(***************************************************************************)
(* The installation of a tool.                                             *)
(***************************************************************************)

-----------------------------------------------------------------------------
(* The plans.                                                              *)

Loads == recipe.by \in {"binary", "archive"}
Bys == {"package", "binary", "archive", "none"}

\* The place of the move in a plan, and of the last step.
MvAt == (IF Extracts THEN 6 ELSE 4) - (IF recipe.windows THEN 1 ELSE 0)
LastStep == CASE recipe.by = "archive" -> MvAt + 1 [] recipe.by = "binary" -> MvAt
              [] recipe.by = "package" -> 1 [] OTHER -> 0

LEMMA PlanFacts ==
    ASSUME recipe.by \in Bys, recipe.windows \in BOOLEAN
    PROVE  /\ Len(Plan) = LastStep /\ MvAt \in 3..6 /\ LastStep \in 0..7
           /\ Plan = <<>> <=> recipe.by = "none"
           /\ recipe.by = "package" => LastStep = 1 /\ Plan[1] = "package"
           /\ Loads => /\ LastStep = IF Extracts THEN MvAt + 1 ELSE MvAt
                       /\ \A i \in 1..LastStep :
                            /\ Plan[i] = "curl" <=> i = 2
                            /\ Plan[i] = "tar" <=> Extracts /\ i = 4
                            /\ Plan[i] = "chmod" <=> ~recipe.windows /\ i = MvAt - 1
                            /\ Plan[i] = "mv" <=> i = MvAt
                            /\ Plan[i] = "rm" <=> Extracts /\ i = MvAt + 1
                            /\ Plan[i] # "package"
           /\ Extracts => Loads /\ MvAt >= 5
<1>1. CASE recipe.by = "none"
  <2>1. Plan = <<>> /\ LastStep = 0 /\ ~Loads /\ ~Extracts
    BY <1>1 DEF Plan, LastStep, Loads, Extracts
  <2>. QED BY <1>1, <2>1 DEF MvAt
<1>2. CASE recipe.by = "package"
  <2>1. Plan = <<"package">> /\ LastStep = 1 /\ ~Loads /\ ~Extracts
    BY <1>2 DEF Plan, LastStep, Loads, Extracts
  <2>. QED BY <1>2, <2>1 DEF MvAt
<1>3. CASE recipe.by = "binary" /\ recipe.windows
  <2>1. Plan = <<"mkdir", "curl", "mv">>
    BY <1>3 DEF Plan, WindowsSteps
  <2>2. /\ Len(Plan) = 3 /\ Plan # <<>>
        /\ \A i \in 1..3 :
             /\ (Plan[i] = "curl" <=> i = 2) /\ Plan[i] # "tar" /\ Plan[i] # "chmod"
             /\ (Plan[i] = "mv" <=> i = 3) /\ Plan[i] # "rm" /\ Plan[i] # "package"
    BY <2>1
  <2>3. Loads /\ ~Extracts /\ MvAt = 3 /\ LastStep = 3
    BY <1>3 DEF LastStep, Loads, Extracts, MvAt
  <2>. QED BY <1>3, <2>2, <2>3
<1>4. CASE recipe.by = "binary" /\ ~recipe.windows
  <2>1. Plan = <<"mkdir", "curl", "chmod", "mv">>
    BY <1>4 DEF Plan, UnixSteps
  <2>2. /\ Len(Plan) = 4 /\ Plan # <<>>
        /\ \A i \in 1..4 :
             /\ (Plan[i] = "curl" <=> i = 2) /\ Plan[i] # "tar" /\ (Plan[i] = "chmod" <=> i = 3)
             /\ (Plan[i] = "mv" <=> i = 4) /\ Plan[i] # "rm" /\ Plan[i] # "package"
    BY <2>1
  <2>3. Loads /\ ~Extracts /\ MvAt = 4 /\ LastStep = 4
    BY <1>4 DEF LastStep, Loads, Extracts, MvAt
  <2>. QED BY <1>4, <2>2, <2>3
<1>5. CASE recipe.by = "archive" /\ recipe.windows
  <2>1. Plan = <<"mkdir", "curl", "mkdir-extract", "tar", "mv", "rm">>
    BY <1>5 DEF Plan, WindowsSteps
  <2>2. /\ Len(Plan) = 6 /\ Plan # <<>>
        /\ \A i \in 1..6 :
             /\ (Plan[i] = "curl" <=> i = 2) /\ (Plan[i] = "tar" <=> i = 4) /\ Plan[i] # "chmod"
             /\ (Plan[i] = "mv" <=> i = 5) /\ (Plan[i] = "rm" <=> i = 6) /\ Plan[i] # "package"
    BY <2>1
  <2>3. Loads /\ Extracts /\ MvAt = 5 /\ LastStep = 6
    BY <1>5 DEF LastStep, Loads, Extracts, MvAt
  <2>. QED BY <1>5, <2>2, <2>3
<1>6. CASE recipe.by = "archive" /\ ~recipe.windows
  <2>1. Plan = <<"mkdir", "curl", "mkdir-extract", "tar", "chmod", "mv", "rm">>
    BY <1>6 DEF Plan, UnixSteps
  <2>2. /\ Len(Plan) = 7 /\ Plan # <<>>
        /\ \A i \in 1..7 :
             /\ (Plan[i] = "curl" <=> i = 2) /\ (Plan[i] = "tar" <=> i = 4)
             /\ (Plan[i] = "chmod" <=> i = 5)
             /\ (Plan[i] = "mv" <=> i = 6) /\ (Plan[i] = "rm" <=> i = 7) /\ Plan[i] # "package"
    BY <2>1
  <2>3. Loads /\ Extracts /\ MvAt = 6 /\ LastStep = 7
    BY <1>6 DEF LastStep, Loads, Extracts, MvAt
  <2>. QED BY <1>6, <2>2, <2>3
<1>. QED BY <1>1, <1>2, <1>3, <1>4, <1>5, <1>6 DEF Bys

-----------------------------------------------------------------------------
(* The invariant.                                                          *)

InPlan(t) == stage[t] \in {"check", "run", "busy", "ran", "digest", "final"}
StepsDone(t) == IF stage[t] \in {"ran", "final"} THEN at[t] ELSE at[t] - 1
Works == bin.content = "pinned" /\ (bin.exec \/ recipe.windows)

\* A task in its plan is at one of its steps, and downloads at the second.
Fits(t) ==
    /\ InPlan(t) => at[t] \in 1..LastStep
    /\ stage[t] \in {"busy", "digest"} => Loads /\ at[t] = 2
    /\ stage[t] = "final" => at[t] = LastStep

\* Who has moved something is past the move, and does not fail by itself.
Far(t) ==
    t \in placed =>
        /\ stage[t] \notin {"waiting", "preflight"} /\ Loads
        /\ InPlan(t) => StepsDone(t) >= MvAt
        /\ t \notin cancelled \cup overlapped => stage[t] # "failed"

\* Tasks that run beside each other know of it.
Beside == \A t, q \in Tasks : Active(t) /\ Active(q) /\ t # q => t \in overlapped

\* What each recipe leaves alone.
LeftAlone ==
    /\ ~Extracts => member = NoFile
    /\ ~Loads => download = NoFile /\ bin = NoFile

\* What the steps that a task has done have left, if it is alone: the checked
\* download until it is moved or removed, what was extracted from it, its
\* executable bit, what was moved, and nothing beside it.
Checked(t) ==
    Loads /\ at[t] > 2 /\ StepsDone(t) < (IF Extracts THEN LastStep ELSE MvAt)
        => download.content = "pinned"
Extracted(t) == Extracts /\ 4 <= StepsDone(t) /\ StepsDone(t) < MvAt => member.content = "pinned"
MadeExec(t) ==
    Loads /\ ~recipe.windows /\ StepsDone(t) = MvAt - 1
        => IF Extracts THEN member.exec ELSE download.exec
Moved(t) == Loads /\ StepsDone(t) >= MvAt => t \in placed /\ (~Extracts => download = NoFile)
Cleaned(t) == Extracts /\ StepsDone(t) = LastStep => download = NoFile /\ member = NoFile
Packaged(t) == recipe.by = "package" /\ StepsDone(t) = 1 => elsewhere

SoFar(t) ==
    InPlan(t) => Checked(t) /\ Extracted(t) /\ MadeExec(t) /\ Moved(t) /\ Cleaned(t) /\ Packaged(t)
AloneFine(t) == t \in Alone /\ Active(t) => SoFar(t) /\ (t \in placed => Works)

InstallInv ==
    /\ InstallTypeOK /\ Beside /\ LeftAlone
    /\ \A t \in Tasks : Fits(t) /\ Far(t) /\ AloneFine(t)

StageSet == {"waiting", "preflight", "check", "run", "busy", "ran", "digest",
             "recheck", "final", "ok", "failed"}

LEMMA RecipeFacts ==
    ASSUME InstallTypeOK
    PROVE  recipe.by \in Bys /\ recipe.windows \in BOOLEAN
  BY InstallAssumption DEF InstallTypeOK, Bys

LEMMA InstallStart == InstallInit => InstallInv
<1>. SUFFICES ASSUME InstallInit PROVE InstallInv
  OBVIOUS
<1>1. NoFile \in ToolFiles
  BY DEF NoFile, ToolFiles
<1>2. InstallTypeOK
  BY <1>1 DEF InstallInit, InstallTypeOK
<1>3. \A t \in Tasks : stage[t] = "waiting" /\ t \notin placed
  BY DEF InstallInit
<1>4. Beside /\ LeftAlone
  BY <1>3 DEF InstallInit, Beside, LeftAlone, Active
<1>5. \A t \in Tasks : Fits(t) /\ Far(t) /\ AloneFine(t)
  BY <1>3 DEF Fits, Far, AloneFine, InPlan, Active
<1>. QED BY <1>2, <1>4, <1>5 DEF InstallInv

\* One task moves, and the others have nothing that it could disturb.
LEMMA OneMoves ==
    ASSUME InstallInv, NEW q \in Tasks, Active(q),
           NEW s \in StageSet \ {"waiting"}, To(q, s),
           at' = at \/ at' = [at EXCEPT ![q] = 1] \/ at' = [at EXCEPT ![q] = @ + 1],
           \A t \in Tasks : status'[t] \in {"none", "absent", "broken", "installed"},
           status' = [t \in Tasks |-> status'[t]],
           UNCHANGED <<recipe, cancelled, overlapped>>,
           placed' = placed \/ placed' = placed \cup {q},
           download' \in ToolFiles, member' \in ToolFiles, bin' \in ToolFiles,
           elsewhere' \in BOOLEAN,
           LeftAlone', Fits(q)', Far(q)', AloneFine(q)'
    PROVE  InstallInv'
<1>. USE DEF InstallInv
<1>1. /\ stage'[q] = s /\ \A t \in Tasks \ {q} : stage'[t] = stage[t] /\ at'[t] = at[t]
      /\ stage' \in [Tasks -> StageSet] /\ at' \in [Tasks -> Nat]
  BY DEF To, InstallTypeOK, StageSet
<1>2. InstallTypeOK'
  BY <1>1 DEF InstallTypeOK, StageSet
<1>3. \A t \in Tasks : Active(t)' => Active(t)
  BY <1>1 DEF Active
<1>4. Beside'
  BY <1>3 DEF Beside
<1>5. ASSUME NEW t \in Tasks \ {q}
      PROVE  Fits(t)' /\ Far(t)' /\ AloneFine(t)'
  <2>1. /\ stage'[t] = stage[t] /\ at'[t] = at[t] /\ recipe' = recipe
        /\ (t \in placed' <=> t \in placed)
    BY <1>1
  <2>2. Fits(t)' /\ Far(t)'
    BY <2>1 DEF Fits, Far, InPlan, StepsDone, LastStep, MvAt, Extracts, Loads
  <2>3. AloneFine(t)'
    BY <1>3 DEF AloneFine, Beside, Alone
  <2>. QED BY <2>2, <2>3
<1>. QED BY <1>2, <1>4, <1>5

LEMMA RecipeKept ==
    ASSUME recipe' = recipe
    PROVE  /\ Loads' <=> Loads
           /\ Extracts' <=> Extracts
           /\ MvAt' = MvAt /\ LastStep' = LastStep /\ Plan' = Plan
  BY DEF Loads, Extracts, MvAt, LastStep, Plan

\* A task that is alone has what its steps have left.
LEMMA AloneFacts ==
    ASSUME InstallInv, NEW q \in Alone, Active(q)
    PROVE  SoFar(q) /\ (q \in placed => Works)
  BY DEF InstallInv, AloneFine, Alone

LEMMA DoInstallStep ==
    ASSUME InstallInv, NEW q \in Tasks, DoInstall(q)
    PROVE  InstallInv'
<1>. USE DEF InstallInv
<1>1. /\ stage[q] = "waiting" /\ stage'[q] = "preflight" /\ ~Active(q)
      /\ \A t \in Tasks \ {q} : stage'[t] = stage[t]
      /\ stage' = [stage EXCEPT ![q] = "preflight"]
  BY DEF DoInstall, To, InstallTypeOK, Active
<1>2. /\ UNCHANGED <<recipe, at, status, download, member, bin, elsewhere, placed>>
      /\ cancelled' = cancelled \cup 1..(q - 1)
  BY DEF DoInstall, artifacts
<1>3. /\ overlapped \subseteq overlapped' /\ overlapped' \subseteq Tasks
      /\ \A t \in Tasks : Active(t) => t \in overlapped' /\ q \in overlapped'
  BY DEF DoInstall, InstallTypeOK
<1>4. InstallTypeOK'
  <2>1. 1..(q - 1) \subseteq Tasks
    BY InstallAssumption DEF Tasks
  <2>. QED BY <1>1, <1>2, <1>3, <2>1 DEF InstallTypeOK
<1>5. Beside'
  BY <1>1, <1>3 DEF Beside, Active
<1>6. LeftAlone'
  BY <1>2, RecipeKept DEF LeftAlone
<1>7. ASSUME NEW t \in Tasks
      PROVE  Fits(t)' /\ Far(t)' /\ AloneFine(t)'
  <2>1. CASE t = q
    <3>1. q \notin placed /\ ~InPlan(q)'
      BY <1>1 DEF Far, InPlan
    <3>. QED BY <1>1, <1>2, <2>1, <3>1 DEF Fits, Far, AloneFine, SoFar
  <2>2. CASE t # q
    <3>1. stage'[t] = stage[t] /\ at'[t] = at[t]
      BY <1>1, <1>2, <2>2
    <3>2. Fits(t)' /\ Far(t)'
      BY <1>2, <1>3, <3>1, RecipeKept DEF Fits, Far, InPlan, StepsDone
    <3>3. AloneFine(t)'
      BY <1>3, <3>1 DEF AloneFine, Alone, Active
    <3>. QED BY <3>2, <3>3
  <2>. QED BY <2>1, <2>2
<1>. QED BY <1>4, <1>5, <1>6, <1>7

\* The tool that is found, where a task that is alone has moved its own.
LEMMA WhatIsFound ==
    ASSUME InstallInv
    PROVE  /\ Detects \subseteq {"installed", "broken", "absent"}
           /\ Loads /\ Works => Detects = {"installed"}
           /\ ~Loads /\ elsewhere => Detects = {"installed"}
<1>1. bin \in ToolFiles /\ recipe.windows \in BOOLEAN /\ elsewhere \in BOOLEAN
  BY RecipeFacts DEF InstallInv, InstallTypeOK
<1>2. Detects \subseteq {"installed", "broken", "absent"}
  BY DEF Detects, Verdicts
<1>3. ASSUME Works PROVE Detects = {"installed"}
  <2>1. bin.content = "pinned" /\ Exists(bin) /\ (bin.exec \/ recipe.windows)
    BY <1>3 DEF Works, Exists
  <2>. QED BY <2>1 DEF Detects, Verdicts
<1>4. ASSUME ~Loads, elsewhere PROVE Detects = {"installed"}
  <2>1. ~Exists(bin)
    BY <1>4 DEF InstallInv, LeftAlone, NoFile, Exists
  <2>. QED BY <1>4, <2>1 DEF Detects
<1>. QED BY <1>2, <1>3, <1>4

\* A task that ends: what is left is that it does not fail after the move.
LEMMA Ending ==
    ASSUME InstallInv, NEW q \in Tasks, Active(q), NEW s \in {"ok", "failed"},
           NEW v \in {"none", "absent", "broken", "installed"}, Ends(q, s, v),
           UNCHANGED <<recipe, at, cancelled, artifacts, elsewhere, history>>,
           s = "failed" => q \notin placed \/ q \in cancelled \cup overlapped
    PROVE  InstallInv'
<1>. USE DEF InstallInv
<1>1. /\ stage'[q] = s /\ To(q, s) /\ recipe' = recipe /\ UNCHANGED <<download, member, bin>>
      /\ placed' = placed /\ overlapped' = overlapped /\ cancelled' = cancelled
      /\ elsewhere' = elsewhere /\ at' = at
      /\ status' = [status EXCEPT ![q] = v]
  BY DEF Ends, To, InstallTypeOK, artifacts, history
<1>2. /\ \A t \in Tasks : status'[t] \in {"none", "absent", "broken", "installed"}
      /\ status' = [t \in Tasks |-> status'[t]]
  BY <1>1 DEF InstallTypeOK
<1>3. ~InPlan(q)' /\ ~Active(q)'
  BY <1>1 DEF InPlan, Active
<1>4. Fits(q)' /\ AloneFine(q)'
  BY <1>1, <1>3 DEF Fits, AloneFine
<1>5. Far(q)'
  BY <1>1, <1>3, RecipeKept DEF Far
<1>6. LeftAlone'
  BY <1>1, RecipeKept DEF LeftAlone
<1>7. /\ download' \in ToolFiles /\ member' \in ToolFiles /\ bin' \in ToolFiles
      /\ elsewhere' \in BOOLEAN
  BY <1>1 DEF InstallTypeOK
<1>. QED BY <1>1, <1>2, <1>4, <1>5, <1>6, <1>7, OneMoves DEF StageSet

\* The numbers of a plan, for the steps below.
LEMMA Numbers ==
    ASSUME InstallInv
    PROVE  /\ Len(Plan) = LastStep /\ MvAt \in 3..6 /\ LastStep \in 0..7
           /\ Plan # <<>> => LastStep >= 1
           /\ recipe.by = "package" => LastStep = 1 /\ Plan[1] = "package" /\ ~Loads /\ ~Extracts
           /\ Loads => LastStep >= 3 /\ LastStep = (IF Extracts THEN MvAt + 1 ELSE MvAt)
           /\ Extracts => Loads /\ MvAt >= 5
           /\ ~recipe.windows => MvAt >= 4 /\ (Extracts => MvAt >= 6)
           /\ recipe.by \in Bys /\ recipe.windows \in BOOLEAN
<1>1. recipe.by \in Bys /\ recipe.windows \in BOOLEAN
  BY RecipeFacts DEF InstallInv
<1>2. recipe.by = "package" => ~Loads /\ ~Extracts
  BY DEF Loads, Extracts
<1>3. ~recipe.windows => MvAt >= 4 /\ (Extracts => MvAt >= 6)
  BY DEF MvAt
<1>4. Plan # <<>> => Loads \/ recipe.by = "package"
  BY <1>1, PlanFacts DEF Loads, Bys
<1>. QED BY <1>1, <1>2, <1>3, <1>4, PlanFacts

\* The step that a task is at.
LEMMA StepFacts ==
    ASSUME InstallInv, NEW q \in Tasks, stage[q] \in {"run", "ran", "busy", "digest"}
    PROVE  /\ at[q] \in 1..LastStep /\ (Loads \/ recipe.by = "package")
           /\ recipe.by = "package" => at[q] = 1 /\ Step(q) = "package"
           /\ Loads => /\ Step(q) = "curl" <=> at[q] = 2
                       /\ Step(q) = "tar" <=> Extracts /\ at[q] = 4
                       /\ Step(q) = "chmod" <=> ~recipe.windows /\ at[q] = MvAt - 1
                       /\ Step(q) = "mv" <=> at[q] = MvAt
                       /\ Step(q) = "rm" <=> Extracts /\ at[q] = MvAt + 1
                       /\ Step(q) # "package"
<1>1. at[q] \in 1..LastStep
  BY DEF InstallInv, Fits, InPlan
<1>2. recipe.by # "none"
  BY <1>1 DEF LastStep
<1>3. Loads \/ recipe.by = "package"
  BY <1>2, Numbers DEF Bys, Loads
<1>. QED BY <1>1, <1>3, Numbers, PlanFacts DEF Step

\* A task goes on in its plan, or to a second look at the tool.
LEMMA GoesOn ==
    ASSUME InstallInv, NEW q \in Tasks, Active(q),
           NEW s \in {"check", "run", "busy", "ran", "digest", "recheck", "final"}, To(q, s),
           at' = at \/ at' = [at EXCEPT ![q] = 1] \/ at' = [at EXCEPT ![q] = @ + 1],
           UNCHANGED <<recipe, status, cancelled, overlapped>>,
           placed' = placed \/ placed' = placed \cup {q},
           download' \in ToolFiles, member' \in ToolFiles, bin' \in ToolFiles,
           elsewhere' \in BOOLEAN, LeftAlone',
           /\ s # "recheck" => at'[q] \in 1..LastStep
           /\ s \in {"busy", "digest"} => Loads /\ at'[q] = 2
           /\ s = "final" => at'[q] = LastStep,
           q \in placed' => Loads /\ (s # "recheck" => StepsDone(q)' >= MvAt),
           q \in Alone => /\ s # "recheck" => SoFar(q)'
                          /\ q \in placed' => Works'
    PROVE  InstallInv'
<1>1. stage'[q] = s
  BY DEF To, InstallInv, InstallTypeOK
<1>2. /\ \A t \in Tasks : status'[t] \in {"none", "absent", "broken", "installed"}
      /\ status' = [t \in Tasks |-> status'[t]]
  BY DEF InstallInv, InstallTypeOK
<1>3. Fits(q)'
  BY <1>1, RecipeKept DEF Fits, InPlan
<1>4. Far(q)'
  BY <1>1, RecipeKept DEF Far, InPlan
<1>5. AloneFine(q)'
  <2>1. q \in Alone' => q \in Alone
    BY DEF Alone
  <2>2. s = "recheck" => SoFar(q)'
    BY <1>1 DEF SoFar, InPlan
  <2>. QED BY <2>1, <2>2 DEF AloneFine
<1>. QED BY <1>2, <1>3, <1>4, <1>5, OneMoves DEF StageSet

-----------------------------------------------------------------------------
(* The steps.                                                              *)

\* A task that is in its plan before the move has moved nothing.
LEMMA Before ==
    ASSUME InstallInv, NEW q \in Tasks, Active(q)
    PROVE  /\ q \in placed => Loads /\ stage[q] # "preflight"
           /\ q \in placed /\ InPlan(q) => StepsDone(q) >= MvAt
           /\ q \in placed /\ q \notin cancelled \cup overlapped => q \in Alone
  BY DEF InstallInv, Far, Alone

LEMMA PreflightStep ==
    ASSUME InstallInv, NEW q \in Tasks, Preflight(q)
    PROVE  InstallInv'
<1>1. Active(q) /\ q \notin placed
  BY Before DEF Preflight, Active
<1>2. UNCHANGED <<recipe, cancelled, download, member, bin, elsewhere, placed, overlapped>>
  BY DEF Preflight, artifacts, history
<1>3. PICK v \in Detects :
         IF v = "installed" THEN Ends(q, "ok", v) /\ UNCHANGED at
         ELSE IF Plan = <<>> THEN Ends(q, "failed", "none") /\ UNCHANGED at
         ELSE To(q, "check") /\ at' = [at EXCEPT ![q] = 1] /\ UNCHANGED status
  BY DEF Preflight
<1>4. CASE v = "installed"
  BY <1>1, <1>2, <1>3, <1>4, Ending DEF artifacts, history
<1>5. CASE v # "installed" /\ Plan = <<>>
  BY <1>1, <1>2, <1>3, <1>5, Ending DEF artifacts, history
<1>6. CASE v # "installed" /\ Plan # <<>>
  <2>1. To(q, "check") /\ at' = [at EXCEPT ![q] = 1] /\ UNCHANGED status
    BY <1>3, <1>6
  <2>2. stage'[q] = "check" /\ at'[q] = 1 /\ StepsDone(q)' = 0
    BY <2>1 DEF To, StepsDone, InstallInv, InstallTypeOK
  <2>3. SoFar(q)'
    BY <1>2, <2>2, RecipeKept, Numbers
    DEF SoFar, Checked, Extracted, MadeExec, Moved, Cleaned, Packaged
  <2>4. LeftAlone'
    BY <1>2, RecipeKept DEF LeftAlone, InstallInv
  <2>5. at'[q] \in 1..LastStep
    BY <1>6, <2>2, Numbers
  <2>6. /\ download' \in ToolFiles /\ member' \in ToolFiles /\ bin' \in ToolFiles
        /\ elsewhere' \in BOOLEAN
    BY <1>2 DEF InstallInv, InstallTypeOK
  <2>. QED BY <1>1, <1>2, <2>1, <2>2, <2>3, <2>4, <2>5, <2>6, GoesOn
<1>. QED BY <1>4, <1>5, <1>6

LEMMA CheckTokenStep ==
    ASSUME InstallInv, NEW q \in Tasks, CheckToken(q)
    PROVE  InstallInv'
<1>1. Active(q) /\ stage[q] = "check" /\ InPlan(q)
  BY DEF CheckToken, Active, InPlan
<1>2. UNCHANGED <<recipe, at, cancelled, download, member, bin, elsewhere, placed, overlapped>>
  BY DEF CheckToken, artifacts, history
<1>3. CASE q \in cancelled
  BY <1>1, <1>2, <1>3, Ending DEF CheckToken, artifacts, history
<1>4. CASE q \notin cancelled
  <2>1. To(q, "run") /\ UNCHANGED status
    BY <1>4 DEF CheckToken
  <2>2. stage'[q] = "run" /\ at'[q] = at[q] /\ StepsDone(q)' = StepsDone(q)
    BY <1>1, <1>2, <2>1 DEF To, StepsDone, InstallInv, InstallTypeOK
  <2>3. ASSUME q \in Alone PROVE SoFar(q)' /\ (q \in placed' => Works')
    <3>1. SoFar(q) /\ (q \in placed => Works)
      BY <1>1, <2>3, AloneFacts
    <3>. QED
      BY <1>1, <1>2, <2>2, <3>1, RecipeKept
      DEF SoFar, Checked, Extracted, MadeExec, Moved, Cleaned, Packaged, Works
  <2>4. LeftAlone'
    BY <1>2, RecipeKept DEF LeftAlone, InstallInv
  <2>5. q \in placed' => Loads /\ StepsDone(q)' >= MvAt
    BY <1>1, <1>2, <2>2, Before
  <2>6. at'[q] \in 1..LastStep
    BY <1>1, <2>2 DEF InstallInv, Fits
  <2>. QED
    BY <1>1, <1>2, <2>1, <2>3, <2>4, <2>5, <2>6, GoesOn DEF InstallInv, InstallTypeOK
<1>. QED BY <1>3, <1>4

\* What a task has left holds after it goes on: the step that it has done counts.
LEMMA OnwardStep ==
    ASSUME InstallInv, NEW q \in Tasks, stage[q] \in {"ran", "digest"}, Onward(q),
           UNCHANGED <<recipe, status, cancelled, artifacts, elsewhere, history>>,
           stage[q] = "digest" => download.content = "pinned",
           stage[q] = "ran" => Step(q) # "curl"
    PROVE  InstallInv'
<1>1. Active(q) /\ InPlan(q)
  BY DEF Active, InPlan
<1>2. /\ UNCHANGED <<recipe, status, cancelled, download, member, bin, elsewhere, placed>>
      /\ overlapped' = overlapped
  BY DEF artifacts, history
<1>3. at[q] \in 1..LastStep /\ at[q] \in Nat /\ Len(Plan) = LastStep /\ LastStep \in 0..7
  BY StepFacts, Numbers
<1>4. PICK s \in {"check", "final"} :
         /\ To(q, s) /\ (at' = at \/ at' = [at EXCEPT ![q] = @ + 1])
         /\ at'[q] \in 1..LastStep
         /\ s = "check" => at'[q] = at[q] + 1
         /\ s = "final" => at'[q] = LastStep /\ at[q] = LastStep
  <2>1. CASE at[q] < Len(Plan)
    BY <1>3, <2>1 DEF Onward, InstallInv, InstallTypeOK
  <2>2. CASE ~(at[q] < Len(Plan))
    BY <1>3, <2>2 DEF Onward
  <2>. QED BY <2>1, <2>2
<1>5. stage'[q] = s
  BY <1>4 DEF To, InstallInv, InstallTypeOK
<1>6. StepsDone(q)' = at[q] /\ InPlan(q)'
  BY <1>3, <1>4, <1>5 DEF StepsDone, InPlan
<1>7. /\ stage[q] = "digest" => Loads /\ at[q] = 2 /\ StepsDone(q) = 1
      /\ stage[q] = "ran" => StepsDone(q) = at[q]
  BY <1>3 DEF InstallInv, Fits, StepsDone
<1>8. q \in placed' => Loads /\ StepsDone(q)' >= MvAt
  BY <1>1, <1>2, <1>6, <1>7, Before, Numbers
<1>9. ASSUME q \in Alone PROVE SoFar(q)' /\ (q \in placed' => Works')
  <2>1. SoFar(q) /\ (q \in placed => Works)
    BY <1>1, <1>9, AloneFacts
  <2>2. CASE stage[q] = "digest"
    <3>1. Checked(q)'
      BY <1>2, <2>2 DEF Checked
    <3>2. Extracted(q)' /\ MadeExec(q)' /\ Moved(q)' /\ Cleaned(q)' /\ Packaged(q)'
      BY <1>2, <1>6, <1>7, <2>2, RecipeKept, Numbers
      DEF Extracted, MadeExec, Moved, Cleaned, Packaged, Loads
    <3>. QED BY <1>2, <2>1, <3>1, <3>2 DEF SoFar, Works
  <2>3. CASE stage[q] = "ran"
    <3>1. Loads => at[q] # 2
      BY <2>3, StepFacts
    <3>2. at'[q] > 2 /\ Loads => at[q] > 2
      BY <1>3, <1>4, <3>1
    <3>3. Checked(q)'
      BY <1>1, <1>2, <1>6, <1>7, <2>1, <2>3, <3>2, RecipeKept DEF SoFar, Checked
    <3>4. Extracted(q)' /\ MadeExec(q)' /\ Moved(q)' /\ Cleaned(q)' /\ Packaged(q)'
      BY <1>1, <1>2, <1>6, <1>7, <2>1, <2>3, RecipeKept
      DEF SoFar, Extracted, MadeExec, Moved, Cleaned, Packaged
    <3>. QED BY <1>2, <2>1, <3>3, <3>4 DEF SoFar, Works
  <2>. QED BY <2>2, <2>3
<1>10. LeftAlone'
  BY <1>2, RecipeKept DEF LeftAlone, InstallInv
<1>. QED
  BY <1>1, <1>2, <1>4, <1>8, <1>9, <1>10, GoesOn DEF InstallInv, InstallTypeOK

LEMMA StepReturnsStep ==
    ASSUME InstallInv, NEW q \in Tasks, StepReturns(q)
    PROVE  InstallInv'
<1>1. Active(q) /\ InPlan(q) /\ stage[q] = "ran" /\ StepsDone(q) = at[q]
  BY DEF StepReturns, Active, InPlan, StepsDone
<1>2. /\ UNCHANGED <<recipe, status, cancelled, download, member, bin, elsewhere, placed>>
      /\ overlapped' = overlapped
  BY DEF StepReturns, artifacts, history
<1>3. LeftAlone'
  BY <1>2, RecipeKept DEF LeftAlone, InstallInv
<1>4. /\ download' \in ToolFiles /\ member' \in ToolFiles /\ bin' \in ToolFiles
      /\ elsewhere' \in BOOLEAN
  BY <1>2 DEF InstallInv, InstallTypeOK
<1>5. q \in placed' => Loads /\ StepsDone(q) >= MvAt
  BY <1>1, <1>2, Before
<1>6. q \in Alone => SoFar(q) /\ (q \in placed' => Works')
  BY <1>1, <1>2, AloneFacts DEF Works
<1>7. CASE q \in cancelled
  <2>1. To(q, "recheck") /\ at' = at
    BY <1>7 DEF StepReturns
  <2>. QED BY <1>1, <1>2, <1>3, <1>4, <1>5, <1>6, <2>1, GoesOn
<1>8. CASE q \notin cancelled /\ Step(q) = "curl"
  <2>1. To(q, "digest") /\ at' = at
    BY <1>8 DEF StepReturns
  <2>2. Loads /\ at[q] = 2 /\ at[q] \in 1..LastStep
    <3>1. recipe.by = "package" => Step(q) = "package"
      BY <1>1, StepFacts
    <3>. QED BY <1>1, <1>8, <3>1, StepFacts
  <2>3. stage'[q] = "digest" /\ StepsDone(q)' = 1 /\ at'[q] = 2
    BY <2>1, <2>2 DEF To, StepsDone, InstallInv, InstallTypeOK
  <2>4. q \notin placed'
    BY <1>1, <1>5, <2>2, Numbers
  <2>5. SoFar(q)'
    BY <1>2, <2>2, <2>3, RecipeKept, Numbers
    DEF SoFar, Checked, Extracted, MadeExec, Moved, Cleaned, Packaged, Loads
  <2>. QED BY <1>1, <1>2, <1>3, <1>4, <2>1, <2>2, <2>3, <2>4, <2>5, GoesOn
<1>9. CASE q \notin cancelled /\ Step(q) # "curl"
  <2>1. Onward(q)
    BY <1>9 DEF StepReturns
  <2>. QED BY <1>1, <1>2, <1>9, <2>1, OnwardStep DEF artifacts, history
<1>. QED BY <1>7, <1>8, <1>9

LEMMA VerifyDownloadStep ==
    ASSUME InstallInv, NEW q \in Tasks, VerifyDownload(q)
    PROVE  InstallInv'
<1>1. Active(q) /\ InPlan(q) /\ stage[q] = "digest"
  BY DEF VerifyDownload, Active, InPlan
<1>2. UNCHANGED <<recipe, cancelled, artifacts, elsewhere, history>>
  BY DEF VerifyDownload
<1>3. CASE download.content = "pinned"
  <2>1. Onward(q) /\ UNCHANGED status
    BY <1>3 DEF VerifyDownload
  <2>. QED BY <1>1, <1>2, <1>3, <2>1, OnwardStep
<1>4. CASE download.content # "pinned"
  <2>1. Ends(q, "failed", "none") /\ UNCHANGED at
    BY <1>4 DEF VerifyDownload
  <2>2. q \notin placed
    <3>1. StepsDone(q) = 1
      BY <1>1 DEF StepsDone, InstallInv, Fits
    <3>. QED BY <1>1, <3>1, Before, Numbers
  <2>. QED BY <1>1, <1>2, <2>1, <2>2, Ending
<1>. QED BY <1>3, <1>4

LEMMA RecheckStep ==
    ASSUME InstallInv, NEW q \in Tasks, Recheck(q)
    PROVE  InstallInv'
<1>1. Active(q)
  BY DEF Recheck, Active
<1>2. UNCHANGED <<recipe, at, cancelled, artifacts, elsewhere, history>>
  BY DEF Recheck
<1>3. PICK v \in Detects :
         IF v = "installed" THEN Ends(q, "ok", v) ELSE Ends(q, "failed", "none")
  BY DEF Recheck
<1>4. v # "installed" => q \notin placed \/ q \in cancelled \cup overlapped
  BY <1>1, <1>3, Before, AloneFacts, WhatIsFound
<1>. QED BY <1>1, <1>2, <1>3, <1>4, Ending

LEMMA RedetectStep ==
    ASSUME InstallInv, NEW q \in Tasks, Redetect(q)
    PROVE  InstallInv'
<1>1. Active(q)
  BY DEF Redetect, Active
<1>2. UNCHANGED <<recipe, at, cancelled, artifacts, elsewhere, history>>
  BY DEF Redetect
<1>3. PICK v \in Detects : Ends(q, "ok", v)
  BY DEF Redetect
<1>4. v \in {"none", "absent", "broken", "installed"}
  BY WhatIsFound
<1>. QED BY <1>1, <1>2, <1>3, <1>4, Ending

\* A subprocess that returns: one more step is done, and what the task has left
\* is said of that step.
LEMMA RanFacts ==
    ASSUME InstallInv, NEW q \in Tasks, stage[q] \in {"run", "busy"}, Ran(q)
    PROVE  /\ Active(q) /\ InPlan(q) /\ StepsDone(q) = at[q] - 1 /\ StepsDone(q)' = at[q]
           /\ at'[q] = at[q] /\ at[q] \in 1..LastStep /\ at[q] \in Nat
           /\ q \in placed => Loads /\ at[q] - 1 >= MvAt
           /\ recipe' = recipe
<1>1. Active(q) /\ InPlan(q) /\ StepsDone(q) = at[q] - 1
  BY DEF Active, InPlan, StepsDone
<1>2. stage'[q] = "ran" /\ at' = at /\ recipe' = recipe
  BY DEF Ran, To, InstallInv, InstallTypeOK
<1>3. at[q] \in 1..LastStep /\ at[q] \in Nat
  BY <1>1 DEF InstallInv, Fits, InstallTypeOK
<1>. QED BY <1>1, <1>2, <1>3, Before DEF StepsDone

LEMMA Returns ==
    ASSUME InstallInv, NEW q \in Tasks, stage[q] \in {"run", "busy"}, Ran(q),
           placed' = placed \/ (placed' = placed \cup {q} /\ Loads /\ at[q] >= MvAt),
           download' \in ToolFiles, member' \in ToolFiles, bin' \in ToolFiles,
           elsewhere' \in BOOLEAN, LeftAlone',
           q \in Alone =>
             /\ Checked(q)' /\ Extracted(q)' /\ MadeExec(q)' /\ Moved(q)' /\ Cleaned(q)'
             /\ Packaged(q)' /\ (q \in placed' => Works')
    PROVE  InstallInv'
<1>1. To(q, "ran") /\ at' = at /\ UNCHANGED <<recipe, status, cancelled, overlapped>>
  BY DEF Ran
<1>2. q \in placed' => Loads /\ StepsDone(q)' >= MvAt
  BY RanFacts, Numbers
<1>3. q \in Alone => SoFar(q)' /\ (q \in placed' => Works')
  BY DEF SoFar
<1>. QED BY <1>1, <1>2, <1>3, RanFacts, GoesOn

LEMMA MkdirStep ==
    ASSUME InstallInv, NEW q \in Tasks, Mkdir(q)
    PROVE  InstallInv'
<1>1. /\ stage[q] = "run" /\ Step(q) \in {"mkdir", "mkdir-extract"} /\ Ran(q)
      /\ UNCHANGED <<recipe, download, member, bin, elsewhere, placed>>
  BY DEF Mkdir, Running, Ran, artifacts
<1>2. LeftAlone'
  BY <1>1, RecipeKept DEF LeftAlone, InstallInv
<1>3. recipe.by # "package"
  BY <1>1, StepFacts
<1>4. Loads => /\ at[q] # 2 /\ (Extracts => at[q] # 4) /\ at[q] # MvAt
               /\ (~recipe.windows => at[q] # MvAt - 1) /\ (Extracts => at[q] # MvAt + 1)
  BY <1>1, StepFacts
<1>5. ASSUME q \in Alone
      PROVE  /\ Checked(q)' /\ Extracted(q)' /\ MadeExec(q)' /\ Moved(q)' /\ Cleaned(q)'
             /\ Packaged(q)' /\ (q \in placed' => Works')
  <2>1. SoFar(q) /\ (q \in placed => Works) /\ InPlan(q)
    BY <1>1, <1>5, RanFacts, AloneFacts
  <2>2. Checked(q)'
    BY <1>1, <2>1, RecipeKept, RanFacts, Numbers DEF SoFar, Checked
  <2>3. Extracted(q)'
    BY <1>1, <1>4, <2>1, RecipeKept, RanFacts, Numbers DEF SoFar, Extracted
  <2>4. MadeExec(q)'
    BY <1>1, <1>4, RecipeKept, RanFacts, Numbers DEF MadeExec
  <2>5. Moved(q)' /\ Cleaned(q)'
    <3>1. Loads => at[q] < MvAt
      BY <1>1, <1>4, RanFacts, Numbers
    <3>. QED BY <1>1, <3>1, RecipeKept, RanFacts, Numbers DEF Moved, Cleaned
  <2>6. Packaged(q)' /\ (q \in placed' => Works')
    BY <1>1, <1>3, <2>1 DEF Packaged, Works
  <2>. QED BY <2>2, <2>3, <2>4, <2>5, <2>6
<1>. QED BY <1>1, <1>2, <1>5, Returns DEF InstallInv, InstallTypeOK

LEMMA CurlStartsStep ==
    ASSUME InstallInv, NEW q \in Tasks, CurlStarts(q)
    PROVE  InstallInv'
<1>1. /\ stage[q] = "run" /\ Step(q) = "curl" /\ To(q, "busy") /\ Active(q) /\ InPlan(q)
      /\ download' = [download EXCEPT !.content = "partial"]
      /\ UNCHANGED <<recipe, at, status, cancelled, member, bin, elsewhere, placed, overlapped>>
  BY DEF CurlStarts, Running, Active, InPlan, history
<1>2. Loads /\ at[q] = 2 /\ at[q] \in 1..LastStep
  <2>1. recipe.by = "package" => Step(q) = "package"
    BY <1>1, StepFacts
  <2>. QED BY <1>1, <2>1, StepFacts
<1>3. stage'[q] = "busy" /\ StepsDone(q)' = 1 /\ StepsDone(q) = 1 /\ at'[q] = 2
  BY <1>1, <1>2 DEF To, StepsDone, InstallInv, InstallTypeOK
<1>4. q \notin placed'
  BY <1>1, <1>3, Before, Numbers
<1>5. SoFar(q)'
  BY <1>1, <1>2, <1>3, RecipeKept, Numbers
  DEF SoFar, Checked, Extracted, MadeExec, Moved, Cleaned, Packaged, Loads
<1>6. LeftAlone'
  BY <1>1, <1>2, RecipeKept DEF LeftAlone, InstallInv
<1>7. /\ download' \in ToolFiles /\ member' \in ToolFiles /\ bin' \in ToolFiles
      /\ elsewhere' \in BOOLEAN
  BY <1>1 DEF InstallInv, InstallTypeOK, ToolFiles
<1>. QED BY <1>1, <1>2, <1>3, <1>4, <1>5, <1>6, <1>7, GoesOn

LEMMA CurlEndsStep ==
    ASSUME InstallInv, NEW q \in Tasks, CurlEnds(q)
    PROVE  InstallInv'
<1>1. /\ stage[q] = "busy" /\ Ran(q) /\ UNCHANGED <<recipe, member, bin, elsewhere, placed>>
  BY DEF CurlEnds, Ran
<1>2. Loads /\ at[q] = 2
  BY <1>1 DEF InstallInv, Fits
<1>3. LeftAlone'
  BY <1>1, <1>2, RecipeKept DEF LeftAlone, InstallInv
<1>4. download' \in ToolFiles
  BY DEF CurlEnds, InstallInv, InstallTypeOK, ToolFiles
<1>5. ~(at[q] > 2) /\ ~(4 <= at[q]) /\ ~(at[q] >= MvAt)
  BY <1>2, Numbers
<1>6. Checked(q)' /\ Extracted(q)' /\ Moved(q)'
  BY <1>1, <1>5, RecipeKept, RanFacts DEF Checked, Extracted, Moved
<1>7. MadeExec(q)'
  BY <1>1, <1>2, RecipeKept, RanFacts, Numbers DEF MadeExec
<1>8. Cleaned(q)' /\ Packaged(q)'
  BY <1>1, <1>2, RecipeKept, RanFacts, Numbers DEF Cleaned, Packaged, Loads
<1>9. q \notin placed'
  BY <1>1, <1>2, RanFacts, Numbers
<1>. QED BY <1>1, <1>3, <1>4, <1>6, <1>7, <1>8, <1>9, Returns DEF InstallInv, InstallTypeOK

LEMMA TarStep ==
    ASSUME InstallInv, NEW q \in Tasks, Tar(q)
    PROVE  InstallInv'
<1>1. /\ stage[q] = "run" /\ Step(q) = "tar" /\ Ran(q)
      /\ UNCHANGED <<recipe, download, bin, elsewhere, placed>>
  BY DEF Tar, Running, Ran
<1>2. PICK x \in BOOLEAN : member' = [content |-> download.content, exec |-> x]
  BY DEF Tar
<1>3. Extracts /\ Loads /\ at[q] = 4
  <2>1. recipe.by = "package" => Step(q) = "package"
    BY <1>1, StepFacts
  <2>. QED BY <1>1, <2>1, StepFacts
<1>4. LeftAlone'
  BY <1>1, <1>3, RecipeKept DEF LeftAlone
<1>5. member' \in ToolFiles
  BY <1>2 DEF InstallInv, InstallTypeOK, ToolFiles
<1>6. q \notin placed'
  BY <1>1, <1>3, RanFacts, Numbers
<1>7. ASSUME q \in Alone
      PROVE  /\ Checked(q)' /\ Extracted(q)' /\ MadeExec(q)' /\ Moved(q)' /\ Cleaned(q)'
             /\ Packaged(q)'
  <2>1. download.content = "pinned"
    BY <1>1, <1>3, <1>7, RanFacts, AloneFacts, Numbers DEF SoFar, Checked
  <2>2. Checked(q)'
    BY <1>1, <2>1 DEF Checked
  <2>3. Extracted(q)'
    BY <1>2, <2>1 DEF Extracted
  <2>4. MadeExec(q)' /\ Moved(q)' /\ Cleaned(q)'
    BY <1>1, <1>3, RecipeKept, RanFacts, Numbers DEF MadeExec, Moved, Cleaned
  <2>5. Packaged(q)'
    BY <1>1, <1>3 DEF Packaged, Loads
  <2>. QED BY <2>2, <2>3, <2>4, <2>5
<1>. QED BY <1>1, <1>4, <1>5, <1>6, <1>7, Returns DEF InstallInv, InstallTypeOK

LEMMA ChmodStep ==
    ASSUME InstallInv, NEW q \in Tasks, Chmod(q)
    PROVE  InstallInv'
<1>1. /\ stage[q] = "run" /\ Step(q) = "chmod" /\ Ran(q)
      /\ UNCHANGED <<recipe, bin, elsewhere, placed>>
  BY DEF Chmod, Running, Ran
<1>2. /\ Extracts => member' = [member EXCEPT !.exec = TRUE] /\ UNCHANGED download
      /\ ~Extracts => download' = [download EXCEPT !.exec = TRUE] /\ UNCHANGED member
  BY DEF Chmod
<1>3. Loads /\ ~recipe.windows /\ at[q] = MvAt - 1
  <2>1. recipe.by = "package" => Step(q) = "package"
    BY <1>1, StepFacts
  <2>. QED BY <1>1, <2>1, StepFacts
<1>4. LeftAlone'
  BY <1>1, <1>2, <1>3, RecipeKept DEF LeftAlone, InstallInv
<1>5. download \in ToolFiles /\ member \in ToolFiles
  BY DEF InstallInv, InstallTypeOK
<1>6. /\ download' \in ToolFiles /\ member' \in ToolFiles
      /\ download'.content = download.content /\ member'.content = member.content
      /\ IF Extracts THEN member'.exec ELSE download'.exec
  BY <1>2, <1>5 DEF ToolFiles
<1>7. q \notin placed'
  BY <1>1, <1>3, RanFacts, Numbers
<1>8. ASSUME q \in Alone
      PROVE  /\ Checked(q)' /\ Extracted(q)' /\ MadeExec(q)' /\ Moved(q)' /\ Cleaned(q)'
             /\ Packaged(q)'
  <2>1. SoFar(q) /\ InPlan(q)
    BY <1>1, <1>8, RanFacts, AloneFacts
  <2>2. Checked(q)'
    BY <1>1, <1>6, <2>1, RecipeKept, RanFacts, Numbers DEF SoFar, Checked
  <2>3. Extracted(q)'
    BY <1>1, <1>3, <1>6, <2>1, RecipeKept, RanFacts, Numbers DEF SoFar, Extracted
  <2>4. MadeExec(q)'
    BY <1>1, <1>6, RecipeKept DEF MadeExec
  <2>5. Moved(q)' /\ Cleaned(q)'
    BY <1>1, <1>3, RecipeKept, RanFacts, Numbers DEF Moved, Cleaned
  <2>6. Packaged(q)'
    BY <1>1, <1>3 DEF Packaged, Loads
  <2>. QED BY <2>2, <2>3, <2>4, <2>5, <2>6
<1>. QED BY <1>1, <1>4, <1>6, <1>7, <1>8, Returns DEF InstallInv, InstallTypeOK

\* What a task that is alone moves is the checked artifact, and can be run.
LEMMA MvTakes ==
    ASSUME InstallInv, NEW q \in Tasks, Mv(q)
    PROVE  /\ stage[q] = "run" /\ Loads /\ at[q] = MvAt
           /\ bin' = IF Extracts THEN member ELSE download
           /\ bin' \in ToolFiles
           /\ q \in Alone => bin'.content = "pinned" /\ (bin'.exec \/ recipe.windows)
<1>1. /\ stage[q] = "run" /\ Step(q) = "mv"
      /\ bin' = IF Extracts THEN member ELSE download
  BY DEF Mv, Running
<1>2. Loads /\ at[q] = MvAt
  <2>1. recipe.by = "package" => Step(q) = "package"
    BY <1>1, StepFacts
  <2>. QED BY <1>1, <2>1, StepFacts
<1>3. bin' \in ToolFiles
  BY <1>1 DEF InstallInv, InstallTypeOK
<1>4. ASSUME q \in Alone PROVE bin'.content = "pinned" /\ (bin'.exec \/ recipe.windows)
  <2>1. SoFar(q) /\ InPlan(q) /\ StepsDone(q) = MvAt - 1
    BY <1>1, <1>2, <1>4, AloneFacts DEF Active, InPlan, StepsDone
  <2>2. bin'.content = "pinned"
    <3>1. CASE Extracts
      <4>1. 4 <= StepsDone(q) /\ StepsDone(q) < MvAt
        BY <2>1, <3>1, Numbers
      <4>. QED BY <1>1, <2>1, <3>1, <4>1 DEF SoFar, Extracted
    <3>2. CASE ~Extracts
      <4>1. at[q] > 2 /\ StepsDone(q) < MvAt
        BY <1>2, <2>1, Numbers
      <4>. QED BY <1>1, <1>2, <2>1, <3>2, <4>1 DEF SoFar, Checked
    <3>. QED BY <3>1, <3>2
  <2>3. bin'.exec \/ recipe.windows
    BY <1>1, <1>2, <2>1 DEF SoFar, MadeExec
  <2>. QED BY <2>2, <2>3
<1>. QED BY <1>1, <1>2, <1>3, <1>4

LEMMA MvStep ==
    ASSUME InstallInv, NEW q \in Tasks, Mv(q)
    PROVE  InstallInv'
<1>1. /\ stage[q] = "run" /\ Ran(q) /\ UNCHANGED <<recipe, elsewhere>>
      /\ placed' = placed \cup {q}
      /\ Extracts => member' = NoFile /\ UNCHANGED download
      /\ ~Extracts => download' = NoFile /\ UNCHANGED member
  BY DEF Mv, Running, Ran
<1>2. Loads /\ at[q] = MvAt /\ at[q] >= MvAt /\ bin' \in ToolFiles
  BY MvTakes, Numbers
<1>3. LeftAlone'
  BY <1>1, <1>2, RecipeKept DEF LeftAlone, InstallInv
<1>4. NoFile \in ToolFiles
  BY DEF NoFile, ToolFiles
<1>5. download' \in ToolFiles /\ member' \in ToolFiles
  BY <1>1, <1>4 DEF InstallInv, InstallTypeOK
<1>6. ASSUME q \in Alone
      PROVE  /\ Checked(q)' /\ Extracted(q)' /\ MadeExec(q)' /\ Moved(q)' /\ Cleaned(q)'
             /\ Packaged(q)' /\ Works'
  <2>1. SoFar(q) /\ InPlan(q)
    BY <1>1, <1>6, RanFacts, AloneFacts
  <2>2. Checked(q)'
    <3>1. CASE Extracts
      BY <1>1, <1>2, <2>1, <3>1, RecipeKept, RanFacts, Numbers DEF SoFar, Checked
    <3>2. CASE ~Extracts
      BY <1>1, <1>2, <3>2, RecipeKept, RanFacts, Numbers DEF Checked
    <3>. QED BY <3>1, <3>2
  <2>3. Extracted(q)' /\ MadeExec(q)' /\ Cleaned(q)'
    BY <1>1, <1>2, RecipeKept, RanFacts, Numbers DEF Extracted, MadeExec, Cleaned
  <2>4. Moved(q)'
    BY <1>1, RecipeKept DEF Moved
  <2>5. Packaged(q)'
    BY <1>1, <1>2 DEF Packaged, Loads
  <2>6. Works'
    BY <1>1, <1>6, MvTakes DEF Works
  <2>. QED BY <2>2, <2>3, <2>4, <2>5, <2>6
<1>. QED BY <1>1, <1>2, <1>3, <1>5, <1>6, Returns DEF InstallInv, InstallTypeOK

LEMMA RmStep ==
    ASSUME InstallInv, NEW q \in Tasks, Rm(q)
    PROVE  InstallInv'
<1>1. /\ stage[q] = "run" /\ Step(q) = "rm" /\ Ran(q)
      /\ UNCHANGED <<recipe, bin, elsewhere, placed>> /\ download' = NoFile /\ member' = NoFile
  BY DEF Rm, Running, Ran
<1>2. Extracts /\ Loads /\ at[q] = MvAt + 1 /\ LastStep = MvAt + 1
  <2>1. recipe.by = "package" => Step(q) = "package"
    BY <1>1, StepFacts
  <2>. QED BY <1>1, <2>1, StepFacts, Numbers
<1>3. LeftAlone'
  BY <1>1, <1>2, RecipeKept DEF LeftAlone
<1>4. download' \in ToolFiles /\ member' \in ToolFiles
  BY <1>1 DEF NoFile, ToolFiles
<1>5. ASSUME q \in Alone
      PROVE  /\ Checked(q)' /\ Extracted(q)' /\ MadeExec(q)' /\ Moved(q)' /\ Cleaned(q)'
             /\ Packaged(q)' /\ (q \in placed' => Works')
  <2>1. SoFar(q) /\ (q \in placed => Works) /\ InPlan(q)
    BY <1>1, <1>5, RanFacts, AloneFacts
  <2>2. Checked(q)' /\ Extracted(q)' /\ MadeExec(q)'
    BY <1>1, <1>2, RecipeKept, RanFacts, Numbers DEF Checked, Extracted, MadeExec
  <2>3. Moved(q)'
    BY <1>1, <1>2, <2>1, RecipeKept, RanFacts, Numbers DEF SoFar, Moved
  <2>4. Cleaned(q)' /\ Packaged(q)' /\ (q \in placed' => Works')
    BY <1>1, <1>2, <2>1 DEF Cleaned, Packaged, Loads, Works
  <2>. QED BY <2>2, <2>3, <2>4
<1>. QED BY <1>1, <1>3, <1>4, <1>5, Returns DEF InstallInv, InstallTypeOK

LEMMA PackageManagerStep ==
    ASSUME InstallInv, NEW q \in Tasks, PackageManager(q)
    PROVE  InstallInv'
<1>1. /\ stage[q] = "run" /\ Step(q) = "package" /\ Ran(q) /\ elsewhere' = TRUE
      /\ UNCHANGED <<recipe, download, member, bin, placed>>
  BY DEF PackageManager, Running, Ran, artifacts
<1>2. ~Loads /\ ~Extracts
  BY <1>1, StepFacts, Numbers
<1>3. LeftAlone'
  BY <1>1, RecipeKept DEF LeftAlone, InstallInv
<1>4. q \notin placed'
  BY <1>1, <1>2, RanFacts
<1>5. /\ Checked(q)' /\ Extracted(q)' /\ MadeExec(q)' /\ Moved(q)' /\ Cleaned(q)'
      /\ Packaged(q)'
  BY <1>1, <1>2, RecipeKept DEF Checked, Extracted, MadeExec, Moved, Cleaned, Packaged
<1>. QED BY <1>1, <1>3, <1>4, <1>5, Returns DEF InstallInv, InstallTypeOK

LEMMA StepFailsStep ==
    ASSUME InstallInv, NEW q \in Tasks, StepFails(q)
    PROVE  InstallInv'
<1>1. /\ stage[q] \in {"run", "busy", "ran"} /\ Active(q) /\ To(q, "recheck")
      /\ UNCHANGED <<recipe, at, status, cancelled, download, bin, elsewhere, placed, overlapped>>
      /\ Running(q, "tar") \/ member' = member
      /\ member' \in {member, [content |-> "partial", exec |-> FALSE]}
  BY DEF StepFails, Active, history
<1>2. member' \in ToolFiles
  <2>1. member \in ToolFiles
    BY DEF InstallInv, InstallTypeOK
  <2>2. [content |-> "partial", exec |-> FALSE] \in ToolFiles
    BY DEF ToolFiles
  <2>. QED BY <1>1, <2>1, <2>2
<1>3. LeftAlone'
  <2>1. CASE member' = member
    BY <1>1, <2>1, RecipeKept DEF LeftAlone, InstallInv
  <2>2. CASE Running(q, "tar")
    <3>1. stage[q] = "run" /\ Step(q) = "tar"
      BY <2>2 DEF Running
    <3>2. recipe.by = "package" => Step(q) = "package"
      BY <3>1, StepFacts
    <3>3. Extracts /\ Loads
      BY <3>1, <3>2, StepFacts
    <3>. QED BY <1>1, <3>3, RecipeKept DEF LeftAlone
  <2>. QED BY <1>1, <2>1, <2>2
<1>4. q \in placed' => Loads
  BY <1>1, Before
<1>5. q \in Alone => (q \in placed' => Works')
  BY <1>1, AloneFacts DEF Works
<1>. QED BY <1>1, <1>2, <1>3, <1>4, <1>5, GoesOn DEF InstallInv, InstallTypeOK

LEMMA SubprocessStep ==
    ASSUME InstallInv, NEW q \in Tasks, Subprocess(q)
    PROVE  InstallInv'
  BY MkdirStep, CurlStartsStep, CurlEndsStep, TarStep, ChmodStep, MvStep, RmStep,
     PackageManagerStep, StepFailsStep DEF Subprocess

\* Someone else installs the tool, or nothing happens.
LEMMA NobodyMoves ==
    ASSUME InstallInv, UNCHANGED <<recipe, task, artifacts, history>>,
           elsewhere' \in {elsewhere, TRUE}
    PROVE  InstallInv'
<1>1. /\ UNCHANGED <<recipe, stage, at, status, cancelled, download, member, bin>>
      /\ UNCHANGED <<placed, overlapped>>
  BY DEF task, artifacts, history
<1>2. InstallTypeOK' /\ Beside' /\ LeftAlone'
  BY <1>1, RecipeKept DEF InstallInv, InstallTypeOK, Beside, Active, LeftAlone
<1>3. ASSUME NEW t \in Tasks
      PROVE  Fits(t)' /\ Far(t)' /\ AloneFine(t)'
  <2>1. Fits(t) /\ Far(t) /\ AloneFine(t)
    BY DEF InstallInv
  <2>2. Fits(t)' /\ Far(t)'
    BY <1>1, <2>1, RecipeKept DEF Fits, Far, InPlan, StepsDone
  <2>3. /\ StepsDone(t)' = StepsDone(t) /\ (InPlan(t)' <=> InPlan(t))
        /\ (Active(t)' <=> Active(t)) /\ Alone' = Alone
    BY <1>1 DEF StepsDone, InPlan, Active, Alone
  <2>4. Packaged(t) => Packaged(t)'
    BY <1>1, <2>3 DEF Packaged
  <2>5. SoFar(t) => SoFar(t)'
    BY <1>1, <2>3, <2>4, RecipeKept DEF SoFar, Checked, Extracted, MadeExec, Moved, Cleaned
  <2>6. AloneFine(t)'
    BY <1>1, <2>1, <2>3, <2>5 DEF AloneFine, Works
  <2>. QED BY <2>2, <2>6
<1>. QED BY <1>2, <1>3 DEF InstallInv

LEMMA InstallStep == InstallInv /\ [InstallNext]_install => InstallInv'
<1>. SUFFICES ASSUME InstallInv, [InstallNext]_install PROVE InstallInv'
  OBVIOUS
<1>1. ASSUME NEW t \in Tasks, DoInstall(t) PROVE InstallInv'
  BY <1>1, DoInstallStep
<1>2. ASSUME NEW t \in Tasks, InstallTask(t) PROVE InstallInv'
  BY <1>2, PreflightStep, CheckTokenStep, SubprocessStep, StepReturnsStep, VerifyDownloadStep,
     RecheckStep, RedetectStep DEF InstallTask
<1>3. CASE InstalledElsewhere
  BY <1>3, NobodyMoves DEF InstalledElsewhere
<1>4. CASE UNCHANGED install
  <2>1. UNCHANGED <<recipe, task, artifacts, history>> /\ elsewhere' = elsewhere
    BY <1>4 DEF install, task, artifacts, history
  <2>. QED BY <2>1, NobodyMoves
<1>. QED BY <1>1, <1>2, <1>3, <1>4 DEF InstallNext

-----------------------------------------------------------------------------
(* The theorems.                                                           *)

\* Every task, file and outcome of an installation is of its type in every state.
THEOREM InstallTypeCorrect == InstallSpec => []InstallTypeOK
<1>1. InstallInv => InstallTypeOK
  BY DEF InstallInv
<1>. QED BY <1>1, InstallStart, InstallStep, PTL DEF InstallSpec

\* What a task that nobody runs beside moves to bin is the artifact that its
\* digest is pinned to, however many tasks failed or were cancelled before it
\* and whatever they left in the files they share.
THEOREM MovedIsChecked == InstallSpec => MovedWasChecked
<1>1. InstallInv /\ [InstallNext]_install
        => [\A t \in Alone : Mv(t) => bin'.content = "pinned"]_install
  BY MvTakes DEF Alone
<1>. QED BY <1>1, InstallStart, InstallStep, PTL DEF InstallSpec, MovedWasChecked

\* The last look of a task that went through its plan alone finds the tool.
LEMMA LastLook ==
    ASSUME InstallInv, NEW q \in Alone, Redetect(q)
    PROVE  /\ status'[q] = "installed"
           /\ recipe.by # "package"
                => bin.content = "pinned" /\ ~Exists(download) /\ ~Exists(member)
<1>1. q \in Tasks /\ stage[q] = "final" /\ Active(q) /\ InPlan(q) /\ StepsDone(q) = at[q]
  BY DEF Alone, Redetect, Active, InPlan, StepsDone
<1>2. at[q] = LastStep /\ LastStep \in 1..LastStep
  BY <1>1 DEF InstallInv, Fits
<1>3. SoFar(q) /\ (q \in placed => Works)
  BY <1>1, AloneFacts
<1>4. PICK v \in Detects : status' = [status EXCEPT ![q] = v]
  BY DEF Redetect, Ends
<1>5. status'[q] = v
  BY <1>1, <1>4 DEF InstallInv, InstallTypeOK
<1>6. Loads \/ recipe.by = "package"
  BY <1>2, Numbers DEF LastStep, Loads, Bys
<1>7. CASE Loads
  <2>1. StepsDone(q) >= MvAt
    BY <1>1, <1>2, <1>7, Numbers
  <2>2. Works /\ (~Extracts => download = NoFile)
    BY <1>1, <1>3, <1>7, <2>1 DEF SoFar, Moved
  <2>3. Extracts => download = NoFile /\ member = NoFile
    BY <1>1, <1>2, <1>3 DEF SoFar, Cleaned
  <2>4. ~Extracts => member = NoFile
    BY DEF InstallInv, LeftAlone
  <2>5. v = "installed"
    BY <1>4, <1>7, <2>2, WhatIsFound
  <2>. QED BY <1>5, <2>2, <2>3, <2>4, <2>5 DEF Works, Exists, NoFile
<1>8. CASE recipe.by = "package"
  <2>1. LastStep = 1 /\ ~Loads
    BY <1>8, Numbers
  <2>2. elsewhere
    BY <1>1, <1>2, <1>3, <1>8, <2>1 DEF SoFar, Packaged
  <2>. QED BY <1>4, <1>5, <1>8, <2>1, <2>2, WhatIsFound
<1>. QED BY <1>6, <1>7, <1>8

\* Once the tool is in its place, a task that nobody cancelled does not report a
\* failure whatever goes wrong after that; and a task that went through its
\* plan alone leaves a tool that is found and works, and no file beside it.
THEOREM OutcomesAreAlwaysTrue == InstallSpec => OutcomesAreTrue
<1>1. InstallInv /\ InstallInv' /\ [InstallNext]_install
        => [/\ \A t \in placed' \ (cancelled' \cup overlapped') : stage'[t] # "failed"
            /\ \A t \in Alone : Redetect(t) =>
                 /\ status'[t] = "installed"
                 /\ recipe.by # "package"
                      => bin.content = "pinned" /\ ~Exists(download) /\ ~Exists(member)]_install
  <2>. SUFFICES ASSUME InstallInv, InstallInv'
                PROVE  /\ \A t \in placed' \ (cancelled' \cup overlapped') : stage'[t] # "failed"
                       /\ \A t \in Alone : Redetect(t) =>
                            /\ status'[t] = "installed"
                            /\ recipe.by # "package"
                                 => bin.content = "pinned" /\ ~Exists(download) /\ ~Exists(member)
    OBVIOUS
  <2>1. \A t \in placed' \ (cancelled' \cup overlapped') : stage'[t] # "failed"
    BY DEF InstallInv, InstallTypeOK, Far
  <2>. QED BY <2>1, LastLook
<1>. QED BY <1>1, InstallStart, InstallStep, PTL DEF InstallSpec, OutcomesAreTrue

-----------------------------------------------------------------------------
(***************************************************************************)
(* The detection of the tools.                                             *)
(***************************************************************************)

-----------------------------------------------------------------------------
(* The invariant.                                                          *)

Asks(c) == c.do = "detect" /\ c.run = run
Tells(e, t) == e.is = "tool" /\ e.run = run /\ e.tool = t
Completes(e) == e.is = "done" /\ e.run = run

\* Before its command is taken there is nothing of a run.
NotYet ==
    \A i \in DOMAIN cmds : Asks(cmds[i]) =>
        /\ detecting /\ job[run] = NoJob
        /\ \A j \in DOMAIN bus : ~Completes(bus[j]) /\ \A t \in Tools : ~Tells(bus[j], t)
        /\ \A j \in DOMAIN cmds : Asks(cmds[j]) => j = i

\* The panel's run is under way no longer than the panel waits.
UnderWay ==
    job[run].open =>
        /\ detecting /\ job[run].age <= age
        /\ \A j \in DOMAIN bus : ~Completes(bus[j])

\* It completes once.
DoneOnce ==
    \A i \in DOMAIN bus : Completes(bus[i]) =>
        /\ detecting /\ job[run] = NoJob
        /\ \A j \in DOMAIN bus : Completes(bus[j]) => j = i

\* Each answer that was sent has arrived or will, and before the end of the run.
AnswersArrive ==
    \A t \in Tools :
        /\ job[run].open /\ job[run].probe[t] = "sent"
             => rows[t] # "none" \/ \E i \in DOMAIN bus : Tells(bus[i], t)
        /\ \A i \in DOMAIN bus : Completes(bus[i])
             => rows[t] # "none" \/ \E j \in 1..(i - 1) : Tells(bus[j], t)
        /\ ~detecting => rows[t] # "none"

\* An answer is what is installed, or an install that may have changed it has
\* still to say that it ended: a new run begins then.
Renewed(t) ==
    \/ installs[t] > 0
    \/ \E i \in DOMAIN bus : bus[i].is = "installed" /\ bus[i].tool = t
Fresh(t) ==
    /\ rows[t] \in {"none", Truth(t)}
    /\ job[run].probe[t] \in Found => job[run].probe[t] = Truth(t)
    /\ \A i \in DOMAIN bus : Tells(bus[i], t) => bus[i].found = Truth(t)

DetectionInv ==
    /\ DetectionTypeOK /\ retries = 0
    /\ \A r \in RunIds : ~job[r].open => job[r] = NoJob
    /\ NotYet /\ UnderWay /\ DoneOnce
    /\ ~lost => AnswersArrive /\ \A t \in Tools : Renewed(t) \/ Fresh(t)

LEMMA DetectionStart == DetectionInit => DetectionInv
<1>. SUFFICES ASSUME DetectionInit PROVE DetectionInv
  OBVIOUS
<1>1. /\ run = 1 /\ detecting = TRUE /\ age = 0 /\ retries = 0
      /\ rows = [t \in Tools |-> "none"] /\ panel = NoPanel
      /\ cmds = <<[do |-> "detect", run |-> 1]>> /\ bus = <<>>
      /\ job = [r \in RunIds |-> NoJob] /\ installs = [t \in Tools |-> 0]
      /\ lost = FALSE /\ faults = 0 /\ clicks = 0 /\ present \subseteq Tools
  BY DEF DetectionInit
<1>2. 1 \in RunIds
  BY DetectionAssumption DEF RunIds
<1>3. NoJob \in [open : BOOLEAN, age : 0..Backstop, probe : [Tools -> Probes]]
  BY DetectionAssumption DEF NoJob, Probes
<1>4. DetectionTypeOK
  <2>1. cmds \in Seq(Commands) /\ bus \in Seq(Events)
    BY <1>1, <1>2 DEF Commands
  <2>2. run \in RunIds /\ detecting \in BOOLEAN /\ lost \in BOOLEAN
    BY <1>1, <1>2
  <2>3. age \in 0..Watchdog /\ retries \in 0..MaxRetries /\ faults \in 0..MaxFaults
        /\ clicks \in 0..MaxClicks
    BY <1>1, DetectionAssumption
  <2>4. rows \in [Tools -> Found \cup {"none"}] /\ installs \in [Tools -> Nat]
    BY <1>1
  <2>5. panel \in [tool : Tools, done : BOOLEAN] \cup {NoPanel}
    BY <1>1
  <2>6. job \in [RunIds -> [open : BOOLEAN, age : 0..Backstop, probe : [Tools -> Probes]]]
    BY <1>1, <1>3
  <2>. QED BY <1>1, <2>1, <2>2, <2>3, <2>4, <2>5, <2>6 DEF DetectionTypeOK
<1>5. job[run] = NoJob /\ ~NoJob.open /\ \A t \in Tools : NoJob.probe[t] = "sent"
  BY <1>1, <1>2 DEF NoJob
<1>6. DOMAIN bus = {} /\ DOMAIN cmds = {1}
  BY <1>1
<1>7. NotYet /\ UnderWay /\ DoneOnce
  BY <1>1, <1>5, <1>6 DEF NotYet, UnderWay, DoneOnce
<1>8. AnswersArrive
  BY <1>1, <1>5, <1>6 DEF AnswersArrive
<1>9. \A t \in Tools : Fresh(t)
  BY <1>1, <1>5, <1>6 DEF Fresh, Found
<1>10. \A r \in RunIds : ~job[r].open => job[r] = NoJob
  BY <1>1
<1>. QED BY <1>1, <1>4, <1>7, <1>8, <1>9, <1>10 DEF DetectionInv

LEMMA NextRunIsOne == run \in RunIds => NextRun \in RunIds
  BY DetectionAssumption DEF NextRun, RunIds

\* What NoJob says to the parts of the invariant.
LEMMA NoJobFacts == ~NoJob.open /\ \A t \in Tools : NoJob.probe[t] \notin Found
  BY DEF NoJob, Found

LEMMA JobFacts ==
    ASSUME DetectionTypeOK
    PROVE  /\ run \in RunIds
           /\ \A r \in RunIds :
                /\ job[r] \in [open : BOOLEAN, age : 0..Backstop, probe : [Tools -> Probes]]
                /\ job[r].open \in BOOLEAN /\ job[r].age \in 0..Backstop
                /\ \A t \in Tools : job[r].probe[t] \in Probes
  BY DEF DetectionTypeOK

LEMMA BusTail ==
    ASSUME bus \in Seq(Events), bus # <<>>
    PROVE  /\ Tail(bus) \in Seq(Events) /\ Head(bus) = bus[1] /\ 1 \in DOMAIN bus
           /\ bus[1] \in Events
           /\ DOMAIN Tail(bus) = 1..(Len(bus) - 1) /\ DOMAIN bus = 1..Len(bus)
           /\ \A i \in DOMAIN Tail(bus) : Tail(bus)[i] = bus[i + 1] /\ i + 1 \in DOMAIN bus
           /\ \A i \in DOMAIN bus : i # 1 => i - 1 \in DOMAIN Tail(bus) /\ Tail(bus)[i - 1] = bus[i]
  OBVIOUS

\* A new run of the panel: nothing of it is anywhere, and no row is known.
LEMMA RunBegins ==
    ASSUME DetectionInv, StartRun, present' = present, job' = job,
           \/ bus' = bus
           \/ bus # <<>> /\ bus' = Tail(bus)
    PROVE  /\ run' \in RunIds /\ detecting' \in BOOLEAN /\ age' \in 0..Watchdog
           /\ retries' \in 0..MaxRetries /\ rows' \in [Tools -> Found \cup {"none"}]
           /\ cmds' \in Seq(Commands) /\ faults' \in 0..MaxFaults /\ bus' \in Seq(Events)
           /\ retries' = 0 /\ NotYet' /\ UnderWay' /\ DoneOnce'
           /\ AnswersArrive' /\ \A t \in Tools : Fresh(t)'
<1>. USE DEF DetectionInv
<1>1. /\ run' = NextRun /\ detecting' = TRUE /\ age' = 0 /\ retries' = 0
      /\ rows' = [t \in Tools |-> "none"]
      /\ job[run'] = NoJob
      /\ \A i \in DOMAIN bus : bus[i].is \in {"tool", "done"} => bus[i].run # run'
      /\ \A i \in DOMAIN cmds : cmds[i].do = "detect" => cmds[i].run # run'
  BY DEF StartRun, BeginDetect, Unused
<1>2. run' \in RunIds
  BY <1>1, NextRunIsOne DEF DetectionTypeOK
<1>3. bus \in Seq(Events) /\ cmds \in Seq(Commands)
  BY DEF DetectionTypeOK
<1>4. /\ cmds' = cmds \/ cmds' = Append(cmds, [do |-> "detect", run |-> run'])
      /\ faults' \in 0..MaxFaults
  BY DetectionAssumption DEF StartRun, Issue, Fault, DetectionTypeOK
<1>5. [do |-> "detect", run |-> run'] \in Commands
  BY <1>2 DEF Commands
<1>6. cmds' \in Seq(Commands)
  BY <1>3, <1>4, <1>5
<1>7. bus' \in Seq(Events)
  BY <1>3, BusTail
<1>8. \A i \in DOMAIN bus' : bus'[i].is \in {"tool", "done"} => bus'[i].run # run'
  <2>1. \A i \in DOMAIN bus' : \E j \in DOMAIN bus : bus'[i] = bus[j]
    <3>1. CASE bus' = bus
      BY <3>1
    <3>2. CASE bus # <<>> /\ bus' = Tail(bus)
      BY <1>3, <3>2, BusTail
    <3>. QED BY <3>1, <3>2
  <2>. QED BY <1>1, <2>1
<1>9. \A i \in DOMAIN bus' : ~Completes(bus[i])' /\ \A t \in Tools : ~Tells(bus[i], t)'
  BY <1>8 DEF Completes, Tells
<1>10. job'[run'] = NoJob
  BY <1>1
<1>11. NotYet'
  <2>1. \A i, j \in DOMAIN cmds' : Asks(cmds[i])' /\ Asks(cmds[j])' => i = j
    <3>1. CASE cmds' = cmds
      BY <1>1, <3>1 DEF Asks
    <3>2. CASE cmds' = Append(cmds, [do |-> "detect", run |-> run'])
      <4>1. \A i \in DOMAIN cmds' : i # Len(cmds) + 1 => i \in DOMAIN cmds /\ cmds'[i] = cmds[i]
        BY <1>3, <3>2
      <4>2. \A i \in DOMAIN cmds' : Asks(cmds[i])' => i = Len(cmds) + 1
        BY <1>1, <4>1 DEF Asks
      <4>. QED BY <4>2
    <3>. QED BY <1>4, <3>1, <3>2
  <2>. QED BY <1>1, <1>9, <1>10, <2>1 DEF NotYet
<1>12. UnderWay' /\ DoneOnce'
  BY <1>9, <1>10, NoJobFacts DEF UnderWay, DoneOnce
<1>13. AnswersArrive'
  BY <1>1, <1>9, <1>10, NoJobFacts DEF AnswersArrive
<1>14. \A t \in Tools : Fresh(t)'
  BY <1>1, <1>9, <1>10, NoJobFacts DEF Fresh
<1>15. age' \in 0..Watchdog /\ retries' \in 0..MaxRetries
  BY <1>1, DetectionAssumption
<1>16. rows' \in [Tools -> Found \cup {"none"}]
  BY <1>1
<1>. QED
  BY <1>1, <1>2, <1>4, <1>6, <1>7, <1>11, <1>12, <1>13, <1>14, <1>15, <1>16

LEMMA RefreshStep == ASSUME DetectionInv, Refresh PROVE DetectionInv'
<1>1. /\ StartRun /\ Click
      /\ UNCHANGED <<present, panel, bus, job, installs, lost>>
  BY DEF Refresh
<1>2. clicks' \in 0..MaxClicks
  BY <1>1, DetectionAssumption DEF Click, DetectionInv, DetectionTypeOK
<1>3. DetectionTypeOK'
  BY <1>1, <1>2, RunBegins DEF DetectionInv, DetectionTypeOK
<1>. QED BY <1>1, <1>3, RunBegins DEF DetectionInv

LEMMA WatchDetectStep == ASSUME DetectionInv, WatchDetect PROVE DetectionInv'
<1>1. StartRun
  BY DetectionAssumption DEF WatchDetect, Reissue, DetectionInv
<1>2. UNCHANGED <<present, panel, bus, job, installs, lost, clicks>>
  BY DEF WatchDetect
<1>3. DetectionTypeOK'
  BY <1>1, <1>2, RunBegins DEF DetectionInv, DetectionTypeOK
<1>. QED BY <1>1, <1>2, <1>3, RunBegins DEF DetectionInv

LEMMA HandleInstalledStep ==
    ASSUME DetectionInv, HandleEvent, HandleInstalled(Head(bus)), Head(bus).is = "installed"
    PROVE  DetectionInv'
<1>1. /\ StartRun /\ bus # <<>> /\ bus' = Tail(bus)
      /\ UNCHANGED <<present, job, installs, lost, clicks>>
  BY DEF HandleEvent, HandleInstalled
<1>2. panel' \in [tool : Tools, done : BOOLEAN] \cup {NoPanel}
  <2>1. panel \in [tool : Tools, done : BOOLEAN] \cup {NoPanel}
    BY DEF DetectionInv, DetectionTypeOK
  <2>2. panel' = IF panel.tool = Head(bus).tool THEN [panel EXCEPT !.done = TRUE] ELSE panel
    BY DEF HandleInstalled
  <2>3. CASE panel = NoPanel
    BY <2>2, <2>3 DEF NoPanel
  <2>4. CASE panel \in [tool : Tools, done : BOOLEAN]
    BY <2>2, <2>4
  <2>. QED BY <2>1, <2>3, <2>4
<1>3. DetectionTypeOK'
  BY <1>1, <1>2, RunBegins DEF DetectionInv, DetectionTypeOK
<1>. QED BY <1>1, <1>3, RunBegins DEF DetectionInv

\* An event is taken from the bus, or put on it.
LEMMA PopFacts ==
    ASSUME DetectionTypeOK, bus # <<>>, bus' = Tail(bus), run' = run
    PROVE  /\ bus' \in Seq(Events) /\ Head(bus) = bus[1] /\ 1 \in DOMAIN bus /\ bus[1] \in Events
           /\ \A i \in DOMAIN bus' :
                /\ i \in Nat /\ i >= 1 /\ i + 1 \in DOMAIN bus /\ bus'[i] = bus[i + 1]
                /\ Completes(bus[i])' <=> Completes(bus[i + 1])
                /\ \A t \in Tools : Tells(bus[i], t)' <=> Tells(bus[i + 1], t)
           /\ \A i \in DOMAIN bus : i # 1 =>
                /\ i \in Nat /\ i > 1 /\ i - 1 \in DOMAIN bus' /\ bus'[i - 1] = bus[i]
                /\ \A t \in Tools : Tells(bus[i - 1], t)' <=> Tells(bus[i], t)
<1>1. bus \in Seq(Events)
  BY DEF DetectionTypeOK
<1>2. \A i \in DOMAIN bus' : i \in Nat /\ i >= 1 /\ i + 1 \in DOMAIN bus /\ bus'[i] = bus[i + 1]
  BY <1>1, BusTail
<1>3. \A i \in DOMAIN bus : i # 1 =>
        i \in Nat /\ i > 1 /\ i - 1 \in DOMAIN bus' /\ bus'[i - 1] = bus[i]
  BY <1>1, BusTail
<1>. QED BY <1>1, <1>2, <1>3, BusTail DEF Completes, Tells

LEMMA PushFacts ==
    ASSUME DetectionTypeOK, NEW e \in Events, bus' = Append(bus, e), run' = run
    PROVE  /\ bus' \in Seq(Events) /\ Len(bus) \in Nat
           /\ DOMAIN bus = 1..Len(bus) /\ DOMAIN bus' = 1..(Len(bus) + 1)
           /\ bus'[Len(bus) + 1] = e
           /\ \A i \in DOMAIN bus :
                /\ i \in DOMAIN bus' /\ bus'[i] = bus[i]
                /\ Completes(bus[i])' <=> Completes(bus[i])
                /\ \A t \in Tools : Tells(bus[i], t)' <=> Tells(bus[i], t)
           /\ \A i \in DOMAIN bus' : i \in DOMAIN bus \/ i = Len(bus) + 1
<1>1. bus \in Seq(Events)
  BY DEF DetectionTypeOK
<1>2. /\ bus' \in Seq(Events) /\ Len(bus) \in Nat
      /\ DOMAIN bus = 1..Len(bus) /\ DOMAIN bus' = 1..(Len(bus) + 1)
      /\ bus'[Len(bus) + 1] = e
  BY <1>1
<1>3. \A i \in DOMAIN bus : i \in DOMAIN bus' /\ bus'[i] = bus[i]
  BY <1>1
<1>. QED BY <1>2, <1>3 DEF Completes, Tells

LEMMA HandleToolStep ==
    ASSUME DetectionInv, HandleEvent, HandleTool(Head(bus)), Head(bus).is = "tool"
    PROVE  DetectionInv'
<1>. USE DEF DetectionInv
<1>1. /\ bus # <<>> /\ bus' = Tail(bus)
      /\ UNCHANGED <<present, job, installs, lost, clicks>>
      /\ UNCHANGED <<run, detecting, age, retries, panel, cmds, faults>>
  BY DEF HandleEvent, HandleTool
<1>2. DetectionTypeOK /\ bus' \in Seq(Events) /\ Head(bus) = bus[1] /\ bus[1] \in Events
  BY <1>1, PopFacts
<1>3. bus[1].is = "tool" /\ bus[1].tool \in Tools /\ bus[1].found \in Found
  BY <1>2 DEF Events
<1>4. rows' = IF bus[1].run = run THEN [rows EXCEPT ![bus[1].tool] = bus[1].found] ELSE rows
  BY <1>2 DEF HandleTool
<1>5. rows' \in [Tools -> Found \cup {"none"}]
  BY <1>2, <1>3, <1>4 DEF DetectionTypeOK
<1>6. DetectionTypeOK'
  BY <1>1, <1>2, <1>5 DEF DetectionTypeOK
<1>7. NotYet' /\ UnderWay' /\ DoneOnce'
  <2>1. NotYet'
    BY <1>1, <1>2, PopFacts DEF NotYet, Asks
  <2>2. UnderWay'
    BY <1>1, <1>2, PopFacts DEF UnderWay
  <2>3. DoneOnce'
    BY <1>1, <1>2, PopFacts DEF DoneOnce
  <2>. QED BY <2>1, <2>2, <2>3
<1>8. ASSUME NEW t \in Tools
      PROVE  /\ Tells(bus[1], t) => rows'[t] = bus[1].found
             /\ rows'[t] = rows[t] \/ Tells(bus[1], t)
             /\ rows[t] # "none" => rows'[t] # "none"
             /\ Tells(bus[1], t) => rows'[t] # "none"
  BY <1>2, <1>3, <1>4 DEF Tells, DetectionTypeOK, Found
<1>9. ASSUME ~lost' PROVE AnswersArrive'
  <2>1. AnswersArrive
    BY <1>1, <1>9
  <2>2. ASSUME NEW t \in Tools, job[run].open, job[run].probe[t] = "sent"
        PROVE  rows'[t] # "none" \/ \E i \in DOMAIN bus' : Tells(bus[i], t)'
    <3>1. CASE rows[t] # "none"
      BY <1>8, <3>1
    <3>2. CASE rows[t] = "none"
      <4>1. PICK i \in DOMAIN bus : Tells(bus[i], t)
        BY <2>1, <2>2, <3>2 DEF AnswersArrive
      <4>2. CASE i = 1
        BY <1>8, <4>1, <4>2
      <4>3. CASE i # 1
        BY <1>1, <1>2, <4>1, <4>3, PopFacts
      <4>. QED BY <4>2, <4>3
    <3>. QED BY <3>1, <3>2
  <2>3. ASSUME NEW t \in Tools, NEW i \in DOMAIN bus', Completes(bus[i])'
        PROVE  rows'[t] # "none" \/ \E j \in 1..(i - 1) : Tells(bus[j], t)'
    <3>1. i + 1 \in DOMAIN bus /\ Completes(bus[i + 1]) /\ i \in Nat
      BY <1>1, <1>2, <2>3, PopFacts
    <3>2. CASE rows[t] # "none"
      BY <1>8, <3>2
    <3>3. CASE rows[t] = "none"
      <4>1. PICK j \in 1..i : Tells(bus[j], t)
        BY <2>1, <3>1, <3>3 DEF AnswersArrive
      <4>2. CASE j = 1
        BY <1>8, <4>1, <4>2
      <4>3. CASE j # 1
        <5>1. j \in DOMAIN bus
          BY <1>2, <3>1 DEF DetectionTypeOK
        <5>2. Tells(bus[j - 1], t)'
          BY <1>1, <1>2, <4>1, <4>3, <5>1, PopFacts
        <5>3. j - 1 \in 1..(i - 1)
          BY <3>1, <4>3
        <5>. QED BY <5>2, <5>3
      <4>. QED BY <4>2, <4>3
    <3>. QED BY <3>2, <3>3
  <2>4. ASSUME NEW t \in Tools, ~detecting PROVE rows'[t] # "none"
    BY <1>8, <2>1, <2>4 DEF AnswersArrive
  <2>. QED BY <1>1, <2>2, <2>3, <2>4 DEF AnswersArrive
<1>10. ASSUME ~lost', NEW t \in Tools PROVE (Renewed(t) \/ Fresh(t))'
  <2>1. CASE Renewed(t)
    <3>1. CASE installs[t] > 0
      BY <1>1, <3>1 DEF Renewed
    <3>2. CASE ~(installs[t] > 0)
      <4>1. PICK i \in DOMAIN bus : bus[i].is = "installed" /\ bus[i].tool = t
        BY <2>1, <3>2 DEF Renewed
      <4>2. i # 1
        BY <1>3, <4>1
      <4>3. i - 1 \in DOMAIN bus' /\ bus'[i - 1] = bus[i]
        BY <1>1, <1>2, <4>2, PopFacts
      <4>. QED BY <4>1, <4>3 DEF Renewed
    <3>. QED BY <3>1, <3>2
  <2>2. CASE Fresh(t)
    <3>1. rows'[t] \in {"none", Truth(t)}
      BY <1>2, <1>8, <2>2, PopFacts, <1>1 DEF Fresh
    <3>2. \A i \in DOMAIN bus' : Tells(bus[i], t)' => bus'[i].found = Truth(t)
      BY <1>1, <1>2, <2>2, PopFacts DEF Fresh
    <3>. QED BY <1>1, <2>2, <3>1, <3>2 DEF Fresh, Truth
  <2>. QED BY <1>1, <1>10, <2>1, <2>2
<1>. QED BY <1>1, <1>6, <1>7, <1>9, <1>10

LEMMA HandleDoneStep ==
    ASSUME DetectionInv, HandleEvent, HandleDone(Head(bus)), Head(bus).is = "done"
    PROVE  DetectionInv'
<1>. USE DEF DetectionInv
<1>1. /\ bus # <<>> /\ bus' = Tail(bus)
      /\ UNCHANGED <<present, job, installs, lost, clicks>>
      /\ UNCHANGED <<run, rows, panel, cmds, faults>>
  BY DEF HandleEvent, HandleDone
<1>2. DetectionTypeOK /\ bus' \in Seq(Events) /\ Head(bus) = bus[1] /\ 1 \in DOMAIN bus
  BY <1>1, PopFacts
<1>3. /\ bus[1].is = "done" /\ \A t \in Tools : ~Tells(bus[1], t)
      /\ bus[1].run = run <=> Completes(bus[1])
  BY <1>2 DEF Completes, Tells
<1>4. IF Completes(bus[1]) THEN detecting' = FALSE /\ age' = 0 /\ retries' = 0
                           ELSE UNCHANGED <<detecting, age, retries>>
  BY <1>2, <1>3 DEF HandleDone
<1>5. DetectionTypeOK' /\ retries' = 0
  <2>1. detecting' \in BOOLEAN
    BY <1>2, <1>4 DEF DetectionTypeOK
  <2>2. age' \in 0..Watchdog /\ retries' \in 0..MaxRetries /\ retries' = 0
    BY <1>2, <1>4, DetectionAssumption DEF DetectionTypeOK
  <2>. QED BY <1>1, <1>2, <2>1, <2>2 DEF DetectionTypeOK
<1>6. Completes(bus[1]) =>
        /\ job[run] = NoJob
        /\ \A i \in DOMAIN bus' : ~Completes(bus[i])'
        /\ \A i \in DOMAIN cmds : ~Asks(cmds[i])
  <2>1. ASSUME Completes(bus[1]) PROVE \A i \in DOMAIN bus' : ~Completes(bus[i])'
    BY <1>1, <1>2, <2>1, PopFacts DEF DoneOnce
  <2>2. ASSUME Completes(bus[1]) PROVE \A i \in DOMAIN cmds : ~Asks(cmds[i])
    BY <1>2, <2>2 DEF NotYet
  <2>. QED BY <1>2, <2>1, <2>2 DEF DoneOnce
<1>7. NotYet'
  BY <1>1, <1>2, <1>4, <1>6, PopFacts DEF NotYet, Asks
<1>8. UnderWay'
  BY <1>1, <1>2, <1>4, <1>6, PopFacts, NoJobFacts DEF UnderWay
<1>9. DoneOnce'
  BY <1>1, <1>2, <1>4, <1>6, PopFacts DEF DoneOnce
<1>10. ASSUME ~lost' PROVE AnswersArrive'
  <2>1. AnswersArrive
    BY <1>1, <1>10
  <2>2. ASSUME NEW t \in Tools, job[run].open, job[run].probe[t] = "sent"
        PROVE  rows'[t] # "none" \/ \E i \in DOMAIN bus' : Tells(bus[i], t)'
    <3>1. CASE rows[t] # "none"
      BY <1>1, <3>1
    <3>2. CASE rows[t] = "none"
      <4>1. PICK i \in DOMAIN bus : Tells(bus[i], t)
        BY <2>1, <2>2, <3>2 DEF AnswersArrive
      <4>2. i # 1
        BY <1>3, <4>1
      <4>. QED BY <1>1, <1>2, <4>1, <4>2, PopFacts
    <3>. QED BY <3>1, <3>2
  <2>3. ASSUME NEW t \in Tools, NEW i \in DOMAIN bus', Completes(bus[i])'
        PROVE  rows'[t] # "none" \/ \E j \in 1..(i - 1) : Tells(bus[j], t)'
    <3>1. i + 1 \in DOMAIN bus /\ Completes(bus[i + 1]) /\ i \in Nat
      BY <1>1, <1>2, <2>3, PopFacts
    <3>2. CASE rows[t] = "none"
      <4>1. PICK j \in 1..i : Tells(bus[j], t)
        BY <2>1, <3>1, <3>2 DEF AnswersArrive
      <4>2. j # 1 /\ j \in DOMAIN bus
        BY <1>2, <1>3, <3>1, <4>1 DEF DetectionTypeOK
      <4>3. Tells(bus[j - 1], t)'
        BY <1>1, <1>2, <4>1, <4>2, PopFacts
      <4>4. j - 1 \in 1..(i - 1)
        BY <3>1, <4>2
      <4>. QED BY <4>3, <4>4
    <3>. QED BY <1>1, <3>2
  <2>4. ASSUME NEW t \in Tools, ~detecting' PROVE rows'[t] # "none"
    <3>1. CASE Completes(bus[1])
      BY <1>1, <1>2, <2>1, <3>1 DEF AnswersArrive
    <3>2. CASE ~Completes(bus[1])
      BY <1>1, <1>4, <2>1, <2>4, <3>2 DEF AnswersArrive
    <3>. QED BY <3>1, <3>2
  <2>. QED BY <1>1, <2>2, <2>3, <2>4 DEF AnswersArrive
<1>11. ASSUME ~lost', NEW t \in Tools PROVE (Renewed(t) \/ Fresh(t))'
  <2>1. CASE Renewed(t)
    <3>1. CASE installs[t] > 0
      BY <1>1, <3>1 DEF Renewed
    <3>2. CASE ~(installs[t] > 0)
      <4>1. PICK i \in DOMAIN bus : bus[i].is = "installed" /\ bus[i].tool = t
        BY <2>1, <3>2 DEF Renewed
      <4>2. i # 1
        BY <1>3, <4>1
      <4>3. i - 1 \in DOMAIN bus' /\ bus'[i - 1] = bus[i]
        BY <1>1, <1>2, <4>2, PopFacts
      <4>. QED BY <4>1, <4>3 DEF Renewed
    <3>. QED BY <3>1, <3>2
  <2>2. CASE Fresh(t)
    <3>1. \A i \in DOMAIN bus' : Tells(bus[i], t)' => bus'[i].found = Truth(t)
      BY <1>1, <1>2, <2>2, PopFacts DEF Fresh
    <3>. QED BY <1>1, <2>2, <3>1 DEF Fresh, Truth
  <2>. QED BY <1>1, <1>11, <2>1, <2>2
<1>. QED BY <1>1, <1>5, <1>7, <1>8, <1>9, <1>10, <1>11

\* Nothing is taken from the bus or put on it.  Once an outcome was given up,
\* only the order of things is claimed.
LEMMA BusKept ==
    ASSUME DetectionInv, DetectionTypeOK',
           UNCHANGED <<run, detecting, retries, rows, bus, present>>,
           lost' = lost \/ lost' = TRUE,
           \A r \in RunIds : ~job'[r].open => job'[r] = NoJob,
           NotYet',
           job'[run].open =>
             detecting /\ job'[run].age <= age' /\ \A j \in DOMAIN bus : ~Completes(bus[j]),
           \A t \in Tools : ~lost' =>
             /\ job'[run].open /\ job'[run].probe[t] = "sent"
                  => job[run].open /\ job[run].probe[t] = "sent"
             /\ job'[run].probe[t] \in Found => job'[run].probe[t] \in {Truth(t), job[run].probe[t]}
             /\ installs[t] > 0 => installs'[t] > 0
    PROVE  DetectionInv'
<1>. USE DEF DetectionInv
<1>1. run' = run /\ run \in RunIds /\ bus' = bus /\ rows' = rows /\ detecting' = detecting
  BY DEF DetectionTypeOK
<1>2. \A e : Completes(e)' <=> Completes(e)
  BY <1>1 DEF Completes
<1>3. \A e, t : Tells(e, t)' <=> Tells(e, t)
  BY <1>1 DEF Tells
<1>4. UnderWay'
  BY <1>1 DEF UnderWay, Completes
<1>5. DoneOnce'
  <2>1. ASSUME NEW i \in DOMAIN bus, Completes(bus[i])
        PROVE  /\ detecting /\ job'[run] = NoJob
               /\ \A j \in DOMAIN bus : Completes(bus[j]) => j = i
    BY <1>1, <2>1, JobFacts DEF DoneOnce
  <2>. QED BY <1>1, <2>1 DEF DoneOnce, Completes
<1>6. ASSUME ~lost' PROVE AnswersArrive'
  <2>1. AnswersArrive
    BY <1>6
  <2>2. ASSUME NEW t \in Tools, job'[run].open, job'[run].probe[t] = "sent"
        PROVE  rows[t] # "none" \/ \E i \in DOMAIN bus : Tells(bus[i], t)
    BY <1>6, <2>1, <2>2 DEF AnswersArrive
  <2>3. \A t \in Tools :
          /\ \A i \in DOMAIN bus : Completes(bus[i])
               => rows[t] # "none" \/ \E j \in 1..(i - 1) : Tells(bus[j], t)
          /\ ~detecting => rows[t] # "none"
    BY <2>1 DEF AnswersArrive
  <2>. QED BY <1>1, <2>2, <2>3 DEF AnswersArrive, Completes, Tells
<1>7. ASSUME ~lost', NEW t \in Tools PROVE (Renewed(t) \/ Fresh(t))'
  <2>1. CASE Renewed(t)
    BY <1>1, <1>7, <2>1 DEF Renewed
  <2>2. CASE Fresh(t)
    <3>1. /\ rows[t] \in {"none", Truth(t)}
          /\ \A i \in DOMAIN bus : Tells(bus[i], t) => bus[i].found = Truth(t)
      BY <2>2 DEF Fresh
    <3>2. job'[run].probe[t] \in Found => job'[run].probe[t] = Truth(t)
      BY <1>7, <2>2 DEF Fresh
    <3>. QED BY <1>1, <3>1, <3>2 DEF Fresh, Truth, Tells
  <2>. QED BY <1>7, <2>1, <2>2
<1>. QED BY <1>4, <1>5, <1>6, <1>7

\* An event is put on the bus: an answer or the end of the panel's run while
\* the run is open, the end when every answer was sent.
LEMMA BusPushed ==
    ASSUME DetectionInv, DetectionTypeOK', NEW e \in Events, bus' = Append(bus, e),
           UNCHANGED <<run, detecting, age, retries, rows, cmds, present, lost>>,
           \A r \in RunIds : ~job'[r].open => job'[r] = NoJob,
           Completes(e) \/ (\E t \in Tools : Tells(e, t)) => job[run].open,
           job[run] = NoJob => job'[run] = NoJob,
           job'[run].open => job[run].open /\ job'[run].age = job[run].age /\ ~Completes(e),
           Completes(e) => \A t \in Tools : job[run].probe[t] = "sent",
           \A t \in Tools :
             /\ job'[run].open /\ job'[run].probe[t] = "sent"
                  => job[run].probe[t] = "sent" \/ Tells(e, t)
             /\ Tells(e, t) => e.found \in Found /\ e.found = job[run].probe[t]
             /\ job'[run].probe[t] \in Found => job'[run].probe[t] = job[run].probe[t]
             /\ installs[t] > 0 => installs'[t] > 0 \/ (e.is = "installed" /\ e.tool = t)
    PROVE  DetectionInv'
<1>. USE DEF DetectionInv
<1>0. PICK n \in Nat : n = Len(bus) + 1
  BY DEF DetectionTypeOK
<1>1. run' = run /\ run \in RunIds /\ rows' = rows /\ detecting' = detecting /\ cmds' = cmds
  BY DEF DetectionTypeOK
<1>2. /\ Len(bus) \in Nat /\ DOMAIN bus = 1..Len(bus) /\ bus'[n] = e /\ n \in DOMAIN bus'
      /\ \A i \in DOMAIN bus :
           /\ i \in DOMAIN bus' /\ bus'[i] = bus[i]
           /\ Completes(bus[i])' <=> Completes(bus[i])
           /\ \A t \in Tools : Tells(bus[i], t)' <=> Tells(bus[i], t)
      /\ \A i \in DOMAIN bus' : i \in DOMAIN bus \/ i = n
  BY <1>0, <1>1, PushFacts
<1>3. /\ Completes(bus[n])' <=> Completes(e)
      /\ \A t \in Tools : Tells(bus[n], t)' <=> Tells(e, t)
  BY <1>1, <1>2 DEF Completes, Tells
<1>4. NotYet'
  <2>1. ASSUME NEW i \in DOMAIN cmds, Asks(cmds[i])
        PROVE  /\ detecting /\ job'[run] = NoJob
               /\ \A j \in DOMAIN bus' : ~Completes(bus[j])' /\ \A t \in Tools : ~Tells(bus[j], t)'
               /\ \A j \in DOMAIN cmds : Asks(cmds[j]) => j = i
    <3>1. /\ detecting /\ job[run] = NoJob
          /\ \A j \in DOMAIN bus : ~Completes(bus[j]) /\ \A t \in Tools : ~Tells(bus[j], t)
          /\ \A j \in DOMAIN cmds : Asks(cmds[j]) => j = i
      BY <2>1 DEF NotYet
    <3>2. ~Completes(e) /\ \A t \in Tools : ~Tells(e, t)
      BY <3>1, NoJobFacts
    <3>. QED BY <1>2, <1>3, <3>1, <3>2
  <2>. QED BY <1>1, <2>1 DEF NotYet, Asks
<1>5. UnderWay'
  BY <1>1, <1>2, <1>3 DEF UnderWay
<1>6. DoneOnce'
  <2>1. ASSUME NEW i \in DOMAIN bus', Completes(bus[i])'
        PROVE  /\ detecting /\ job'[run] = NoJob
               /\ \A j \in DOMAIN bus' : Completes(bus[j])' => j = i
    <3>1. CASE Completes(e)
      <4>1. job[run].open /\ job'[run] = NoJob
        BY <1>1, <3>1, JobFacts
      <4>2. detecting /\ \A j \in DOMAIN bus : ~Completes(bus[j])
        BY <4>1 DEF UnderWay
      <4>. QED BY <1>2, <2>1, <4>1, <4>2
    <3>2. CASE ~Completes(e)
      <4>1. i \in DOMAIN bus /\ Completes(bus[i])
        BY <1>2, <1>3, <2>1, <3>2
      <4>2. job[run] = NoJob /\ detecting /\ \A j \in DOMAIN bus : Completes(bus[j]) => j = i
        BY <4>1 DEF DoneOnce
      <4>. QED BY <1>2, <1>3, <3>2, <4>2
    <3>. QED BY <3>1, <3>2
  <2>. QED BY <1>1, <2>1 DEF DoneOnce
<1>7. ASSUME ~lost' PROVE AnswersArrive'
  <2>1. AnswersArrive
    BY <1>7
  <2>2. ASSUME NEW t \in Tools, job'[run].open, job'[run].probe[t] = "sent"
        PROVE  rows[t] # "none" \/ \E i \in DOMAIN bus' : Tells(bus[i], t)'
    <3>1. CASE Tells(e, t)
      BY <1>2, <1>3, <3>1
    <3>2. CASE ~Tells(e, t)
      <4>1. job[run].open /\ job[run].probe[t] = "sent"
        BY <2>2, <3>2
      <4>. QED BY <1>2, <2>1, <4>1 DEF AnswersArrive
    <3>. QED BY <3>1, <3>2
  <2>3. ASSUME NEW t \in Tools, NEW i \in DOMAIN bus', Completes(bus[i])'
        PROVE  rows[t] # "none" \/ \E j \in 1..(i - 1) : Tells(bus[j], t)'
    <3>1. CASE i \in DOMAIN bus
      <4>1. rows[t] # "none" \/ \E j \in 1..(i - 1) : Tells(bus[j], t)
        BY <1>2, <2>1, <2>3, <3>1 DEF AnswersArrive
      <4>2. \A j \in 1..(i - 1) : j \in DOMAIN bus
        BY <1>2, <3>1
      <4>. QED BY <1>2, <4>1, <4>2
    <3>2. CASE i = n
      <4>1. Completes(e)
        BY <1>3, <2>3, <3>2
      <4>2. rows[t] # "none" \/ \E j \in DOMAIN bus : Tells(bus[j], t)
        BY <2>1, <4>1 DEF AnswersArrive
      <4>3. \A j \in DOMAIN bus : j \in 1..(i - 1)
        BY <1>0, <1>2, <3>2
      <4>. QED BY <1>2, <4>2, <4>3
    <3>. QED BY <1>2, <3>1, <3>2
  <2>4. \A t \in Tools : ~detecting => rows[t] # "none"
    BY <2>1 DEF AnswersArrive
  <2>. QED BY <1>1, <2>2, <2>3, <2>4 DEF AnswersArrive
<1>8. ASSUME ~lost', NEW t \in Tools PROVE (Renewed(t) \/ Fresh(t))'
  <2>1. CASE Renewed(t)
    BY <1>2, <2>1 DEF Renewed
  <2>2. CASE Fresh(t)
    <3>1. Truth(t)' = Truth(t) /\ rows'[t] \in {"none", Truth(t)}
      BY <1>1, <2>2 DEF Fresh, Truth
    <3>2. job'[run].probe[t] \in Found => job'[run].probe[t] = Truth(t)
      BY <2>2 DEF Fresh
    <3>3. \A i \in DOMAIN bus' : Tells(bus[i], t)' => bus'[i].found = Truth(t)
      BY <1>2, <1>3, <2>2 DEF Fresh
    <3>. QED BY <1>1, <3>1, <3>2, <3>3 DEF Fresh
  <2>. QED BY <1>8, <2>1, <2>2
<1>. QED BY <1>4, <1>5, <1>6, <1>7, <1>8

\* The state of a probe, or a whole task, is set.
LEMMA ProbeSet ==
    ASSUME DetectionInv, NEW r \in RunIds, NEW t \in Tools, job[r].open, NEW x \in Probes,
           job' = [job EXCEPT ![r].probe[t] = x]
    PROVE  /\ job' \in [RunIds -> [open : BOOLEAN, age : 0..Backstop, probe : [Tools -> Probes]]]
           /\ \A q \in RunIds : q # r => job'[q] = job[q]
           /\ job'[r].open /\ job'[r].age = job[r].age
           /\ job'[r].probe[t] = x
           /\ \A u \in Tools : u # t => job'[r].probe[u] = job[r].probe[u]
           /\ \A q \in RunIds : ~job'[q].open => job'[q] = NoJob
<1>1. /\ job \in [RunIds -> [open : BOOLEAN, age : 0..Backstop, probe : [Tools -> Probes]]]
      /\ \A q \in RunIds : ~job[q].open => job[q] = NoJob
  BY DEF DetectionInv, DetectionTypeOK
<1>2. PICK j \in [open : BOOLEAN, age : 0..Backstop, probe : [Tools -> Probes]] : job[r] = j
  BY <1>1
<1>3. [j EXCEPT !.probe = [@ EXCEPT ![t] = x]]
         = [open |-> j.open, age |-> j.age, probe |-> [j.probe EXCEPT ![t] = x]]
  BY <1>2
<1>4. job' = [job EXCEPT ![r] =
                [open |-> j.open, age |-> j.age, probe |-> [j.probe EXCEPT ![t] = x]]]
  BY <1>1, <1>2, <1>3
<1>5. job'[r] = [open |-> j.open, age |-> j.age, probe |-> [j.probe EXCEPT ![t] = x]]
  BY <1>1, <1>4
<1>6. \A q \in RunIds : q # r => job'[q] = job[q]
  BY <1>1, <1>4
<1>7. job'[r] \in [open : BOOLEAN, age : 0..Backstop, probe : [Tools -> Probes]]
  BY <1>2, <1>5
<1>8. job' \in [RunIds -> [open : BOOLEAN, age : 0..Backstop, probe : [Tools -> Probes]]]
  BY <1>1, <1>4, <1>5, <1>7
<1>9. job'[r].open /\ job'[r].age = job[r].age
  BY <1>2, <1>5
<1>10. job'[r].probe[t] = x /\ \A u \in Tools : u # t => job'[r].probe[u] = job[r].probe[u]
  BY <1>2, <1>5
<1>. QED BY <1>1, <1>6, <1>8, <1>9, <1>10

\* A probe that is not answered and sent is of a task that is open.
LEMMA ProbeOpen ==
    ASSUME DetectionInv, NEW r \in RunIds, NEW t \in Tools, job[r].probe[t] # "sent"
    PROVE  job[r].open
  BY DEF DetectionInv, NoJob

LEMMA NotYetKept ==
    ASSUME DetectionInv, UNCHANGED <<run, detecting, bus, cmds>>,
           job[run] = NoJob => job'[run] = NoJob
    PROVE  NotYet'
<1>1. \A e : /\ Completes(e)' <=> Completes(e)
             /\ \A t : Tells(e, t)' <=> Tells(e, t)
  BY DEF Completes, Tells
<1>2. \A c : Asks(c)' <=> Asks(c)
  BY DEF Asks
<1>3. ASSUME NEW i \in DOMAIN cmds, Asks(cmds[i])
      PROVE  /\ detecting /\ job'[run] = NoJob
             /\ \A j \in DOMAIN bus : ~Completes(bus[j]) /\ \A t \in Tools : ~Tells(bus[j], t)
             /\ \A j \in DOMAIN cmds : Asks(cmds[j]) => j = i
  BY <1>3 DEF DetectionInv, NotYet
<1>. QED BY <1>1, <1>2, <1>3 DEF NotYet, Asks, Completes, Tells

LEMMA ProbeReadsStep ==
    ASSUME DetectionInv, NEW r \in RunIds, NEW t \in Tools, ProbeReads(r, t) \/ ProbeStalls(r, t)
    PROVE  DetectionInv'
<1>. USE DEF DetectionInv
<1>1. /\ job[r].probe[t] = "pending"
      /\ UNCHANGED <<present, ui, cmds, bus, installs, lost, clicks>>
      /\ faults' = faults \/ Fault
  BY DEF ProbeReads, ProbeStalls, bounds
<1>2. PICK x \in {Truth(t), "stalled"} : job' = [job EXCEPT ![r].probe[t] = x]
  BY DEF ProbeReads, ProbeStalls
<1>3. UNCHANGED <<present, run, detecting, age, retries, rows, panel, cmds, bus, installs, lost>>
  BY <1>1 DEF ui
<1>4. job[r].open
  BY <1>1, ProbeOpen
<1>5. x \in Probes /\ x # "sent" /\ (x \in Found => x = Truth(t))
  BY <1>2 DEF Truth, Probes, Found
<1>6. /\ job' \in [RunIds -> [open : BOOLEAN, age : 0..Backstop, probe : [Tools -> Probes]]]
      /\ \A q \in RunIds : q # r => job'[q] = job[q]
      /\ job'[r].open /\ job'[r].age = job[r].age
      /\ job'[r].probe[t] = x
      /\ \A u \in Tools : u # t => job'[r].probe[u] = job[r].probe[u]
      /\ \A q \in RunIds : ~job'[q].open => job'[q] = NoJob
  BY <1>2, <1>4, <1>5, ProbeSet
<1>7. faults' \in 0..MaxFaults
  BY <1>1, DetectionAssumption DEF Fault, DetectionTypeOK
<1>8. DetectionTypeOK'
  BY <1>1, <1>3, <1>6, <1>7 DEF DetectionTypeOK
<1>9. run \in RunIds
  BY JobFacts
<1>10. NotYet'
  BY <1>3, <1>4, <1>6, <1>9, NotYetKept, NoJobFacts
<1>11. job'[run].open =>
         detecting /\ job'[run].age <= age' /\ \A j \in DOMAIN bus : ~Completes(bus[j])
  BY <1>3, <1>4, <1>6, <1>9 DEF UnderWay
<1>12. ASSUME NEW u \in Tools
       PROVE  /\ job'[run].open /\ job'[run].probe[u] = "sent"
                   => job[run].open /\ job[run].probe[u] = "sent"
              /\ job'[run].probe[u] \in Found
                   => job'[run].probe[u] \in {Truth(u), job[run].probe[u]}
              /\ installs[u] > 0 => installs'[u] > 0
  BY <1>3, <1>4, <1>5, <1>6, <1>9
<1>. QED BY <1>3, <1>6, <1>8, <1>10, <1>11, <1>12, BusKept

\* What EmitImportant does.
LEMMA Emits ==
    ASSUME DetectionInv, NEW e \in Events, EmitImportant(e)
    PROVE  /\ faults' \in 0..MaxFaults /\ bus' \in Seq(Events) /\ lost' \in BOOLEAN
           /\ \/ bus' = Append(bus, e) /\ lost' = lost
              \/ bus' = bus /\ lost' = TRUE
<1>1. \/ bus' = Append(bus, e) /\ lost' = lost /\ faults' = faults
      \/ bus' = bus /\ lost' = TRUE /\ faults < MaxFaults /\ faults' = faults + 1
  BY DEF EmitImportant, Fault
<1>2. bus \in Seq(Events) /\ lost \in BOOLEAN /\ faults \in 0..MaxFaults
  BY DEF DetectionInv, DetectionTypeOK
<1>3. faults' \in 0..MaxFaults
  BY <1>1, <1>2, DetectionAssumption
<1>4. bus' \in Seq(Events)
  BY <1>1, <1>2
<1>. QED BY <1>1, <1>2, <1>3, <1>4

LEMMA ProbeSendsStep ==
    ASSUME DetectionInv, NEW r \in RunIds, NEW t \in Tools, ProbeSends(r, t)
    PROVE  DetectionInv'
<1>. USE DEF DetectionInv
<1>1. PICK e \in Events :
         /\ e = [is |-> "tool", run |-> r, tool |-> t, found |-> job[r].probe[t]]
         /\ EmitImportant(e)
  BY DEF ProbeSends, Events
<1>2. /\ job[r].probe[t] \in Found /\ job' = [job EXCEPT ![r].probe[t] = "sent"]
      /\ UNCHANGED <<present, run, detecting, age, retries, rows, panel, cmds, installs, clicks>>
  BY DEF ProbeSends, ui
<1>3. job[r].open /\ "sent" \in Probes
  BY <1>2, ProbeOpen DEF Found, Probes
<1>4. /\ job' \in [RunIds -> [open : BOOLEAN, age : 0..Backstop, probe : [Tools -> Probes]]]
      /\ \A q \in RunIds : q # r => job'[q] = job[q]
      /\ job'[r].open /\ job'[r].age = job[r].age
      /\ job'[r].probe[t] = "sent"
      /\ \A u \in Tools : u # t => job'[r].probe[u] = job[r].probe[u]
      /\ \A q \in RunIds : ~job'[q].open => job'[q] = NoJob
  BY <1>2, <1>3, ProbeSet
<1>5. DetectionTypeOK'
  BY <1>1, <1>2, <1>4, Emits DEF DetectionTypeOK
<1>6. run \in RunIds
  BY JobFacts
<1>7. CASE bus' = bus /\ lost' = TRUE
  <2>1. NotYet'
    BY <1>2, <1>3, <1>4, <1>6, <1>7, NotYetKept, NoJobFacts
  <2>2. job'[run].open =>
          detecting /\ job'[run].age <= age' /\ \A j \in DOMAIN bus : ~Completes(bus[j])
    BY <1>2, <1>3, <1>4, <1>6 DEF UnderWay
  <2>. QED BY <1>2, <1>4, <1>5, <1>7, <2>1, <2>2, BusKept
<1>8. CASE bus' = Append(bus, e) /\ lost' = lost
  <2>1. ~Completes(e)
    BY <1>1 DEF Completes
  <2>2. \A u \in Tools : Tells(e, u) <=> r = run /\ u = t
    BY <1>1 DEF Tells
  <2>3. job[run] = NoJob => job'[run] = NoJob
    BY <1>3, <1>4, <1>6, NoJobFacts
  <2>4. job'[run].open => job[run].open /\ job'[run].age = job[run].age
    BY <1>3, <1>4, <1>6
  <2>5. e.found \in Found /\ e.found = job[r].probe[t] /\ e.is # "installed"
    BY <1>1, <1>2
  <2>6. ASSUME NEW u \in Tools
        PROVE  /\ job'[run].open /\ job'[run].probe[u] = "sent"
                    => job[run].probe[u] = "sent" \/ Tells(e, u)
               /\ Tells(e, u) => e.found \in Found /\ e.found = job[run].probe[u]
               /\ job'[run].probe[u] \in Found => job'[run].probe[u] = job[run].probe[u]
               /\ installs[u] > 0 => installs'[u] > 0
    BY <1>2, <1>4, <1>6, <2>2, <2>5 DEF Found
  <2>. QED
    BY <1>2, <1>3, <1>4, <1>5, <1>8, <2>1, <2>2, <2>3, <2>4, <2>6, BusPushed
<1>. QED BY <1>1, <1>7, <1>8, Emits

\* A run ends, by its answers or by the backstop: the panel's own run does not
\* get as old as that, since the panel gives it up before.
LEMMA RunEnds ==
    ASSUME DetectionInv, NEW r \in RunIds, DetectAllEnds(r) \/ BackstopFires(r)
    PROVE  DetectionInv'
<1>. USE DEF DetectionInv
<1>1. PICK e \in Events : e = [is |-> "done", run |-> r] /\ EmitImportant(e)
  BY DEF DetectAllEnds, BackstopFires, Events
<1>2. /\ job[r].open /\ job' = [job EXCEPT ![r] = NoJob]
      /\ UNCHANGED <<present, run, detecting, age, retries, rows, panel, cmds, installs, clicks>>
  BY DEF DetectAllEnds, BackstopFires, ui
<1>3. /\ job \in [RunIds -> [open : BOOLEAN, age : 0..Backstop, probe : [Tools -> Probes]]]
      /\ run \in RunIds /\ age \in 0..Watchdog
  BY DEF DetectionTypeOK
<1>4. NoJob \in [open : BOOLEAN, age : 0..Backstop, probe : [Tools -> Probes]]
  BY DetectionAssumption DEF NoJob, Probes
<1>5. /\ job' \in [RunIds -> [open : BOOLEAN, age : 0..Backstop, probe : [Tools -> Probes]]]
      /\ \A q \in RunIds : q # r => job'[q] = job[q]
      /\ job'[r] = NoJob
      /\ \A q \in RunIds : ~job'[q].open => job'[q] = NoJob
  BY <1>2, <1>3, <1>4
<1>6. r = run => \A t \in Tools : job[run].probe[t] = "sent"
  <2>1. ASSUME r = run PROVE ~BackstopFires(r)
    <3>1. job[run].age <= age /\ job[run].age \in 0..Backstop
      BY <1>2, <1>3, <2>1 DEF UnderWay
    <3>. QED BY <1>3, <2>1, <3>1, DetectionAssumption DEF BackstopFires
  <2>. QED BY <2>1 DEF DetectAllEnds, Answered
<1>7. DetectionTypeOK'
  BY <1>1, <1>2, <1>5, Emits DEF DetectionTypeOK
<1>8. job'[run].open => r # run /\ job'[run] = job[run]
  BY <1>3, <1>5, NoJobFacts
<1>9. job[run] = NoJob => job'[run] = NoJob
  BY <1>3, <1>5
<1>10. CASE bus' = bus /\ lost' = TRUE
  <2>1. NotYet'
    BY <1>2, <1>9, <1>10, NotYetKept
  <2>2. job'[run].open =>
          detecting /\ job'[run].age <= age' /\ \A j \in DOMAIN bus : ~Completes(bus[j])
    BY <1>2, <1>8 DEF UnderWay
  <2>. QED BY <1>2, <1>5, <1>7, <1>10, <2>1, <2>2, BusKept
<1>11. CASE bus' = Append(bus, e) /\ lost' = lost
  <2>1. Completes(e) <=> r = run
    BY <1>1 DEF Completes
  <2>2. \A u \in Tools : ~Tells(e, u)
    BY <1>1 DEF Tells
  <2>3. ASSUME NEW u \in Tools
        PROVE  /\ job'[run].open /\ job'[run].probe[u] = "sent" => job[run].probe[u] = "sent"
               /\ job'[run].probe[u] \in Found => job'[run].probe[u] = job[run].probe[u]
               /\ installs[u] > 0 => installs'[u] > 0
    BY <1>2, <1>3, <1>5, <1>8, NoJobFacts
  <2>4. job'[run].open => job[run].open /\ job'[run].age = job[run].age /\ ~Completes(e)
    BY <1>8, <2>1
  <2>. QED
    BY <1>2, <1>5, <1>6, <1>7, <1>9, <1>11, <2>1, <2>2, <2>3, <2>4, BusPushed
<1>. QED BY <1>1, <1>10, <1>11, Emits

LEMMA InstallEndsStep ==
    ASSUME DetectionInv, NEW t \in Tools, InstallEnds(t)
    PROVE  DetectionInv'
<1>. USE DEF DetectionInv
<1>1. PICK e \in Events :
         e = [is |-> "installed", tool |-> t, found |-> Truth(t)] /\ EmitImportant(e)
  BY DEF InstallEnds, Events, Truth, Found
<1>2. /\ installs[t] > 0 /\ installs' = [installs EXCEPT ![t] = @ - 1]
      /\ UNCHANGED <<present, run, detecting, age, retries, rows, panel, cmds, job, clicks>>
  BY DEF InstallEnds, ui
<1>3. /\ installs' \in [Tools -> Nat]
      /\ \A u \in Tools : u # t => installs'[u] = installs[u]
  BY <1>2 DEF DetectionTypeOK
<1>4. DetectionTypeOK'
  BY <1>1, <1>2, <1>3, Emits DEF DetectionTypeOK
<1>5. CASE bus' = bus /\ lost' = TRUE
  <2>1. NotYet'
    BY <1>2, <1>5, NotYetKept
  <2>2. job'[run].open =>
          detecting /\ job'[run].age <= age' /\ \A j \in DOMAIN bus : ~Completes(bus[j])
    BY <1>2 DEF UnderWay
  <2>. QED BY <1>2, <1>4, <1>5, <2>1, <2>2, BusKept
<1>6. CASE bus' = Append(bus, e) /\ lost' = lost
  <2>1. ~Completes(e) /\ \A u \in Tools : ~Tells(e, u)
    BY <1>1 DEF Completes, Tells
  <2>2. \A u \in Tools : installs[u] > 0 => installs'[u] > 0 \/ (e.is = "installed" /\ e.tool = u)
    BY <1>1, <1>3
  <2>. QED BY <1>2, <1>4, <1>6, <2>1, <2>2, BusPushed
<1>. QED BY <1>1, <1>5, <1>6, Emits

\* What is installed changes: the install that did it has still to end.
LEMMA InstallWorksStep ==
    ASSUME DetectionInv, NEW t \in Tools, InstallWorks(t)
    PROVE  DetectionInv'
<1>. USE DEF DetectionInv
<1>1. /\ installs[t] > 0 /\ present' = present \cup {t}
      /\ UNCHANGED <<run, detecting, age, retries, rows, panel, cmds, bus, job, installs>>
      /\ UNCHANGED <<lost, faults, clicks>>
  BY DEF InstallWorks, ui, bounds
<1>2. DetectionTypeOK'
  BY <1>1 DEF DetectionTypeOK
<1>3. NotYet' /\ UnderWay' /\ DoneOnce' /\ (AnswersArrive => AnswersArrive')
  BY <1>1 DEF NotYet, UnderWay, DoneOnce, AnswersArrive, Asks, Completes, Tells
<1>4. ASSUME NEW u \in Tools, Renewed(u) \/ Fresh(u) PROVE (Renewed(u) \/ Fresh(u))'
  <2>1. CASE u = t
    BY <1>1, <2>1 DEF Renewed
  <2>2. CASE u # t
    <3>1. Truth(u)' = Truth(u)
      BY <1>1, <2>2 DEF Truth
    <3>. QED BY <1>1, <1>4, <3>1 DEF Renewed, Fresh, Tells
  <2>. QED BY <2>1, <2>2
<1>. QED BY <1>1, <1>2, <1>3, <1>4

LEMMA InstallCommandStep ==
    ASSUME DetectionInv, NEW t \in Tools, Install(t)
    PROVE  DetectionInv'
<1>. USE DEF DetectionInv
<1>. DEFINE c == [do |-> "install", tool |-> t]
<1>1. /\ cmds' = Append(cmds, c) \/ cmds' = cmds
      /\ panel' = [tool |-> t, done |-> FALSE] \/ panel' = panel
      /\ UNCHANGED <<present, run, detecting, age, retries, rows, bus, job, installs, lost>>
  BY DEF Install, Issue
<1>2. faults' \in 0..MaxFaults /\ clicks' \in 0..MaxClicks
  BY DetectionAssumption DEF Install, Issue, Fault, Click, DetectionTypeOK
<1>3. cmds \in Seq(Commands) /\ c \in Commands
  BY DEF DetectionTypeOK, Commands
<1>4. cmds' \in Seq(Commands) /\ \A i \in DOMAIN cmds' :
        \/ i \in DOMAIN cmds /\ cmds'[i] = cmds[i]
        \/ cmds'[i] = c
  BY <1>1, <1>3
<1>5. panel' \in [tool : Tools, done : BOOLEAN] \cup {NoPanel}
  <2>1. [tool |-> t, done |-> FALSE] \in [tool : Tools, done : BOOLEAN]
    OBVIOUS
  <2>2. panel \in [tool : Tools, done : BOOLEAN] \cup {NoPanel}
    BY DEF DetectionTypeOK
  <2>. QED BY <1>1, <2>1, <2>2
<1>6. DetectionTypeOK'
  BY <1>1, <1>2, <1>4, <1>5 DEF DetectionTypeOK
<1>7. \A i \in DOMAIN cmds' : Asks(cmds[i])' => i \in DOMAIN cmds /\ Asks(cmds[i])
  BY <1>1, <1>4 DEF Asks
<1>8. NotYet'
  <2>1. ASSUME NEW i \in DOMAIN cmds', Asks(cmds[i])'
        PROVE  /\ detecting /\ job[run] = NoJob
               /\ \A j \in DOMAIN bus : ~Completes(bus[j]) /\ \A u \in Tools : ~Tells(bus[j], u)
               /\ \A j \in DOMAIN cmds' : Asks(cmds[j])' => j = i
    BY <1>7, <2>1 DEF NotYet
  <2>. QED BY <1>1, <2>1 DEF NotYet, Completes, Tells
<1>9. job[run].open => detecting /\ job[run].age <= age /\ \A j \in DOMAIN bus : ~Completes(bus[j])
  BY DEF UnderWay
<1>. QED BY <1>1, <1>6, <1>8, <1>9, BusKept

\* The worker takes a command: of the panel's run, which has nothing yet, or
\* another.
LEMMA TakeCommandStep ==
    ASSUME DetectionInv, TakeCommand
    PROVE  DetectionInv'
<1>. USE DEF DetectionInv
<1>. DEFINE J == [open |-> TRUE, age |-> 0, probe |-> [t \in Tools |-> "pending"]]
<1>1. /\ cmds # <<>> /\ cmds' = Tail(cmds)
      /\ UNCHANGED <<present, run, detecting, age, retries, rows, panel, bus, lost, faults, clicks>>
  BY DEF TakeCommand, ui, bounds
<1>2. /\ cmds \in Seq(Commands) /\ cmds' \in Seq(Commands)
      /\ Head(cmds) = cmds[1] /\ cmds[1] \in Commands /\ 1 \in DOMAIN cmds
      /\ \A i \in DOMAIN cmds' :
           i \in Nat /\ i + 1 \in DOMAIN cmds /\ cmds'[i] = cmds[i + 1] /\ i + 1 # 1
  BY <1>1 DEF DetectionTypeOK
<1>3. \A i \in DOMAIN cmds' : Asks(cmds[i])' <=> Asks(cmds[i + 1])
  BY <1>1, <1>2 DEF Asks
<1>4. \/ cmds[1].do = "detect" /\ job' = [job EXCEPT ![cmds[1].run] = J] /\ installs' = installs
      \/ /\ cmds[1].do = "install" /\ job' = job
         /\ installs' = [installs EXCEPT ![cmds[1].tool] = @ + 1]
  BY <1>2 DEF TakeCommand
<1>5. CASE cmds[1].do = "install"
  <2>1. cmds[1].tool \in Tools /\ job' = job
        /\ installs' = [installs EXCEPT ![cmds[1].tool] = @ + 1]
    BY <1>2, <1>4, <1>5 DEF Commands
  <2>2. installs' \in [Tools -> Nat] /\ \A t \in Tools : installs[t] > 0 => installs'[t] > 0
    BY <2>1 DEF DetectionTypeOK
  <2>3. DetectionTypeOK'
    BY <1>1, <1>2, <2>1, <2>2 DEF DetectionTypeOK
  <2>4. NotYet'
    <3>1. ASSUME NEW i \in DOMAIN cmds', Asks(cmds[i + 1])
          PROVE  /\ detecting /\ job[run] = NoJob
                 /\ \A j \in DOMAIN bus : ~Completes(bus[j]) /\ \A u \in Tools : ~Tells(bus[j], u)
                 /\ \A j \in DOMAIN cmds' : Asks(cmds[j + 1]) => j = i
      <4>1. /\ detecting /\ job[run] = NoJob
            /\ \A j \in DOMAIN bus : ~Completes(bus[j]) /\ \A u \in Tools : ~Tells(bus[j], u)
            /\ \A j \in DOMAIN cmds : Asks(cmds[j]) => j = i + 1
        BY <1>2, <3>1 DEF NotYet
      <4>2. ASSUME NEW j \in DOMAIN cmds', Asks(cmds[j + 1]) PROVE j = i
        <5>1. j + 1 = i + 1 /\ i \in Nat /\ j \in Nat
          BY <1>2, <4>1, <4>2
        <5>. QED BY <5>1
      <4>. QED BY <4>1, <4>2
    <3>. QED BY <1>1, <1>3, <2>1, <3>1 DEF NotYet, Completes, Tells
  <2>5. job[run].open =>
          detecting /\ job[run].age <= age /\ \A j \in DOMAIN bus : ~Completes(bus[j])
    BY DEF UnderWay
  <2>. QED BY <1>1, <2>1, <2>2, <2>3, <2>4, <2>5, BusKept
<1>6. CASE cmds[1].do = "detect"
  <2>1. PICK r \in RunIds : r = cmds[1].run
    BY <1>2, <1>6 DEF Commands
  <2>2. job' = [job EXCEPT ![r] = J] /\ installs' = installs
    BY <1>4, <1>6, <2>1
  <2>3. J \in [open : BOOLEAN, age : 0..Backstop, probe : [Tools -> Probes]]
    BY DetectionAssumption DEF Probes
  <2>4. J.open /\ J.age = 0 /\ \A t \in Tools : J.probe[t] = "pending"
    OBVIOUS
  <2>. HIDE DEF J
  <2>5. /\ job' \in [RunIds -> [open : BOOLEAN, age : 0..Backstop, probe : [Tools -> Probes]]]
        /\ job'[r] = J /\ \A q \in RunIds : q # r => job'[q] = job[q]
        /\ \A q \in RunIds : ~job'[q].open => job'[q] = NoJob
    BY <2>2, <2>3, <2>4 DEF DetectionTypeOK
  <2>6. DetectionTypeOK'
    BY <1>1, <1>2, <2>2, <2>5 DEF DetectionTypeOK
  <2>7. run \in RunIds /\ age \in 0..Watchdog
    BY DEF DetectionTypeOK
  <2>8. r = run => /\ detecting /\ \A j \in DOMAIN bus : ~Completes(bus[j])
                   /\ \A j \in DOMAIN cmds : Asks(cmds[j]) => j = 1
    <3>1. r = run => Asks(cmds[1])
      BY <1>6, <2>1 DEF Asks
    <3>. QED BY <1>2, <3>1 DEF NotYet
  <2>9. NotYet'
    <3>1. CASE r = run
      <4>1. \A i \in DOMAIN cmds' : ~Asks(cmds[i])'
        BY <1>2, <1>3, <2>8, <3>1
      <4>. QED BY <4>1 DEF NotYet
    <3>2. CASE r # run
      <4>1. ASSUME NEW i \in DOMAIN cmds', Asks(cmds[i + 1])
            PROVE  /\ detecting /\ job'[run] = NoJob
                   /\ \A j \in DOMAIN bus : ~Completes(bus[j]) /\ \A u \in Tools : ~Tells(bus[j], u)
                   /\ \A j \in DOMAIN cmds' : Asks(cmds[j + 1]) => j = i
        <5>1. /\ detecting /\ job[run] = NoJob
              /\ \A j \in DOMAIN bus : ~Completes(bus[j]) /\ \A u \in Tools : ~Tells(bus[j], u)
              /\ \A j \in DOMAIN cmds : Asks(cmds[j]) => j = i + 1
          BY <1>2, <4>1 DEF NotYet
        <5>2. ASSUME NEW j \in DOMAIN cmds', Asks(cmds[j + 1]) PROVE j = i
          <6>1. j + 1 = i + 1 /\ i \in Nat /\ j \in Nat
            BY <1>2, <5>1, <5>2
          <6>. QED BY <6>1
        <5>. QED BY <2>5, <2>7, <3>2, <5>1, <5>2
      <4>. QED BY <1>1, <1>3, <4>1 DEF NotYet, Completes, Tells
    <3>. QED BY <3>1, <3>2
  <2>10. job'[run].open =>
           detecting /\ job'[run].age <= age' /\ \A j \in DOMAIN bus : ~Completes(bus[j])
    <3>1. CASE r = run
      BY <1>1, <2>4, <2>5, <2>7, <2>8, <3>1
    <3>2. CASE r # run
      BY <1>1, <2>5, <2>7, <3>2 DEF UnderWay
    <3>. QED BY <3>1, <3>2
  <2>11. ASSUME NEW t \in Tools
         PROVE  /\ job'[run].open /\ job'[run].probe[t] = "sent"
                     => job[run].open /\ job[run].probe[t] = "sent"
                /\ job'[run].probe[t] \in Found => job'[run].probe[t] = job[run].probe[t]
                /\ installs[t] > 0 => installs'[t] > 0
    BY <2>2, <2>4, <2>5, <2>7 DEF Found
  <2>. QED BY <1>1, <2>5, <2>6, <2>9, <2>10, <2>11, BusKept
<1>. QED BY <1>4, <1>5, <1>6

LEMMA TickStep ==
    ASSUME DetectionInv, Tick
    PROVE  DetectionInv'
<1>. USE DEF DetectionInv
<1>1. /\ UNCHANGED <<present, run, detecting, retries, rows, panel, cmds, bus, installs>>
      /\ UNCHANGED <<lost, faults, clicks>>
      /\ age' = IF detecting THEN Min2(age + 1, Watchdog) ELSE age
      /\ job' = [r \in RunIds |-> IF job[r].open THEN [job[r] EXCEPT !.age = @ + 1] ELSE job[r]]
      /\ ~Stalled /\ \A r \in RunIds : job[r].open => job[r].age < Backstop
  BY DEF Tick, UnitIsOver, bounds
<1>2. age \in 0..Watchdog /\ run \in RunIds
  BY DEF DetectionTypeOK
<1>3. age' \in 0..Watchdog /\ (detecting => age' = age + 1)
  BY <1>1, <1>2, DetectionAssumption DEF Min2, Stalled
<1>4. ASSUME NEW r \in RunIds
      PROVE  /\ job'[r] \in [open : BOOLEAN, age : 0..Backstop, probe : [Tools -> Probes]]
             /\ job'[r].open = job[r].open
             /\ job'[r].probe = job[r].probe
             /\ job[r].open => job'[r].age = job[r].age + 1
             /\ ~job[r].open => job'[r] = job[r]
  <2>1. PICK j \in [open : BOOLEAN, age : 0..Backstop, probe : [Tools -> Probes]] : j = job[r]
    BY DEF DetectionTypeOK
  <2>2. job'[r] = IF j.open THEN [open |-> j.open, age |-> j.age + 1, probe |-> j.probe] ELSE j
    BY <1>1, <2>1
  <2>3. j.open => j.age < Backstop
    BY <1>1, <2>1
  <2>. QED BY <2>1, <2>2, <2>3, DetectionAssumption
<1>5. DetectionTypeOK'
  <2>1. job' \in [RunIds -> [open : BOOLEAN, age : 0..Backstop, probe : [Tools -> Probes]]]
    BY <1>1, <1>4
  <2>. QED BY <1>1, <1>3, <2>1 DEF DetectionTypeOK
<1>6. NotYet'
  BY <1>1, <1>2, <1>4, NotYetKept, NoJobFacts
<1>7. \A r \in RunIds : ~job'[r].open => job'[r] = NoJob
  BY <1>4
<1>8. job'[run].open =>
        detecting /\ job'[run].age <= age' /\ \A j \in DOMAIN bus : ~Completes(bus[j])
  BY <1>2, <1>3, <1>4, JobFacts DEF UnderWay
<1>. QED BY <1>1, <1>2, <1>4, <1>5, <1>6, <1>7, <1>8, BusKept

LEMMA DetectionStep == DetectionInv /\ [DetectionNext]_detection => DetectionInv'
<1>. SUFFICES ASSUME DetectionInv, [DetectionNext]_detection PROVE DetectionInv'
  OBVIOUS
<1>1. CASE User
  BY <1>1, RefreshStep, InstallCommandStep DEF User
<1>2. CASE HandleEvent
  BY <1>2, HandleToolStep, HandleDoneStep, HandleInstalledStep DEF HandleEvent
<1>3. CASE WatchDetect
  BY <1>3, WatchDetectStep
<1>4. CASE Detecting
  BY <1>4, TakeCommandStep, RunEnds, ProbeReadsStep, ProbeSendsStep DEF Detecting
<1>5. CASE Stalls \/ Installs
  BY <1>5, ProbeReadsStep, InstallWorksStep, InstallEndsStep DEF Stalls, Installs
<1>6. CASE Tick
  BY <1>6, TickStep
<1>7. CASE UNCHANGED detection
  <2>1. /\ UNCHANGED <<present, run, detecting, age, retries, rows, panel, cmds, bus>>
        /\ UNCHANGED <<job, installs, lost, faults, clicks>>
    BY <1>7 DEF detection
  <2>2. DetectionTypeOK' /\ NotYet'
    BY <2>1, NotYetKept DEF DetectionInv, DetectionTypeOK
  <2>3. job[run].open =>
          detecting /\ job[run].age <= age /\ \A j \in DOMAIN bus : ~Completes(bus[j])
    BY DEF DetectionInv, UnderWay
  <2>. QED BY <2>1, <2>2, <2>3, BusKept DEF DetectionInv
<1>. QED BY <1>1, <1>2, <1>3, <1>4, <1>5, <1>6, <1>7 DEF DetectionNext

\* The panel, the channels and the tasks are of their types in every state.
THEOREM DetectionTypeCorrect == DetectionSpec => []DetectionTypeOK
<1>1. DetectionInv => DetectionTypeOK
  BY DEF DetectionInv
<1>. QED BY <1>1, DetectionStart, DetectionStep, PTL DEF DetectionSpec

\* Whenever nothing is under way, the panel shows what is installed: for any
\* tools, any number of runs, installs and clicks, and in whatever order runs
\* overlap, unless an outcome was given up.
THEOREM PanelIsCurrent == DetectionSpec => []RowsAreCurrent
<1>1. DetectionInv => RowsAreCurrent
  <2>. SUFFICES ASSUME DetectionInv, Quiet, ~lost, NEW t \in Tools PROVE rows[t] = Truth(t)
    BY DEF RowsAreCurrent
  <2>1. ~Renewed(t)
    BY DEF Quiet, Renewed, DetectionInv, DetectionTypeOK
  <2>2. rows[t] # "none"
    BY DEF DetectionInv, AnswersArrive, Quiet
  <2>. QED BY <2>1, <2>2 DEF DetectionInv, Fresh
<1>. QED BY <1>1, DetectionStart, DetectionStep, PTL DEF DetectionSpec
==============================================================================
