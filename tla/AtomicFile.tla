----------------------------- MODULE AtomicFile -----------------------------
(***************************************************************************)
(* The write discipline of kindboard-core/src/fsutil.rs on one target file *)
(* (settings.json, clusters/<name>.json, the kubeconfig): the target is    *)
(* copied to <target>.bak, the new bytes go to a sibling temporary file,   *)
(* which is synced and renamed over the target.                            *)
(*                                                                         *)
(* Several tasks of the worker may write one target at once.  Any system   *)
(* call may fail, the process may die between two of them, and the power   *)
(* may fail: then a file that was not synced may be torn, and the          *)
(* directory, which is never synced, may be as it was at any time since    *)
(* it last reached the disk.                                               *)
(***************************************************************************)
EXTENDS Naturals

CONSTANTS
    Writers,      \* tasks that write the target
    Values,       \* what they write
    None,
    MaxWrites,    \* bound: writes that begin
    MaxFailures   \* bound: system calls that fail, crashes, power failures

ASSUME FileAssumption == None \notin Values /\ MaxWrites \in Nat /\ MaxFailures \in Nat

VARIABLES
    target, bak,              \* the two files
    mayTarget, mayBak,        \* what each may be after a power failure
    pc, new, source,          \* a writer's control state, bytes, open source
    temp, bakTemp,            \* its temporary files
    crossed,                  \* history: the write in progress met another one
    up,                       \* the program runs
    writes, failures

writer == <<pc, new, source, temp, bakTemp>>
files == <<target, bak, mayTarget, mayBak>>
counts == <<writes, failures>>
vars == <<target, bak, mayTarget, mayBak, pc, new, source, temp, bakTemp, crossed, up,
          writes, failures>>

\* whole: every byte is there; synced: every byte is on the disk.
Contents == [value : Values, whole : BOOLEAN, synced : BOOLEAN]
Absent == [value |-> None, whole |-> TRUE, synced |-> TRUE]
Files == Contents \cup {Absent}

Steps == {"idle", "open", "copy", "syncBak", "renameBak", "create", "sync", "rename"}

TypeOK ==
    /\ target \in Files /\ bak \in Files
    /\ mayTarget \subseteq Files /\ mayBak \subseteq Files
    /\ target \in mayTarget /\ bak \in mayBak
    /\ pc \in [Writers -> Steps] /\ new \in [Writers -> Values \cup {None}]
    /\ source \in [Writers -> Files]
    /\ temp \in [Writers -> Files] /\ bakTemp \in [Writers -> Files]
    /\ \A w \in Writers : (pc[w] = "idle" <=> new[w] = None)
    /\ crossed \in BOOLEAN /\ up \in BOOLEAN
    /\ writes \in 0..MaxWrites /\ failures \in 0..MaxFailures

Unsynced(v) == [value |-> v, whole |-> TRUE, synced |-> FALSE]

Goto(w, step) == pc' = [pc EXCEPT ![w] = step]

Busy(ws) == \E w \in ws : pc[w] # "idle"

SetTarget(f) == target' = f /\ mayTarget' = mayTarget \cup {f} /\ UNCHANGED <<bak, mayBak>>
SetBak(f) == bak' = f /\ mayBak' = mayBak \cup {f} /\ UNCHANGED <<target, mayTarget>>

-----------------------------------------------------------------------------
(* atomic_write_impl, backup.                                              *)

\* Slip: the existing target is not copied.
BeginWithoutBackup(w, v) ==
    /\ up /\ pc[w] = "idle" /\ writes < MaxWrites
    /\ new' = [new EXCEPT ![w] = v]
    /\ Goto(w, "create")
    /\ writes' = writes + 1 /\ crossed' = Busy(Writers \ {w})
    /\ UNCHANGED <<files, source, temp, bakTemp, up, failures>>

\* path.is_file() is looked at once; without a target there is no backup.
Begin(w, v) ==
    /\ up /\ pc[w] = "idle" /\ writes < MaxWrites
    /\ new' = [new EXCEPT ![w] = v]
    /\ Goto(w, IF target = Absent THEN "create" ELSE "open")
    /\ writes' = writes + 1 /\ crossed' = Busy(Writers \ {w})
    /\ UNCHANGED <<files, source, temp, bakTemp, up, failures>>

BackupOpens(w) ==
    /\ pc[w] = "open" /\ target # Absent
    /\ source' = [source EXCEPT ![w] = target]
    /\ Goto(w, "copy")
    /\ UNCHANGED <<files, new, temp, bakTemp, crossed, up, counts>>

\* The target was removed after it was looked at: the write fails.
BackupFindsNothing(w) ==
    /\ pc[w] = "open" /\ target = Absent
    /\ Goto(w, "idle") /\ new' = [new EXCEPT ![w] = None]
    /\ UNCHANGED <<files, source, temp, bakTemp, crossed, up, counts>>

BackupCopies(w) ==
    /\ pc[w] = "copy"
    /\ bakTemp' = [bakTemp EXCEPT ![w] = [source[w] EXCEPT !.synced = FALSE]]
    /\ Goto(w, "syncBak")
    /\ UNCHANGED <<files, new, source, temp, crossed, up, counts>>

\* Slip: the copy is renamed without a sync.
BackupSkipsSync(w) ==
    /\ pc[w] = "syncBak"
    /\ Goto(w, "renameBak")
    /\ UNCHANGED <<files, new, source, temp, bakTemp, crossed, up, counts>>

BackupSyncs(w) ==
    /\ pc[w] = "syncBak"
    /\ bakTemp' = [bakTemp EXCEPT ![w].synced = TRUE]
    /\ Goto(w, "renameBak")
    /\ UNCHANGED <<files, new, source, temp, crossed, up, counts>>

BackupRenames(w) ==
    /\ pc[w] = "renameBak"
    /\ SetBak(bakTemp[w])
    /\ Goto(w, "create")
    /\ UNCHANGED <<new, source, temp, bakTemp, crossed, up, counts>>

\* Slip: the target itself is truncated and written.
WritesInPlace(w) ==
    /\ pc[w] = "create"
    /\ SetTarget([value |-> new[w], whole |-> FALSE, synced |-> FALSE])
    /\ temp' = [temp EXCEPT ![w] = Unsynced(new[w])]
    /\ Goto(w, "sync")
    /\ UNCHANGED <<new, source, bakTemp, crossed, up, counts>>

\* create_new_temp and write_all.
WritesTemp(w) ==
    /\ pc[w] = "create"
    /\ temp' = [temp EXCEPT ![w] = Unsynced(new[w])]
    /\ Goto(w, "sync")
    /\ UNCHANGED <<files, new, source, bakTemp, crossed, up, counts>>

\* Slip: the new bytes are renamed without a sync.
SkipsSync(w) ==
    /\ pc[w] = "sync"
    /\ Goto(w, "rename")
    /\ UNCHANGED <<files, new, source, temp, bakTemp, crossed, up, counts>>

Syncs(w) ==
    /\ pc[w] = "sync"
    /\ temp' = [temp EXCEPT ![w].synced = TRUE]
    /\ Goto(w, "rename")
    /\ UNCHANGED <<files, new, source, bakTemp, crossed, up, counts>>

Renames(w) ==
    /\ pc[w] = "rename"
    /\ SetTarget(temp[w])
    /\ Goto(w, "idle") /\ new' = [new EXCEPT ![w] = None]
    /\ UNCHANGED <<source, temp, bakTemp, crossed, up, counts>>

-----------------------------------------------------------------------------
(* Failures.                                                               *)

Failure == failures < MaxFailures /\ failures' = failures + 1

\* A call fails and `?` returns: nothing was renamed.
CallFails(w) ==
    /\ up /\ pc[w] # "idle" /\ Failure
    /\ Goto(w, "idle") /\ new' = [new EXCEPT ![w] = None]
    /\ UNCHANGED <<files, source, temp, bakTemp, crossed, up, writes>>

Stop ==
    /\ up' = FALSE
    /\ pc' = [w \in Writers |-> "idle"] /\ new' = [w \in Writers |-> None]
    /\ UNCHANGED <<source, temp, bakTemp, crossed, writes>>

ProcessDies == up /\ Failure /\ Stop /\ UNCHANGED files

\* What was not synced may be torn.
Survivors(fs) == fs \cup {[f EXCEPT !.whole = FALSE] : f \in {g \in fs : ~g.synced}}

PowerFails ==
    /\ Failure /\ Stop
    /\ target' \in Survivors(mayTarget) /\ mayTarget' = {target'}
    /\ bak' \in Survivors(mayBak) /\ mayBak' = {bak'}

\* main opens the data dir; what it cleans there is no file of this module.
Start == ~up /\ up' = TRUE /\ UNCHANGED <<files, writer, crossed, counts>>

-----------------------------------------------------------------------------
(* The rest of the world.                                                  *)

\* remove_cluster
Remove ==
    /\ up /\ target # Absent
    /\ SetTarget(Absent)
    /\ UNCHANGED <<writer, crossed, up, counts>>

\* The directory reaches the disk.
Settle ==
    /\ mayTarget' = {target} /\ mayBak' = {bak}
    /\ UNCHANGED <<target, bak, writer, crossed, up, counts>>

-----------------------------------------------------------------------------
Init ==
    /\ target = Absent /\ bak = Absent /\ mayTarget = {Absent} /\ mayBak = {Absent}
    /\ pc = [w \in Writers |-> "idle"] /\ new = [w \in Writers |-> None]
    /\ source = [w \in Writers |-> Absent]
    /\ temp = [w \in Writers |-> Absent] /\ bakTemp = [w \in Writers |-> Absent]
    /\ crossed = FALSE /\ up = TRUE /\ writes = 0 /\ failures = 0

Backup(w) ==
    \/ BackupOpens(w) \/ BackupFindsNothing(w) \/ BackupCopies(w)
    \/ BackupSyncs(w) \/ BackupRenames(w)

AtomicWrite(w) ==
    \/ \E v \in Values : Begin(w, v)
    \/ Backup(w) \/ WritesTemp(w) \/ Syncs(w) \/ Renames(w)

Next ==
    \/ \E w \in Writers : AtomicWrite(w) \/ CallFails(w)
    \/ ProcessDies \/ PowerFails \/ Start \/ Remove \/ Settle

Spec == Init /\ [][Next]_vars

-----------------------------------------------------------------------------
(* Properties.                                                             *)

\* "Never leaves a partially-written target behind", "an interrupted write can
\* never corrupt the last-good file" (fsutil.rs): target and backup are whole
\* whenever anybody reads them, after a power failure too.
FilesAreWhole == target.whole /\ bak.whole

\* "The previous content is copied to <target>.bak first" (fsutil.rs): what a
\* rename replaces is in the backup at that moment, whatever failed before,
\* unless a second task was writing the same target meanwhile.
BackupIsPrevious ==
    [][\A w \in Writers :
          Renames(w) /\ target # Absent /\ ~crossed => bak.value = target.value]_vars

\* The file as its readers see it is an atomic register.
Seen(f) == IF f.whole THEN f.value ELSE "torn"

Register == INSTANCE AtomicRegister WITH
    value <- Seen(target),
    durable <- {Seen(f) : f \in Survivors(mayTarget)}

\* Any number of writers, failing calls, crashes and power failures: every
\* step of the write discipline is one step of the register, or none.
ImplementsRegister == Register!Spec
=============================================================================
