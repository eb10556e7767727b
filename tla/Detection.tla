------------------------------ MODULE Detection ------------------------------
(***************************************************************************)
(* Tool detection: the dependency panel (views/deps.rs DepsState), the     *)
(* app's watchdog over it (app.rs watch_detect), and the worker's          *)
(* detection and install tasks (worker.rs do_detect_all, do_install).      *)
(*                                                                         *)
(* A detection run has an id; the panel accepts the events of its own run  *)
(* only.  Runs overlap: Refresh, "Check again", the end of an install and  *)
(* the watchdog each begin one while earlier ones go on.                   *)
(*                                                                         *)
(* Time passes in units of the watchdog's threshold (60 s).  A frame (2 s) *)
(* and a probe that answers (30 s at most) fit in a unit, so it ends only  *)
(* when nothing but stalled probes and installs is left to do in it.       *)
(***************************************************************************)
EXTENDS Naturals, Sequences

CONSTANTS
    Tools,
    Runs,          \* run ids are 1..Runs and come round again (u64 in the code)
    Watchdog,      \* DETECT_WATCHDOG, in units
    Backstop,      \* DETECT_ALL_DEADLINE, in units
    MaxRetries,    \* DETECT_MAX_RETRIES
    MaxFaults,     \* bound: probes that stall, commands and outcomes refused
    MaxClicks      \* bound: buttons the user presses

ASSUME DetectionAssumption ==
    /\ Runs \in Nat \ {0} /\ Watchdog \in Nat \ {0} /\ Backstop \in Nat /\ Watchdog < Backstop
    /\ MaxRetries \in Nat \ {0} /\ MaxFaults \in Nat /\ MaxClicks \in Nat

VARIABLES
    present,     \* the tools that are installed
    run, detecting, age, retries, rows, panel,   \* DepsState
    cmds, bus,   \* the two channels
    job,         \* the task of each run
    installs,    \* install tasks of each tool that still run
    lost,        \* history: an outcome was given up
    faults, clicks

ui == <<run, detecting, age, retries, rows, panel>>
bounds == <<lost, faults, clicks>>
detection == <<present, run, detecting, age, retries, rows, panel, cmds, bus,
               job, installs, lost, faults, clicks>>

RunIds == 1..Runs
Found == {"present", "absent"}
Probes == {"pending", "stalled", "sent"} \cup Found
NoPanel == [tool |-> "none", done |-> TRUE]
NoJob == [open |-> FALSE, age |-> 0, probe |-> [t \in Tools |-> "sent"]]

Commands == [do : {"detect"}, run : RunIds] \cup [do : {"install"}, tool : Tools]
Events == [is : {"tool"}, run : RunIds, tool : Tools, found : Found]
    \cup [is : {"done"}, run : RunIds] \cup [is : {"installed"}, tool : Tools, found : Found]

DetectionTypeOK ==
    /\ present \subseteq Tools
    /\ run \in RunIds /\ detecting \in BOOLEAN /\ age \in 0..Watchdog
    /\ retries \in 0..MaxRetries
    /\ rows \in [Tools -> Found \cup {"none"}]
    /\ panel \in [tool : Tools, done : BOOLEAN] \cup {NoPanel}
    /\ cmds \in Seq(Commands) /\ bus \in Seq(Events)
    /\ job \in [RunIds -> [open : BOOLEAN, age : 0..Backstop, probe : [Tools -> Probes]]]
    /\ installs \in [Tools -> Nat]
    /\ lost \in BOOLEAN /\ faults \in 0..MaxFaults /\ clicks \in 0..MaxClicks

Truth(t) == IF t \in present THEN "present" ELSE "absent"
Min2(a, b) == IF a < b THEN a ELSE b

-----------------------------------------------------------------------------
(* Faults.                                                                 *)

Fault == faults < MaxFaults /\ faults' = faults + 1

\* A full command channel loses the command; the caller has gone on by then.
Issue(c) ==
    \/ cmds' = Append(cmds, c) /\ UNCHANGED faults
    \/ Fault /\ UNCHANGED cmds

\* An outcome is given up when the bus stays full for the grace.
EmitImportant(e) ==
    \/ bus' = Append(bus, e) /\ UNCHANGED <<lost, faults>>
    \/ Fault /\ lost' = TRUE /\ UNCHANGED bus

-----------------------------------------------------------------------------
(* The panel.                                                              *)

NextRun == (run % Runs) + 1

\* Nothing is left of the run that had this id before (bound).
Unused(r) ==
    /\ job[r] = NoJob
    /\ \A i \in DOMAIN bus : bus[i].is \in {"tool", "done"} => bus[i].run # r
    /\ \A i \in DOMAIN cmds : cmds[i].do = "detect" => cmds[i].run # r

BeginDetect ==
    /\ Unused(NextRun)
    /\ run' = NextRun
    /\ detecting' = TRUE /\ age' = 0 /\ retries' = 0
    /\ rows' = [t \in Tools |-> "none"]

StartRun ==
    /\ BeginDetect
    /\ Issue([do |-> "detect", run |-> run'])

Click == clicks < MaxClicks /\ clicks' = clicks + 1

\* Refresh is disabled while detecting, "Check again" is not, but is shown
\* only next to a tool that is known to be missing.
Refresh ==
    /\ Click
    /\ ~detecting \/ \E t \in Tools : rows[t] = "absent"
    /\ StartRun
    /\ UNCHANGED <<present, panel, bus, job, installs, lost>>

Installing(t) == panel.tool = t /\ ~panel.done

\* The row's button opens the inline area, the overview's button does not.
Install(t) ==
    /\ Click
    /\ \/ rows[t] # "present" /\ ~Installing(t)
          /\ panel' = [tool |-> t, done |-> FALSE]
       \/ rows[t] = "absent" /\ UNCHANGED panel
    /\ Issue([do |-> "install", tool |-> t])
    /\ UNCHANGED <<present, run, detecting, age, retries, rows, bus, job, installs, lost>>

\* Slip: the run is not compared.
HandleToolUnchecked(e) ==
    /\ rows' = [rows EXCEPT ![e.tool] = e.found]
    /\ UNCHANGED <<run, detecting, age, retries, panel, cmds, faults>>

HandleTool(e) ==
    /\ rows' = IF e.run = run THEN [rows EXCEPT ![e.tool] = e.found] ELSE rows
    /\ UNCHANGED <<run, detecting, age, retries, panel, cmds, faults>>

HandleDone(e) ==
    /\ IF e.run = run
         THEN detecting' = FALSE /\ age' = 0 /\ retries' = 0
         ELSE UNCHANGED <<detecting, age, retries>>
    /\ UNCHANGED <<run, rows, panel, cmds, faults>>

HandleInstalled(e) ==
    /\ panel' = IF panel.tool = e.tool THEN [panel EXCEPT !.done = TRUE] ELSE panel
    /\ StartRun

HandleEvent ==
    /\ bus # <<>>
    /\ bus' = Tail(bus)
    /\ LET e == Head(bus) IN
       \/ e.is = "tool" /\ HandleTool(e)
       \/ e.is = "done" /\ HandleDone(e)
       \/ e.is = "installed" /\ HandleInstalled(e)
    /\ UNCHANGED <<present, job, installs, lost, clicks>>

Stalled == detecting /\ age >= Watchdog

\* Slip: the stalled run is left to the backstop.
ReissueNothing == UNCHANGED <<run, detecting, age, retries, rows, cmds, faults>>

\* The increment comes before begin_detect, which sets the counter to 0.
Reissue ==
    /\ StartRun

\* Never taken: the counter is 0 whenever a run begins.
Release ==
    /\ detecting' = FALSE /\ age' = 0 /\ retries' = 0
    /\ UNCHANGED <<run, rows, cmds, faults>>

WatchDetect ==
    /\ Stalled
    /\ IF retries < MaxRetries THEN Reissue ELSE Release
    /\ UNCHANGED <<present, panel, bus, job, installs, lost, clicks>>

-----------------------------------------------------------------------------
(* The worker.                                                             *)

TakeCommand ==
    /\ cmds # <<>>
    /\ cmds' = Tail(cmds)
    /\ LET c == Head(cmds) IN
       \/ c.do = "detect"
          /\ job' = [job EXCEPT ![c.run] =
                       [open |-> TRUE, age |-> 0, probe |-> [t \in Tools |-> "pending"]]]
          /\ UNCHANGED installs
       \/ c.do = "install"
          /\ installs' = [installs EXCEPT ![c.tool] = @ + 1] /\ UNCHANGED job
    /\ UNCHANGED <<present, ui, bus, bounds>>

ProbeReads(r, t) ==
    /\ job[r].probe[t] = "pending"
    /\ job' = [job EXCEPT ![r].probe[t] = Truth(t)]
    /\ UNCHANGED <<present, ui, cmds, bus, installs, bounds>>

ProbeStalls(r, t) ==
    /\ job[r].probe[t] = "pending"
    /\ Fault
    /\ job' = [job EXCEPT ![r].probe[t] = "stalled"]
    /\ UNCHANGED <<present, ui, cmds, bus, installs, lost, clicks>>

ProbeSends(r, t) ==
    /\ job[r].probe[t] \in Found
    /\ EmitImportant([is |-> "tool", run |-> r, tool |-> t, found |-> job[r].probe[t]])
    /\ job' = [job EXCEPT ![r].probe[t] = "sent"]
    /\ UNCHANGED <<present, ui, cmds, installs, clicks>>

Answered(r) == \A t \in Tools : job[r].probe[t] = "sent"

DetectAllEnds(r) ==
    /\ job[r].open /\ Answered(r)
    /\ EmitImportant([is |-> "done", run |-> r])
    /\ job' = [job EXCEPT ![r] = NoJob]
    /\ UNCHANGED <<present, ui, cmds, installs, clicks>>

\* The tasks of the probes are detached; those that stalled say nothing more.
BackstopFires(r) ==
    /\ job[r].open /\ job[r].age >= Backstop
    /\ EmitImportant([is |-> "done", run |-> r])
    /\ job' = [job EXCEPT ![r] = NoJob]
    /\ UNCHANGED <<present, ui, cmds, installs, clicks>>

InstallWorks(t) ==
    /\ installs[t] > 0
    /\ present' = present \cup {t}
    /\ UNCHANGED <<ui, cmds, bus, job, installs, bounds>>

InstallEnds(t) ==
    /\ installs[t] > 0
    /\ EmitImportant([is |-> "installed", tool |-> t, found |-> Truth(t)])
    /\ installs' = [installs EXCEPT ![t] = @ - 1]
    /\ UNCHANGED <<present, ui, cmds, job, clicks>>

-----------------------------------------------------------------------------
(* Time.                                                                   *)

UnitIsOver ==
    /\ cmds = <<>> /\ bus = <<>> /\ ~Stalled
    /\ \A r \in RunIds :
         /\ \A t \in Tools : job[r].probe[t] \in {"sent", "stalled"}
         /\ job[r].open => ~Answered(r) /\ job[r].age < Backstop

Tick ==
    /\ UnitIsOver
    /\ detecting \/ \E r \in RunIds : job[r].open
    /\ age' = IF detecting THEN Min2(age + 1, Watchdog) ELSE age
    /\ job' = [r \in RunIds |-> IF job[r].open THEN [job[r] EXCEPT !.age = @ + 1] ELSE job[r]]
    /\ UNCHANGED <<present, run, detecting, retries, rows, panel, cmds, bus,
                   installs, bounds>>

-----------------------------------------------------------------------------
DetectionInit ==
    /\ present \in SUBSET Tools
    /\ run = 1 /\ detecting = TRUE /\ age = 0 /\ retries = 0
    /\ rows = [t \in Tools |-> "none"] /\ panel = NoPanel
    /\ cmds = <<[do |-> "detect", run |-> 1]>> /\ bus = <<>>
    /\ job = [r \in RunIds |-> NoJob]
    /\ installs = [t \in Tools |-> 0]
    /\ lost = FALSE /\ faults = 0 /\ clicks = 0

User == Refresh \/ \E t \in Tools : Install(t)

Detecting ==
    \/ TakeCommand
    \/ \E r \in RunIds :
         \/ DetectAllEnds(r) \/ BackstopFires(r)
         \/ \E t \in Tools : ProbeReads(r, t) \/ ProbeSends(r, t)

Stalls == \E r \in RunIds, t \in Tools : ProbeStalls(r, t)

Installs == \E t \in Tools : InstallWorks(t) \/ InstallEnds(t)

DetectionNext == User \/ HandleEvent \/ WatchDetect \/ Detecting \/ Stalls \/ Installs \/ Tick

DetectionSpec == DetectionInit /\ [][DetectionNext]_detection

\* The app draws frames, tasks are scheduled, time passes; the user owes
\* nothing, and no install has to end.
FairSpec ==
    /\ DetectionSpec
    /\ WF_detection(HandleEvent) /\ WF_detection(WatchDetect) /\ WF_detection(Detecting)
    /\ WF_detection(Tick)

-----------------------------------------------------------------------------
(* Properties.                                                             *)

Quiet ==
    /\ ~detecting /\ cmds = <<>>
    /\ \A i \in DOMAIN bus : bus[i].is # "installed"
    /\ \A t \in Tools : installs[t] = 0

\* What the panel shows when nothing is under way is what is installed: an
\* outcome read before an install ended is never left standing after it, in
\* whatever order runs overlap and their events arrive.
RowsAreCurrent == Quiet /\ ~lost => \A t \in Tools : rows[t] = Truth(t)

\* "checking..." ends: whatever was stalled, lost or refused (finitely often),
\* a run of the panel completes (app.rs watch_detect re-issues it).
DetectionEnds == detecting ~> ~detecting
=============================================================================
