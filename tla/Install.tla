------------------------------- MODULE Install -------------------------------
(***************************************************************************)
(* Installing one dependency: plan_install_for_with, build_binary_steps    *)
(* and install_with_progress of kindboard-core/src/deps/mod.rs, under      *)
(* do_install of the worker.                                               *)
(*                                                                         *)
(* The tasks are those of one tool, in the order of their commands.  The   *)
(* next command cancels the token of the task before it and does not wait  *)
(* for its end; both then write the same `.kb-dl-` and `.kb-extract-`      *)
(* files.  A subprocess ends by itself or by the token (Exec); what it     *)
(* does it may do although the token has fired.                            *)
(***************************************************************************)
EXTENDS Naturals, Sequences

CONSTANTS
    MaxInstalls,   \* bound: the install commands
    Recipes        \* the ways to install the tool on this platform

ASSUME InstallAssumption ==
    /\ MaxInstalls \in Nat
    /\ Recipes \subseteq [by : {"package", "binary", "archive", "none"}, windows : BOOLEAN]

VARIABLES
    recipe,
    stage, at,          \* of each task: where it is in its plan
    status,             \* of each task: the ToolStatus that it returned
    cancelled,          \* the tasks whose token fired
    download, member,   \* the downloaded file, and what was extracted from it
    bin,                \* <bin>/<command>
    elsewhere,          \* the tool is on the PATH in another place
    placed,             \* history: the tasks that moved something to bin
    overlapped          \* history: tasks that ran beside another one

task == <<stage, at, status, cancelled>>
artifacts == <<download, member, bin>>
history == <<placed, overlapped>>
install == <<recipe, stage, at, status, cancelled, download, member, bin, elsewhere, placed,
            overlapped>>

Tasks == 1..MaxInstalls
Active(t) == stage[t] \notin {"waiting", "ok", "failed"}

\* Content is what the digest is pinned to, something else, or cut off.
ToolFiles == [content : {"absent", "partial", "pinned", "other"}, exec : BOOLEAN]
NoFile == [content |-> "absent", exec |-> FALSE]
Exists(file) == file.content # "absent"

InstallTypeOK ==
    /\ recipe \in Recipes
    /\ stage \in [Tasks -> {"waiting", "preflight", "check", "run", "busy", "ran", "digest",
                            "recheck", "final", "ok", "failed"}]
    /\ at \in [Tasks -> Nat]
    /\ status \in [Tasks -> {"none", "absent", "broken", "installed"}]
    /\ cancelled \subseteq Tasks
    /\ download \in ToolFiles /\ member \in ToolFiles /\ bin \in ToolFiles
    /\ elsewhere \in BOOLEAN /\ placed \subseteq Tasks /\ overlapped \subseteq Tasks

-----------------------------------------------------------------------------
(* The plan.                                                               *)

\* An archive stands for all of its members that are installed.
UnixSteps ==
    [binary |-> <<"mkdir", "curl", "chmod", "mv">>,
     archive |-> <<"mkdir", "curl", "mkdir-extract", "tar", "chmod", "mv", "rm">>]

\* Windows has no executable bit.
WindowsSteps ==
    [binary |-> <<"mkdir", "curl", "mv">>,
     archive |-> <<"mkdir", "curl", "mkdir-extract", "tar", "mv", "rm">>]

\* Slip: the file is not made executable.
PlanWithoutChmod ==
    CASE recipe.by = "package" -> <<"package">>
      [] recipe.by = "none" -> <<>>
      [] recipe.by \in {"binary", "archive"} -> WindowsSteps[recipe.by]

\* No recipe, or no digest pinned for the platform: no plan.
Plan ==
    CASE recipe.by = "package" -> <<"package">>
      [] recipe.by = "none" -> <<>>
      [] recipe.by \in {"binary", "archive"} ->
           IF recipe.windows THEN WindowsSteps[recipe.by] ELSE UnixSteps[recipe.by]

Step(t) == Plan[at[t]]
Running(t, step) == stage[t] = "run" /\ Step(t) = step

-----------------------------------------------------------------------------
(* Detection: whichever is first on the PATH, the binary or another one.   *)

Verdicts(content) == IF content = "pinned" THEN {"installed"} ELSE {"installed", "broken"}

Detects ==
    LET found == (IF elsewhere THEN {"installed"} ELSE {})
                 \cup (IF Exists(bin) /\ (bin.exec \/ recipe.windows)
                         THEN Verdicts(bin.content) ELSE {})
    IN IF found = {} THEN {"absent"} ELSE found

-----------------------------------------------------------------------------
(* The task.                                                               *)

To(t, next) == stage' = [stage EXCEPT ![t] = next]
Ends(t, next, s) == To(t, next) /\ status' = [status EXCEPT ![t] = s]

\* The worker takes the command: op_token cancels the one before.
DoInstall(t) ==
    /\ stage[t] = "waiting" /\ \A q \in 1..(t - 1) : stage[q] # "waiting"
    /\ To(t, "preflight")
    /\ cancelled' = cancelled \cup 1..(t - 1)
    /\ LET others == {q \in Tasks : Active(q)} IN
         overlapped' = overlapped \cup others \cup (IF others = {} THEN {} ELSE {t})
    /\ UNCHANGED <<recipe, at, status, artifacts, elsewhere, placed>>

Preflight(t) ==
    /\ stage[t] = "preflight"
    /\ \E s \in Detects :
         IF s = "installed" THEN Ends(t, "ok", s) /\ UNCHANGED at
         ELSE IF Plan = <<>> THEN Ends(t, "failed", "none") /\ UNCHANGED at
         ELSE To(t, "check") /\ at' = [at EXCEPT ![t] = 1] /\ UNCHANGED status
    /\ UNCHANGED <<recipe, cancelled, artifacts, elsewhere, history>>

\* "cancelled" is reported without a look at the tool.
CheckToken(t) ==
    /\ stage[t] = "check"
    /\ IF t \in cancelled THEN Ends(t, "failed", "none") ELSE To(t, "run") /\ UNCHANGED status
    /\ UNCHANGED <<recipe, at, cancelled, artifacts, elsewhere, history>>

Onward(t) ==
    IF at[t] < Len(Plan) THEN To(t, "check") /\ at' = [at EXCEPT ![t] = @ + 1]
                         ELSE To(t, "final") /\ UNCHANGED at

StepReturns(t) ==
    /\ stage[t] = "ran"
    /\ IF t \in cancelled THEN To(t, "recheck") /\ UNCHANGED at
       ELSE IF Step(t) = "curl" THEN To(t, "digest") /\ UNCHANGED at
       ELSE Onward(t)
    /\ UNCHANGED <<recipe, status, cancelled, artifacts, elsewhere, history>>

\* Slip: a checksum that differs is only logged.
DigestLogged(t) ==
    /\ stage[t] = "digest" /\ Onward(t)
    /\ UNCHANGED <<recipe, status, cancelled, artifacts, elsewhere, history>>

\* A mismatch returns at once: the download is left, the tool not looked at.
VerifyDownload(t) ==
    /\ stage[t] = "digest"
    /\ IF download.content = "pinned" THEN Onward(t) /\ UNCHANGED status
       ELSE Ends(t, "failed", "none") /\ UNCHANGED at
    /\ UNCHANGED <<recipe, cancelled, artifacts, elsewhere, history>>

\* Slip: a step that failed is reported without a look at the tool.
ReportFailure(t) ==
    /\ stage[t] = "recheck" /\ Ends(t, "failed", "none")
    /\ UNCHANGED <<recipe, at, cancelled, artifacts, elsewhere, history>>

Recheck(t) ==
    /\ stage[t] = "recheck"
    /\ \E s \in Detects :
         IF s = "installed" THEN Ends(t, "ok", s) ELSE Ends(t, "failed", "none")
    /\ UNCHANGED <<recipe, at, cancelled, artifacts, elsewhere, history>>

Redetect(t) ==
    /\ stage[t] = "final"
    /\ \E s \in Detects : Ends(t, "ok", s)
    /\ UNCHANGED <<recipe, at, cancelled, artifacts, elsewhere, history>>

-----------------------------------------------------------------------------
(* The subprocesses of the steps.                                          *)

Ran(t) == To(t, "ran") /\ UNCHANGED <<recipe, at, status, cancelled, overlapped>>

\* The directory to extract to stays when its member is moved; tar needs it.
Mkdir(t) ==
    /\ Running(t, "mkdir") \/ Running(t, "mkdir-extract")
    /\ Ran(t) /\ UNCHANGED <<artifacts, elsewhere, placed>>

\* curl -o truncates the file that an earlier task may have left.
CurlStarts(t) ==
    /\ Running(t, "curl")
    /\ download' = [download EXCEPT !.content = "partial"]
    /\ To(t, "busy")
    /\ UNCHANGED <<recipe, at, status, cancelled, member, bin, elsewhere, history>>

\* (What another task has moved away stays cut off.)
CurlEnds(t) ==
    /\ stage[t] = "busy"
    /\ IF Exists(download)
         THEN \E c \in {"pinned", "other"} : download' = [download EXCEPT !.content = c]
         ELSE UNCHANGED download
    /\ Ran(t) /\ UNCHANGED <<member, bin, elsewhere, placed>>

Tar(t) ==
    /\ Running(t, "tar") /\ Exists(download)
    /\ \E x \in BOOLEAN : member' = [content |-> download.content, exec |-> x]
    /\ Ran(t) /\ UNCHANGED <<download, bin, elsewhere, placed>>

Extracts == recipe.by = "archive"

Chmod(t) ==
    /\ Running(t, "chmod")
    /\ IF Extracts
         THEN Exists(member) /\ member' = [member EXCEPT !.exec = TRUE] /\ UNCHANGED download
         ELSE Exists(download) /\ download' = [download EXCEPT !.exec = TRUE] /\ UNCHANGED member
    /\ Ran(t) /\ UNCHANGED <<bin, elsewhere, placed>>

Mv(t) ==
    /\ Running(t, "mv")
    /\ IF Extracts
         THEN Exists(member) /\ bin' = member /\ member' = NoFile /\ UNCHANGED download
         ELSE Exists(download) /\ bin' = download /\ download' = NoFile /\ UNCHANGED member
    /\ placed' = placed \cup {t}
    /\ Ran(t) /\ UNCHANGED elsewhere

Rm(t) ==
    /\ Running(t, "rm")
    /\ download' = NoFile /\ member' = NoFile
    /\ Ran(t) /\ UNCHANGED <<bin, elsewhere, placed>>

\* "already installed" is a failure to a package manager.
PackageManager(t) ==
    /\ Running(t, "package") /\ ~elsewhere
    /\ elsewhere' = TRUE
    /\ Ran(t) /\ UNCHANGED <<artifacts, placed>>

\* A step fails, before or after it took effect, or ends by the token or its
\* deadline; tar may leave part of the member.
StepFails(t) ==
    /\ stage[t] \in {"run", "busy", "ran"}
    /\ IF Running(t, "tar") THEN member' \in {member, [content |-> "partial", exec |-> FALSE]}
                            ELSE UNCHANGED member
    /\ To(t, "recheck")
    /\ UNCHANGED <<recipe, at, status, cancelled, download, bin, elsewhere, history>>

Subprocess(t) ==
    \/ Mkdir(t) \/ CurlStarts(t) \/ CurlEnds(t) \/ Tar(t) \/ Chmod(t) \/ Mv(t) \/ Rm(t)
    \/ PackageManager(t) \/ StepFails(t)

-----------------------------------------------------------------------------
\* Someone else installs the tool.
InstalledElsewhere ==
    /\ ~elsewhere /\ elsewhere' = TRUE
    /\ UNCHANGED <<recipe, task, artifacts, history>>

InstallInit ==
    /\ recipe \in Recipes
    /\ stage = [t \in Tasks |-> "waiting"] /\ at = [t \in Tasks |-> 0]
    /\ status = [t \in Tasks |-> "none"] /\ cancelled = {}
    /\ download = NoFile /\ member = NoFile /\ bin = NoFile /\ elsewhere = FALSE
    /\ placed = {} /\ overlapped = {}

InstallTask(t) ==
    \/ Preflight(t) \/ CheckToken(t) \/ Subprocess(t) \/ StepReturns(t) \/ VerifyDownload(t)
    \/ Recheck(t) \/ Redetect(t)

InstallNext == (\E t \in Tasks : DoInstall(t) \/ InstallTask(t)) \/ InstalledElsewhere

InstallSpec == InstallInit /\ [][InstallNext]_install

-----------------------------------------------------------------------------
(* Properties.                                                             *)

Alone == Tasks \ overlapped

\* "every download step must pass its pinned sha256 BEFORE any later step
\* consumes the file" (deps/mod.rs): what a task moves to bin is the artifact
\* the digest is pinned to, whatever earlier tasks that failed or were
\* cancelled left in the files.  Tasks that overlap share the files between
\* the check and the move, and are excepted.
MovedWasChecked == [][\A t \in Alone : Mv(t) => bin'.content = "pinned"]_install

\* "a stale detection or an installer race can never produce a false
\* 'install failed'" (deps/mod.rs): a task that nobody cancelled does not
\* report a failure once the tool is in its place, whatever fails after that.
\* (A cancelled one may: the look at the token between steps asks nothing.)
\* And a task that went through its plan leaves a tool that is found and
\* works, and no file of its own beside it.
OutcomesAreTrue ==
    [][/\ \A t \in placed' \ (cancelled' \cup overlapped') : stage'[t] # "failed"
       /\ \A t \in Alone : Redetect(t) =>
            /\ status'[t] = "installed"
            /\ recipe.by # "package"
                 => bin.content = "pinned" /\ ~Exists(download) /\ ~Exists(member)]_install
=============================================================================
