--------------------------------- MODULE Exec ---------------------------------
(***************************************************************************)
(* One subprocess under kindboard-core/src/exec.rs: the process group, the *)
(* ProcessHandle of the task that runs it (run_streaming of provision, or  *)
(* Cmd::run), and the watcher task that waits for the cancellation token.  *)
(*                                                                         *)
(* The group is a leader (the child that was spawned) and at most one      *)
(* member it started, which may hold the pipes of its parent open.  A      *)
(* process may ignore TERM.  The caller and the watcher both climb the     *)
(* TERM, grace, KILL ladder; an AtomicBool tells the watcher that the      *)
(* caller has reaped the leader.  Timers may fire at any time.             *)
(***************************************************************************)
EXTENDS Naturals

CONSTANTS
    OutCap, ErrCap,  \* places of the stdout and stderr channels (and pipes)
    MaxOut, MaxErr   \* bound: what the leader writes before it exits

ASSUME ExecAssumption ==
    /\ OutCap \in Nat \ {0} /\ ErrCap \in Nat \ {0}
    /\ MaxOut \in Nat /\ MaxErr \in Nat

VARIABLES
    streaming,          \* run_streaming: stdout is read to its end before the
                        \* wait; otherwise Cmd::run
    leader, member,     \* the processes
    exit,               \* the leader's exit status, once it has one
    termed,             \* the processes TERM was sent to
    ignores,            \* the processes that ignore TERM
    holds,              \* the member holds the pipes open
    hangs,              \* the processes that do not exit by themselves
    outLeft, errLeft,   \* what the leader has still to write
    out, err,           \* what is in the channels
    caller, outcome,    \* the task's control state and what it will return
    token,              \* the cancellation token has fired
    reaped,             \* the AtomicBool
    watcher,            \* the watcher task's control state
    signalled           \* history: a signal was sent to the group

process == <<leader, member, exit, termed>>
nature == <<streaming, ignores, holds, hangs>>
pipes == <<outLeft, errLeft, out, err>>
vars == <<streaming, leader, member, exit, termed, ignores, holds, hangs, outLeft, errLeft,
          out, err, caller, outcome, token, reaped, watcher, signalled>>

Processes == {"leader", "member"}
Waiting == {"polling", "checking", "grace", "killed", "marking", "draining"}
Over == {"returned", "dropped"}

TypeOK ==
    /\ leader \in {"running", "zombie", "reaped"} /\ member \in {"running", "gone"}
    /\ exit \in {"none", "ok", "err"} /\ (exit = "none" <=> leader = "running")
    /\ termed \subseteq Processes /\ ignores \subseteq Processes
    /\ streaming \in BOOLEAN /\ holds \in BOOLEAN /\ hangs \subseteq Processes
    /\ outLeft \in 0..MaxOut /\ errLeft \in 0..MaxErr
    /\ out \in 0..OutCap /\ err \in 0..ErrCap
    /\ caller \in {"streaming"} \cup Waiting \cup Over
    /\ outcome \in {"none", "ok", "err", "cancelled", "timeout"}
    /\ caller \in {"draining", "returned"} => outcome # "none"
    /\ token \in BOOLEAN /\ reaped \in BOOLEAN
    /\ watcher \in {"waiting", "check", "term", "sleep", "recheck", "kill", "done"}
    /\ signalled \in BOOLEAN

-----------------------------------------------------------------------------
(* The processes.                                                          *)

Write ==
    /\ leader = "running"
    /\ \/ outLeft > 0 /\ out < OutCap
          /\ outLeft' = outLeft - 1 /\ out' = out + 1 /\ UNCHANGED <<errLeft, err>>
       \/ errLeft > 0 /\ err < ErrCap
          /\ errLeft' = errLeft - 1 /\ err' = err + 1 /\ UNCHANGED <<outLeft, out>>
    /\ UNCHANGED <<process, nature, caller, outcome, token, reaped, watcher, signalled>>

LeaderEnds(code) ==
    /\ leader = "running" /\ leader' = "zombie" /\ exit' = code
    /\ UNCHANGED <<member, termed, nature, pipes, caller, outcome, token, reaped,
                   watcher, signalled>>

Exits == /\ outLeft = 0 /\ errLeft = 0 /\ "leader" \notin hangs
         /\ \E code \in {"ok", "err"} : LeaderEnds(code)

\* TERM takes its time, and a shell may turn it into exit code 0.
LeaderObeys == /\ "leader" \in termed \ ignores
               /\ \E code \in {"ok", "err"} : LeaderEnds(code)

MemberEnds ==
    /\ member = "running" /\ member' = "gone"
    /\ UNCHANGED <<leader, exit, termed, nature, pipes, caller, outcome, token,
                   reaped, watcher, signalled>>

MemberExits == "member" \notin hangs /\ MemberEnds
MemberObeys == "member" \in termed \ ignores /\ MemberEnds

\* The pipes are at their end: nobody can write any more.
Closed == leader # "running" /\ ~(member = "running" /\ holds)

\* killpg on the group of the leader.
Term == /\ termed' = Processes
        /\ signalled' = TRUE
        /\ UNCHANGED <<leader, member, exit>>
Kill == /\ leader' = IF leader = "running" THEN "zombie" ELSE leader
        /\ exit' = IF leader = "running" THEN "err" ELSE exit
        /\ member' = "gone"
        /\ signalled' = TRUE
        /\ UNCHANGED termed

-----------------------------------------------------------------------------
(* The caller.                                                             *)

\* run_streaming reads stdout only; wait drains both channels.
ReadOut ==
    /\ caller \in {"streaming"} \cup Waiting /\ out > 0
    /\ out' = out - 1
    /\ UNCHANGED <<process, nature, outLeft, errLeft, err, caller, outcome, token,
                   reaped, watcher, signalled>>
ReadErr ==
    /\ caller \in Waiting /\ err > 0
    /\ err' = err - 1
    /\ UNCHANGED <<process, nature, outLeft, errLeft, out, caller, outcome, token,
                   reaped, watcher, signalled>>

EndOfStdout ==
    /\ caller = "streaming" /\ Closed /\ out = 0
    /\ caller' = "polling"
    /\ UNCHANGED <<process, nature, pipes, outcome, token, reaped, watcher, signalled>>

\* await_outcome: try_wait finds the leader dead, and then looks at the token.
TryWait ==
    /\ caller = "polling" /\ leader = "zombie"
    /\ leader' = "reaped" /\ caller' = "checking"
    /\ UNCHANGED <<member, exit, termed, nature, pipes, outcome, token, reaped,
                   watcher, signalled>>

\* Slip: the exit code alone decides.
CheckStatusOnly ==
    /\ caller = "checking"
    /\ reaped' = TRUE /\ outcome' = exit /\ caller' = "draining"
    /\ UNCHANGED <<process, nature, pipes, token, watcher, signalled>>

CheckToken ==
    /\ caller = "checking"
    /\ reaped' = TRUE
    /\ outcome' = IF token THEN "cancelled" ELSE exit
    /\ caller' = "draining"
    /\ UNCHANGED <<process, nature, pipes, token, watcher, signalled>>

\* The deadline, or the token, ends the wait with TERM.
Deadline ==
    /\ caller = "polling"
    /\ Term /\ outcome' = "timeout" /\ caller' = "grace"
    /\ UNCHANGED <<nature, pipes, token, reaped, watcher>>
SeesToken ==
    /\ caller = "polling" /\ token
    /\ Term /\ outcome' = "cancelled" /\ caller' = "grace"
    /\ UNCHANGED <<nature, pipes, token, reaped, watcher>>

\* grace_then_kill.
GraceOver ==
    /\ caller = "grace" /\ Kill /\ caller' = "killed"
    /\ UNCHANGED <<nature, pipes, outcome, token, reaped, watcher>>
GraceWait ==
    /\ caller \in {"grace", "killed"} /\ leader = "zombie"
    /\ leader' = "reaped" /\ caller' = "marking"
    /\ UNCHANGED <<member, exit, termed, nature, pipes, outcome, token, reaped,
                   watcher, signalled>>
Mark ==
    /\ caller = "marking"
    /\ reaped' = TRUE /\ caller' = "draining"
    /\ UNCHANGED <<process, nature, pipes, outcome, token, watcher, signalled>>

\* wait joins both drains: they end when the pipes are closed.
Return ==
    /\ caller = "draining" /\ Closed /\ out = 0 /\ err = 0
    /\ caller' = "returned"
    /\ UNCHANGED <<process, nature, pipes, outcome, token, reaped, watcher, signalled>>

\* The task is aborted: Drop kills the group unless it is marked reaped.
\* Slip: TERM instead of KILL, and nobody waits for it.
DropTerm ==
    /\ caller \notin Over
    /\ caller' = "dropped" /\ reaped' = TRUE
    /\ IF reaped THEN UNCHANGED <<process, signalled>> ELSE Term
    /\ UNCHANGED <<nature, pipes, outcome, token, watcher>>

Drop ==
    /\ caller \notin Over
    /\ caller' = "dropped" /\ reaped' = TRUE
    /\ IF reaped THEN UNCHANGED <<process, signalled>> ELSE Kill
    /\ UNCHANGED <<nature, pipes, outcome, token, watcher>>

-----------------------------------------------------------------------------
(* The watcher and the token.                                              *)

Cancel ==
    /\ ~token /\ token' = TRUE
    /\ UNCHANGED <<process, nature, pipes, caller, outcome, reaped, watcher, signalled>>

Watch(from, to) ==
    /\ watcher = from /\ watcher' = to
    /\ UNCHANGED <<process, nature, pipes, caller, outcome, token, reaped, signalled>>

WatcherWakes == token /\ Watch("waiting", "check")
WatcherChecks == \/ Watch("check", IF reaped THEN "done" ELSE "term")
                 \/ Watch("recheck", IF reaped THEN "done" ELSE "kill")
WatcherSleeps == Watch("sleep", "recheck")
\* Slip: the watcher stops after TERM.
WatcherTermsOnly ==
    /\ watcher = "term" /\ watcher' = "done" /\ Term
    /\ UNCHANGED <<nature, pipes, caller, outcome, token, reaped>>

WatcherTerms ==
    /\ watcher = "term" /\ watcher' = "sleep" /\ Term
    /\ UNCHANGED <<nature, pipes, caller, outcome, token, reaped>>
WatcherKills ==
    /\ watcher = "kill" /\ watcher' = "done" /\ Kill
    /\ UNCHANGED <<nature, pipes, caller, outcome, token, reaped>>

-----------------------------------------------------------------------------
Init ==
    /\ leader = "running" /\ exit = "none" /\ termed = {}
    /\ member \in {"running", "gone"}
    /\ ignores \in SUBSET Processes /\ hangs \in SUBSET Processes
    /\ holds \in BOOLEAN /\ streaming \in BOOLEAN
    /\ outLeft = MaxOut /\ errLeft = MaxErr /\ out = 0 /\ err = 0
    /\ caller = IF streaming THEN "streaming" ELSE "polling"
    /\ outcome = "none" /\ token = FALSE /\ reaped = FALSE
    /\ watcher = "waiting" /\ signalled = FALSE

Ending == Exits \/ LeaderObeys \/ MemberExits \/ MemberObeys
Caller == \/ ReadOut \/ ReadErr \/ EndOfStdout \/ TryWait \/ CheckToken \/ Deadline
          \/ SeesToken \/ GraceOver \/ GraceWait \/ Mark \/ Return
Watcher == WatcherWakes \/ WatcherChecks \/ WatcherTerms \/ WatcherSleeps \/ WatcherKills

Next == Write \/ Ending \/ Caller \/ Drop \/ Cancel \/ Watcher

Spec == Init /\ [][Next]_vars

\* A process runs until it blocks or hangs and obeys TERM unless it ignores
\* it; the runtime schedules the caller, its drains and the watcher, and
\* their timers fire.
Fairness ==
    /\ WF_vars(Write) /\ WF_vars(Exits) /\ WF_vars(LeaderObeys)
    /\ WF_vars(MemberExits) /\ WF_vars(MemberObeys)
    /\ WF_vars(ReadOut) /\ WF_vars(ReadErr) /\ WF_vars(EndOfStdout)
    /\ WF_vars(TryWait \/ Deadline \/ SeesToken) /\ WF_vars(CheckToken)
    /\ WF_vars(GraceOver \/ GraceWait) /\ WF_vars(Mark) /\ WF_vars(Return)
    /\ WF_vars(Watcher)

FairSpec == Spec /\ Fairness

-----------------------------------------------------------------------------
(* Properties.                                                             *)

\* A run that was interfered with is never reported as a success or as a
\* failure of its own: when wait returns an exit code, no signal was ever
\* sent, although the watcher signals on its own and a shell may turn TERM
\* into exit code 0 (await_outcome signalled the leader reaped before it looks at
\* the token).
ExitCodeMeansUndisturbed ==
    outcome \in {"ok", "err"} /\ caller \in {"draining", "returned"} => ~signalled

\* The task never leaves the leader behind: whether it returns, times out, is
\* cancelled or is aborted anywhere in the ladder, the leader is dead.
LeaderNeverOutlivesTheTask == caller \in Over => leader # "running"

\* A member that keeps the pipes open for ever, unless it is signalled.
KeepsPipes == holds /\ "member" \in hangs

\* Every call ends: when it is cancelled, in whatever state the ladder of the
\* watcher and the ladder of the caller meet; and Cmd::run without that, by
\* its deadline ("Every call has a deadline"), however its leader behaves.
\* (Cmd::run may not if a member keeps the pipes: once the leader is marked
\* reaped the watcher spares the group, and wait joins the drains without a
\* deadline.)
CallsEnd ==
    /\ token /\ (streaming \/ ~KeepsPipes) ~> caller \in Over
    /\ ~streaming /\ ~KeepsPipes ~> caller \in Over
=============================================================================
