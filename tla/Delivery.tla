------------------------------ MODULE Delivery ------------------------------
(***************************************************************************)
(* The iteration loop (loop.py, phases.py, controller.py, recovery.py):    *)
(* "lab-agent continue" runs one iteration (run_once), "lab-agent run"     *)
(* runs many (run_loop), under the same lock.  An iteration reconciles     *)
(* what an earlier one left, prepares the checkout, lets the agent work,   *)
(* verifies, runs local CI, commits, pushes and waits for GitHub Actions.  *)
(* Work that was not delivered stays in the checkout and is recorded in    *)
(* state/<project>/current.json as a pending recovery.                     *)
(*                                                                         *)
(* The process may die at any step.  The operator may change the checkout  *)
(* at any time.                                                            *)
(***************************************************************************)
EXTENDS Checkout

CONSTANTS MaxIterations,  \* --max-iterations of run_loop
          MaxRollovers,   \* --max-rollovers of run_loop
          MaxFailures,    \* max_consecutive_failures
          MaxNoProgress,  \* max_consecutive_no_progress
          MaxRounds,      \* rounds of _resolve_execution
          MaxStarts       \* bound: times a controller is started

ASSUME DeliveryAssumption ==
  /\ MaxIterations \in Nat \ {0} /\ MaxRollovers \in Nat
  /\ MaxFailures \in Nat \ {0} /\ MaxNoProgress \in Nat \ {0}
  /\ MaxRounds \in Nat \ {0} /\ MaxStarts \in Nat

VARIABLES
  saved,      \* state/<project>/current.json, None before the first run
  pc,         \* where the process is; "idle" when there is none
  kind,       \* "once" or "loop"
  state,      \* the AgentState in memory
  before,     \* before_git
  after,      \* the tree the verifier saw
  rounds,     \* executions so far in _resolve_execution
  rollover,   \* where the rollover in progress was asked for
  reference   \* the tree it will be compared with

(* Auxiliary: what happened so far, read by no action. *)
VARIABLES
  starts,       \* controllers started
  written,      \* changes the agent has written, 1..written
  ops,          \* changes of the operator
  own,          \* files the operator added while no controller ran
  undone,       \* changes the operator restored
  validated,    \* changes that were in the checkout when local CI passed
  failed,       \* the last event of the checkout is a local CI failure of this kind
  interrupted   \* changes observed by an iteration that died and was first to fail

process == <<pc, kind, state, before, after, rounds, rollover, reference>>
auxiliary == <<starts, written, ops, own, undone, validated, failed,
               interrupted>>
vars == <<checkout, saved, process, auxiliary>>

RunState == {"IDLE", "STARTING", "WORKING", "ITERATION_SUCCEEDED", "ROLLOVER",
             "BLOCKED", "STOPPED", "COMPLETED", "ERROR"}

(* The fields of AgentState that a decision reads. *)
AgentState ==
  [state : RunState,
   iteration : 0..MaxIterations,
   rollover_count : 0..MaxRollovers,
   consecutive_failures : 0..MaxFailures,
   consecutive_no_progress : 0..MaxNoProgress,
   branch_name : 1..MaxRuns,
   pending_ci_fix : BOOLEAN,
   pending_ci_baseline_untracked : SUBSET Change,
   pending_ci_worktree_fingerprint : Tree \cup {None},
   last_commit_sha : Sha \cup {None},
   last_ci_ok : BOOLEAN,                      \* "success=True" in last_ci_result
   iteration_started_sha : Sha \cup {None},
   iteration_baseline : Tree \cup {None},     \* fingerprint and untracked paths
   iteration_observed : Tree \cup {None},
   execution_requested : BOOLEAN]

ASSUME NoStateAssumption == None \notin AgentState /\ None \notin {"once", "loop"}

Place == {"idle", "attach", "iterate", "reconcile", "revalidate", "interrupted",
          "prepare", "ask", "observe", "verify", "ci", "commit", "push", "remote",
          "delivered", "resume"}

TypeOK ==
  /\ CheckoutTypeOK
  /\ saved \in AgentState \cup {None}
  /\ pc \in Place
  /\ kind \in {"once", "loop", None}
  /\ state \in AgentState \cup {None}
  /\ before \in [head : Sha, upstream : Sha, tree : Tree] \cup {None}
  /\ after \in Tree \cup {None}
  /\ rounds \in 0..MaxRounds
  /\ rollover \in {"attach", "iteration", "handler", "scheduled", None}
  /\ reference \in Tree \cup {None}
  /\ starts \in 0..MaxStarts
  /\ written \in 0..MaxChanges
  /\ ops \in 0..MaxOps
  /\ own \in SUBSET Operator
  /\ undone \in SUBSET Change
  /\ validated \in SUBSET Change
  /\ failed \in {"once", "loop", None}
  /\ interrupted \in SUBSET Agent

Init ==
  /\ CheckoutInit
  /\ saved = None
  /\ pc = "idle" /\ kind = None /\ state = None
  /\ before = None /\ after = None /\ rounds = 0
  /\ rollover = None /\ reference = None
  /\ starts = 0 /\ written = 0 /\ ops = 0
  /\ own = {} /\ undone = {} /\ validated = {}
  /\ failed = None /\ interrupted = {}

(***************************************************************************)
(* Changes of the state record.                                            *)
(***************************************************************************)
NewState(b) ==
  [state |-> "IDLE", iteration |-> 0, rollover_count |-> 0,
   consecutive_failures |-> 0, consecutive_no_progress |-> 0, branch_name |-> b,
   pending_ci_fix |-> FALSE, pending_ci_baseline_untracked |-> {},
   pending_ci_worktree_fingerprint |-> None, last_commit_sha |-> None,
   last_ci_ok |-> FALSE, iteration_started_sha |-> None,
   iteration_baseline |-> None, iteration_observed |-> None,
   execution_requested |-> FALSE]

Cleared(s) ==
  [s EXCEPT !.pending_ci_fix = FALSE, !.pending_ci_baseline_untracked = {},
            !.pending_ci_worktree_fingerprint = None]

\* Mutant: every untracked file counts as the agent's.
RecordDirtyAsAllOurs(s, baseline, tree) ==
  [s EXCEPT !.pending_ci_fix = TRUE, !.pending_ci_baseline_untracked = {},
            !.pending_ci_worktree_fingerprint = tree]

RecordDirty(s, baseline, tree) ==
  [s EXCEPT !.pending_ci_fix = TRUE,
            !.pending_ci_baseline_untracked = baseline.files,
            !.pending_ci_worktree_fingerprint = tree]

MarkFailure(s) ==
  [s EXCEPT !.state = "ERROR", !.consecutive_failures = @ + 1]

MarkNoProgress(s) ==
  [s EXCEPT !.state = "ERROR", !.consecutive_no_progress = @ + 1]

To(s, run_state) == [s EXCEPT !.state = run_state]

\* Mutant: a stale state is forgotten with its evidence.
PrepareStateFromScratch ==
  {NewState(IF saved = None THEN 1 ELSE saved.branch_name)}

(* _prepare_state(recover=True).  A run id is new when no branch has it. *)
PrepareState ==
  IF saved = None THEN {NewState(1)}
  ELSE IF saved.state \in {"COMPLETED", "BLOCKED"}
  THEN {[Cleared(saved) EXCEPT !.state = "IDLE", !.branch_name = b, !.iteration = 0,
           !.rollover_count = 0, !.consecutive_failures = 0,
           !.consecutive_no_progress = 0, !.last_ci_ok = FALSE]
        : b \in {c \in 1..MaxRuns : c = saved.branch_name + 1}}
  ELSE IF saved.state \in {"STOPPED", "ERROR"}
  THEN {[saved EXCEPT !.state = "IDLE", !.consecutive_failures = 0,
           !.consecutive_no_progress = 0]}
  ELSE {To(saved, "IDLE")}

\* Mutant: the number of iterations is not limited.
WithinLimitsOfFailure(s) ==
  /\ s.rollover_count < MaxRollovers
  /\ s.consecutive_failures < MaxFailures
  /\ s.consecutive_no_progress < MaxNoProgress

WithinLimits(s) ==
  /\ s.iteration < MaxIterations
  /\ s.rollover_count < MaxRollovers
  /\ s.consecutive_failures < MaxFailures
  /\ s.consecutive_no_progress < MaxNoProgress

Begun(s) ==
  [s EXCEPT !.state = "WORKING",
            !.iteration = IF @ < MaxIterations THEN @ + 1 ELSE @]

StartIteration(s, baseline) ==
  [s EXCEPT !.iteration_started_sha = HeadOf(local'[branch']),
            !.iteration_baseline = baseline, !.iteration_observed = None,
            !.execution_requested = FALSE]

(***************************************************************************)
(* Where the process goes.                                                 *)
(***************************************************************************)
Go(place, s) ==
  /\ pc' = place /\ state' = s
  /\ UNCHANGED <<kind, before, after, rounds, rollover, reference>>

NextIteration(s) ==
  /\ pc' = "iterate" /\ state' = s
  /\ before' = None /\ after' = None /\ rounds' = 0
  /\ rollover' = None /\ reference' = None
  /\ UNCHANGED kind

End(s) ==
  /\ saved' = s
  /\ pc' = "idle" /\ kind' = None /\ state' = None
  /\ before' = None /\ after' = None /\ rounds' = 0
  /\ rollover' = None /\ reference' = None

SaveAndGo(place, s) == saved' = s /\ Go(place, s)
SaveAndIterate(s) == saved' = s /\ NextIteration(s)

(* An exception no handler of the iteration catches: what was saved is reloaded. *)
OuterException ==
  End(IF /\ saved # None
         /\ saved.state \in {"WORKING", "STARTING", "ROLLOVER"}
                              \cup IF kind = "loop" THEN {"ITERATION_SUCCEEDED"} ELSE {}
      THEN MarkFailure(saved) ELSE saved)

(* A failure of the loop's iteration that is counted. *)
FailLoop(s) ==
  LET counted == MarkFailure(s)
  IN  IF counted.consecutive_failures >= MaxFailures
      THEN End(To(counted, "STOPPED")) ELSE SaveAndIterate(counted)

StopLoop(s) == kind = "loop" /\ End(To(s, "STOPPED"))

(* The end of an iteration that failed, in either mode. *)
Fail(s) == IF kind = "once" THEN End(MarkFailure(s)) ELSE FailLoop(s)

(* What an exception handler records first: the checkout, if it changed. *)
Dirtied(tree) ==
  IF before # None /\ tree # before.tree
  THEN RecordDirty(state, before.tree, tree) ELSE state

(***************************************************************************)
(* Start of a run, and the browser.                                        *)
(***************************************************************************)
Start(k) ==
  /\ pc = "idle"
  /\ starts < MaxStarts
  /\ starts' = starts + 1
  /\ \E s \in PrepareState :
       LET started == To(s, "STARTING")
       IN  \/ /\ k = "once"
              /\ pc' = "reconcile"
              /\ state' = IF WithinLimits([s EXCEPT !.iteration = 0])
                          THEN Begun(s) ELSE To(s, "STOPPED")
              /\ UNCHANGED saved
           \/ /\ k = "loop"
              /\ pc' = "attach" /\ state' = started /\ saved' = started
  /\ kind' = k
  /\ UNCHANGED <<checkout, before, after, rounds, rollover, reference,
                 written, ops, own, undone, validated, failed, interrupted>>

(* The conversation is usable and, when one is configured, in its Project. *)
Attach ==
  /\ pc = "attach"
  /\ IF kind = "loop" THEN NextIteration(state)
     ELSE /\ pc' = "ask" /\ rollover' = None /\ reference' = None
          /\ UNCHANGED <<kind, state, before, after, rounds>>
  /\ UNCHANGED <<checkout, saved, auxiliary>>

(* It is in another Project. *)
AttachBlocked ==
  /\ pc = "attach"
  /\ End(To(state, "BLOCKED"))
  /\ UNCHANGED <<checkout, auxiliary>>

AttachFails ==
  /\ pc = "attach"
  /\ OuterException
  /\ UNCHANGED <<checkout, auxiliary>>

(***************************************************************************)
(* Rollover to a fresh conversation: asked for by the page when a run      *)
(* attaches or an iteration begins, by an exception handler, or by the     *)
(* schedule after a delivery.  The fresh conversation's answer is resolved *)
(* like any other, but its executions are not observed in the state.       *)
(***************************************************************************)
\* Mutant: the limit of rollovers is not looked at.
RollOverAgain(why, baseline, s) ==
  /\ pc' = "resume"
  /\ state' = [To(s, "ROLLOVER") EXCEPT !.rollover_count = @ + 1]
  /\ rollover' = why
  /\ reference' = baseline
  /\ UNCHANGED <<saved, kind, before, after, rounds>>

RollOver(why, baseline, s) ==
  /\ s.rollover_count < MaxRollovers
  /\ pc' = "resume"
  /\ state' = [To(s, "ROLLOVER") EXCEPT !.rollover_count = @ + 1]
  /\ rollover' = why
  /\ reference' = baseline
  /\ UNCHANGED <<saved, kind, before, after, rounds>>

RolloverLimitReached == state.rollover_count >= MaxRollovers

RolloverAtAttach ==
  /\ pc = "attach" /\ rollover = None
  /\ \/ RollOver("attach", Fingerprint, state)
     \/ RolloverLimitReached /\ kind = "once" /\ OuterException
     \/ RolloverLimitReached /\ StopLoop(state)
  /\ UNCHANGED <<checkout, auxiliary>>

RolloverInIteration ==
  /\ pc = "ask" /\ rounds = 0 /\ kind = "loop"
  /\ \/ RollOver("iteration", before.tree, state)
     \/ RolloverLimitReached /\ StopLoop(Dirtied(Fingerprint))
  /\ UNCHANGED <<checkout, auxiliary>>

(* After rollover_after_iterations iterations or a long response. *)
ScheduledRollover ==
  /\ pc = "delivered"
  /\ \/ RollOver("scheduled", Fingerprint, state)
     \/ RolloverLimitReached /\ StopLoop(state)
  /\ UNCHANGED <<checkout, auxiliary>>

(* An exception while the browser is in use. *)
LoopException(s) ==
  \/ FailLoop(s)
  \/ StopLoop(s)                                  \* DeadlineReached
  \/ SaveAndIterate(s)                            \* the browser was reconnected
  \/ RollOver("handler", before.tree, s)          \* maximum length reached

AgentWrites ==
  /\ written < MaxChanges
  /\ Write(written + 1)
  /\ written' = written + 1
  /\ failed' = None /\ interrupted' = {}
  /\ UNCHANGED <<starts, ops, own, undone, validated>>

AgentMayWrite == AgentWrites \/ UNCHANGED <<checkout, auxiliary>>

(* The last answer of the exchange requests nothing. *)
Resume ==
  /\ pc = "resume"
  /\ AgentMayWrite
  /\ LET s == IF Fingerprint' # reference
              THEN RecordDirty(state, reference, Fingerprint') ELSE state
     IN  IF rollover = "attach" THEN SaveAndGo("attach", s) ELSE SaveAndIterate(s)

ResumeFails ==
  /\ pc = "resume"
  /\ AgentMayWrite
  /\ CASE rollover = "attach"    -> OuterException
       [] rollover = "iteration" -> LoopException(Dirtied(Fingerprint'))
       [] rollover = "handler"   -> LoopException(state)
       [] rollover = "scheduled" -> End(To(state, "BLOCKED"))

(***************************************************************************)
(* Begin of an iteration: limits, then what an earlier one left.           *)
(***************************************************************************)
BeginIteration ==
  /\ pc = "iterate"
  /\ WithinLimits(state)
  /\ Go("reconcile", Begun(state))
  /\ UNCHANGED <<checkout, saved, auxiliary>>

(* A limit, or the deadline. *)
StopAtLimit ==
  /\ pc = "iterate"
  /\ StopLoop(state)
  /\ UNCHANGED <<checkout, auxiliary>>

(* migrate_legacy: a pending recovery without a fingerprint.  can_clear_legacy_dirty_recovery
   (git_gate.py 343) takes the listing for one record, so that it accepts it when its first
   line is of an untracked file; Git lists tracked changes first. *)
Migrated(s) ==
  IF ~s.pending_ci_fix \/ s.pending_ci_worktree_fingerprint # None
     \/ ~(files \subseteq s.pending_ci_baseline_untracked) THEN s
  ELSE IF edits = {} THEN Cleared(s)
  ELSE IF s.last_ci_ok THEN [s EXCEPT !.pending_ci_worktree_fingerprint = Fingerprint]
  ELSE s

(* reconcile_committed, up to the new validation. *)
Delivered(s) ==
  /\ s.pending_ci_fix /\ s.last_commit_sha # None
  /\ IsAncestor(s.last_commit_sha)
  /\ IF HeadOf(local[branch]) = s.last_commit_sha
     THEN Snapshot.upstream = s.last_commit_sha
     ELSE HeadOf(main) = s.last_commit_sha
  /\ edits = {}

AfterReconcile == IF kind = "once" THEN "interrupted" ELSE "prepare"

(* reconcile_worktree_fingerprint, which comes between, finds nothing: it looks for
   last_response.md under the project's name in state/<project>, where the loop does
   not write it (loop.py 344, recovery.py 223). *)
Reconcile ==
  /\ pc = "reconcile"
  /\ LET s == Migrated(state)
     IN  Go(IF Delivered(s) THEN "revalidate" ELSE AfterReconcile, s)
  /\ UNCHANGED <<checkout, saved, auxiliary>>

LocalCIPassed ==
  /\ validated' = validated \cup edits \cup files
  /\ UNCHANGED <<starts, written, ops, own, undone, interrupted>>

Revalidate ==
  /\ pc = "revalidate"
  /\ \/ /\ Go(AfterReconcile, [Cleared(state) EXCEPT !.last_ci_ok = TRUE])
        /\ LocalCIPassed /\ UNCHANGED failed
     \/ /\ Go(AfterReconcile, [state EXCEPT !.last_ci_ok = FALSE])
        /\ UNCHANGED auxiliary
  /\ UNCHANGED <<checkout, saved>>

(* Any call of the reconciliation or of the preflight raises. *)
PreflightFails ==
  /\ pc \in {"reconcile", "revalidate", "interrupted", "prepare"}
  /\ IF kind = "once" THEN OuterException ELSE FailLoop(state)
  /\ UNCHANGED <<checkout, auxiliary>>

(* reconcile_clean_pushed_descendant. *)
PushedDescendant(s) ==
  IF /\ s.pending_ci_fix /\ s.iteration_started_sha # None
     /\ Fingerprint = EmptyTree
     /\ IsAncestor(s.iteration_started_sha)
     /\ HeadOf(main) = HeadOf(local[branch])
     /\ Cardinality({c \in local[branch] : c > s.iteration_started_sha}) = 1
  THEN Cleared(s) ELSE s

(***************************************************************************)
(* recover_interrupted_iteration: what is known of an iteration that was   *)
(* recorded as begun.  With a persisted observation the checkout must      *)
(* still be as observed.  Without one, _recover_legacy_execution_evidence  *)
(* asks for last_response.md as above and gives up.                        *)
(***************************************************************************)
Observed(s) ==
  /\ s.iteration_baseline # None /\ s.iteration_observed # None
  /\ s.execution_requested

InterruptedConflict ==
  /\ pc = "interrupted"
  /\ LET s == PushedDescendant(state)
     IN  /\ ~s.pending_ci_fix /\ Observed(s)
         /\ s.iteration_observed # Fingerprint
         /\ End(IF s.state = "WORKING" THEN MarkFailure(s) ELSE s)
  /\ UNCHANGED <<checkout, auxiliary>>

RecoverInterrupted ==
  /\ pc = "interrupted"
  /\ LET s == PushedDescendant(state)
     IN  \/ /\ s.pending_ci_fix \/ ~Observed(s)
            /\ Go("prepare", s) /\ UNCHANGED saved
         \/ /\ ~s.pending_ci_fix /\ Observed(s)
            /\ s.iteration_observed = Fingerprint
            /\ SaveAndGo("prepare",
                 IF Fingerprint = s.iteration_baseline THEN s
                 ELSE RecordDirty(s, s.iteration_baseline, Fingerprint))
  /\ UNCHANGED <<checkout, auxiliary>>

(***************************************************************************)
(* The preflight, and the start of the iteration proper.                   *)
(***************************************************************************)
PreflightRefused ==
  IF kind = "once" THEN OuterException ELSE FailLoop(state)

RefuseRecovery ==
  /\ pc = "prepare" /\ state.pending_ci_fix
  /\ RecoveryMismatch(state.pending_ci_worktree_fingerprint)
  /\ PreflightRefused
  /\ UNCHANGED <<checkout, auxiliary>>

RefuseTrackedChanges ==
  /\ pc = "prepare" /\ ~state.pending_ci_fix
  /\ edits # {}
  /\ PreflightRefused
  /\ UNCHANGED <<checkout, auxiliary>>

Accepted ==
  IF state.pending_ci_fix
  THEN ~RecoveryMismatch(state.pending_ci_worktree_fingerprint)
  ELSE edits = {}

RefuseSync ==
  /\ pc = "prepare" /\ Accepted
  /\ SyncRefused(state.branch_name, state.pending_ci_fix)
  /\ FetchOnly
  /\ PreflightRefused
  /\ UNCHANGED auxiliary

(* prepare_repository returns; the snapshot; start_iteration.  Only run_once
   records the baseline, and saves. *)
Prepare ==
  /\ pc = "prepare" /\ Accepted
  /\ ~SyncRefused(state.branch_name, state.pending_ci_fix)
  /\ Synchronize(state.branch_name)
  /\ before' = Snapshot'
  /\ IF kind = "once"
     THEN /\ pc' = "attach"
          /\ state' = StartIteration(state, Fingerprint)
          /\ saved' = state'
     ELSE /\ pc' = "ask"
          /\ state' = StartIteration(state, None)
          /\ UNCHANGED saved
  /\ interrupted' = {}
  /\ UNCHANGED <<kind, after, rounds, rollover, reference,
                 starts, written, ops, own, undone, validated, failed>>

(***************************************************************************)
(* The agent's turn: _resolve_execution applies what an answer requests,   *)
(* observes the checkout, saves, and sends the result, until an answer     *)
(* requests nothing.  Execution is enabled, so the first answer must       *)
(* request some.                                                           *)
(***************************************************************************)
Execute ==
  /\ pc = "ask" /\ rounds < MaxRounds
  /\ AgentMayWrite
  /\ Go("observe", state)
  /\ UNCHANGED saved

Observe ==
  /\ pc = "observe"
  /\ pc' = "ask"
  /\ state' = [state EXCEPT !.execution_requested = TRUE,
                            !.iteration_observed = Fingerprint]
  /\ saved' = state'
  /\ rounds' = rounds + 1
  /\ UNCHANGED <<checkout, kind, before, after, rollover, reference, auxiliary>>

(* LABOS_DONE after an execution. *)
Done ==
  /\ pc = "ask" /\ rounds > 0
  /\ Go("verify", state)
  /\ UNCHANGED <<checkout, saved, auxiliary>>

(* run_once does not look at the checkout when its first message fails. *)
AskFails ==
  /\ pc = "ask" /\ rounds = 0 /\ kind = "once"
  /\ End(MarkFailure(state))
  /\ UNCHANGED <<checkout, auxiliary>>

(* An exchange that does not complete, for an exception, too many rounds or
   DONE without an execution. *)
ResolveFails ==
  /\ pc \in {"ask", "observe"}
  /\ IF kind = "once" THEN End(MarkFailure(Dirtied(Fingerprint)))
     ELSE LoopException(Dirtied(Fingerprint))
  /\ UNCHANGED <<checkout, auxiliary>>

(***************************************************************************)
(* Verification and local CI.                                              *)
(***************************************************************************)
NoProgress ==
  LET s == MarkNoProgress(state)
  IN  IF kind = "loop" /\ s.consecutive_no_progress < MaxNoProgress
      THEN SaveAndIterate(s)
      ELSE End(IF s.consecutive_no_progress >= MaxNoProgress THEN To(s, "STOPPED") ELSE s)

\* Mutant: recovered work is taken for validated.
VerifyTrustingRecovery ==
  /\ pc = "verify"
  /\ \/ ~state.pending_ci_fix /\ NoProgress
     \/ /\ Fingerprint # before.tree \/ state.pending_ci_fix
        /\ pc' = IF state.pending_ci_fix THEN "commit" ELSE "ci"
        /\ after' = Fingerprint
        /\ UNCHANGED <<saved, kind, state, before, rounds, rollover, reference>>
  /\ UNCHANGED <<checkout, auxiliary>>

(* Which paths are meaningful is left open. *)
Verify ==
  /\ pc = "verify"
  /\ \/ ~state.pending_ci_fix /\ NoProgress
     \/ /\ Fingerprint # before.tree \/ state.pending_ci_fix
        /\ pc' = "ci" /\ after' = Fingerprint
        /\ UNCHANGED <<saved, kind, state, before, rounds, rollover, reference>>
  /\ UNCHANGED <<checkout, auxiliary>>

\* Mutant: run_once keeps the fingerprint that was there, too.
CIFailsUnfingerprinted ==
  /\ pc = "ci"
  /\ Fail([RecordDirty(state, before.tree, state.pending_ci_worktree_fingerprint)
           EXCEPT !.last_ci_ok = FALSE])
  /\ failed' = IF Fingerprint = after /\ after # EmptyTree THEN kind ELSE None
  /\ UNCHANGED <<checkout, starts, written, ops, own, undone, validated,
                 interrupted>>

(* The loop keeps the fingerprint that was there, run_once records the
   verified one. *)
CIFails ==
  /\ pc = "ci"
  /\ Fail([RecordDirty(state, before.tree,
             IF kind = "once" THEN after ELSE state.pending_ci_worktree_fingerprint)
           EXCEPT !.last_ci_ok = FALSE])
  /\ failed' = IF Fingerprint = after /\ after # EmptyTree THEN kind ELSE None
  /\ UNCHANGED <<checkout, starts, written, ops, own, undone, validated, interrupted>>

(* A call of the verification or of local CI raises, or the deadline leaves
   local CI no time. *)
VerificationRaises ==
  /\ pc \in {"verify", "ci"}
  /\ \/ Fail(Dirtied(Fingerprint))
     \/ StopLoop(Dirtied(Fingerprint))
  /\ UNCHANGED <<checkout, auxiliary>>

DeadlineBeforeCI ==
  /\ pc = "ci"
  /\ StopLoop(RecordDirty(state, before.tree, Fingerprint))
  /\ UNCHANGED <<checkout, auxiliary>>

CIPasses ==
  /\ pc = "ci"
  /\ Go("commit", [state EXCEPT !.last_ci_ok = TRUE])
  /\ LocalCIPassed /\ failed' = None
  /\ UNCHANGED <<checkout, saved>>

(* mark_dirty_recovery is called without the project: it takes the fingerprint
   of the controller's working directory, which is that of no checkout a
   recovery can resume, or fails there. *)
ElsewhereTree == EmptyTree

DeadlineBeforeCommit ==
  /\ pc = "commit" /\ kind = "loop"
  /\ \/ StopLoop(RecordDirty(state, before.tree, ElsewhereTree))
     \/ FailLoop(Dirtied(Fingerprint))
  /\ UNCHANGED <<checkout, auxiliary>>

(***************************************************************************)
(* commit_and_push.                                                        *)
(***************************************************************************)
Baseline ==
  IF state.pending_ci_fix THEN state.pending_ci_baseline_untracked ELSE before.tree.files

Commit ==
  /\ pc = "commit"
  /\ CommitAll(Baseline)
  /\ Go("push", state)
  /\ failed' = None
  /\ UNCHANGED <<saved, starts, written, ops, own, undone, validated,
                 interrupted>>

NothingStaged ==
  /\ pc = "commit"
  /\ Staged(Baseline) = EmptyTree
  /\ Fail(RecordDirty(state, before.tree, Fingerprint))
  /\ UNCHANGED <<checkout, auxiliary>>

(* run_once records the checkout after any exception of the delivery, the
   loop's handler only when it changed. *)
DeliveryException ==
  Fail(IF kind = "once" THEN RecordDirty(state, before.tree, Fingerprint)
       ELSE Dirtied(Fingerprint))

CommitFails ==
  /\ pc = "commit"
  /\ DeliveryException
  /\ UNCHANGED <<checkout, auxiliary>>

\* Mutant: a GitHub that does not answer is taken for a confirmation.
ConfirmedByAnyAnswer(ls_remote, b, history) ==
  ls_remote = "answers" => history[b] = local[b]

Confirmed(ls_remote, b, history) ==
  ls_remote = "answers" /\ history[b] = local[b]

(* accepted: GitHub takes the push, whatever git reports; ls_remote: what the
   question that follows brings. *)
PushDelivered(accepted, ls_remote) ==
  LET b == state.branch_name
  IN  /\ pushed' = AfterPush(b, accepted)
      /\ Confirmed(ls_remote, b, pushed')
      /\ Go("remote", [state EXCEPT !.last_commit_sha = HeadOf(local[b])])
      /\ UNCHANGED <<saved, edits, files, local>>

PushRolledBack(accepted, ls_remote) ==
  LET b == state.branch_name
  IN  /\ pushed' = AfterPush(b, accepted)
      /\ ls_remote # "raises" /\ ~Confirmed(ls_remote, b, pushed')
      /\ ResetMixed
      /\ Fail(RecordDirty(state, before.tree, Fingerprint'))

PushUnknown(accepted, ls_remote) ==
  /\ pushed' = AfterPush(state.branch_name, accepted)
  /\ ls_remote = "raises"
  /\ DeliveryException
  /\ UNCHANGED <<edits, files, local>>

Push ==
  /\ pc = "push"
  /\ \E accepted \in {CanPush(state.branch_name), FALSE},
        ls_remote \in {"answers", "silent", "raises"} :
       \/ PushDelivered(accepted, ls_remote)
       \/ PushRolledBack(accepted, ls_remote)
       \/ PushUnknown(accepted, ls_remote)
  /\ UNCHANGED <<branch, main, origin_main, content, auxiliary>>

(***************************************************************************)
(* GitHub Actions for the pushed commit, and the end of the iteration.     *)
(***************************************************************************)
Succeeded(run_state) ==
  [Cleared(state) EXCEPT !.state = run_state, !.consecutive_failures = 0,
     !.consecutive_no_progress = 0, !.execution_requested = FALSE]

RemotePasses ==
  /\ pc = "remote"
  /\ IF kind = "once" THEN End(Succeeded("COMPLETED"))
     ELSE SaveAndGo("delivered", Succeeded("ITERATION_SUCCEEDED"))
  /\ UNCHANGED <<checkout, auxiliary>>

(* A failed run, or none that completed in time. *)
RemoteFails ==
  /\ pc = "remote"
  /\ Fail(state)
  /\ UNCHANGED <<checkout, auxiliary>>

RemoteRaises ==
  /\ pc = "remote"
  /\ DeliveryException
  /\ UNCHANGED <<checkout, auxiliary>>

KeepConversation ==
  /\ pc = "delivered"
  /\ NextIteration(state)
  /\ UNCHANGED <<checkout, saved, auxiliary>>

(***************************************************************************)
(* Death of the process, and the operator.                                 *)
(***************************************************************************)
Crash ==
  /\ pc # "idle"
  /\ End(saved)
  /\ interrupted' =
       IF /\ kind = "once" /\ pc \in {"ask", "verify", "ci"} /\ rounds > 0
          /\ ~saved.pending_ci_fix /\ saved.iteration_observed = Fingerprint
       THEN (Agent \cap Changes(Fingerprint)) \ Changes(before.tree)
       ELSE interrupted
  /\ UNCHANGED <<checkout, starts, written, ops, own, undone, validated,
                 failed>>

OperatorChanges ==
  LET change == MaxChanges + ops + 1
  IN  /\ ops < MaxOps
      /\ ops' = ops + 1
      /\ \/ /\ Write(change)
            /\ own' = IF pc = "idle" THEN own \cup (files' \ files) ELSE own
            /\ UNCHANGED undone
         \/ Restore /\ undone' = undone \cup edits /\ UNCHANGED own
      /\ failed' = None /\ interrupted' = {}
      /\ UNCHANGED <<saved, process, starts, written, validated>>

OperatorMerges == Merge /\ UNCHANGED <<saved, process, auxiliary>>

Work ==
  \/ Attach \/ AttachBlocked \/ AttachFails
  \/ RolloverAtAttach \/ RolloverInIteration \/ ScheduledRollover
  \/ Resume \/ ResumeFails
  \/ BeginIteration \/ StopAtLimit
  \/ Reconcile \/ Revalidate \/ PreflightFails
  \/ InterruptedConflict \/ RecoverInterrupted
  \/ RefuseRecovery \/ RefuseTrackedChanges \/ RefuseSync \/ Prepare
  \/ Execute \/ Observe \/ Done \/ AskFails \/ ResolveFails
  \/ Verify \/ VerificationRaises \/ CIFails \/ CIPasses
  \/ DeadlineBeforeCI \/ DeadlineBeforeCommit
  \/ Commit \/ NothingStaged \/ CommitFails \/ Push
  \/ RemotePasses \/ RemoteFails \/ RemoteRaises \/ KeepConversation

Next ==
  \/ \E k \in {"once", "loop"} : Start(k)
  \/ Work
  \/ Crash
  \/ OperatorChanges
  \/ OperatorMerges

Spec == Init /\ [][Next]_vars

FairSpec == Spec /\ WF_vars(Work)

(***************************************************************************)
(* Properties.                                                             *)
(***************************************************************************)
Everywhere ==
  Committed(main) \cup (UNION {Committed(local[b]) : b \in Branch})
    \cup (UNION {Committed(pushed[b]) : b \in {c \in Branch : pushed[c] # None}})

(* A file the operator left in the checkout while no controller ran is never
   committed, whatever failures, restarts and recoveries follow: every way a
   recovery is recorded must keep the file in the baseline that the commit
   leaves out (recovery.py 37, 49, 84, 162; git_gate.py 496). *)
OperatorFilesStay == own \cap Everywhere = {}

(* No change of the agent reaches GitHub that was not in the checkout when
   local CI passed, also when the change was made by an iteration that failed
   or died and is delivered by a later one. *)
PushedIsValidated ==
  \A b \in Branch :
    pushed[b] # None => Committed(pushed[b]) \cap Agent \subseteq validated

(* An iteration recorded as a success is on GitHub: a push whose confirmation
   does not come is not taken for a success (git_gate.py 516-531). *)
SuccessIsOnGitHub ==
  saved # None /\ saved.state \in {"COMPLETED", "ITERATION_SUCCEEDED"} =>
    /\ saved.last_commit_sha # None
    /\ pushed[saved.branch_name] # None
    /\ saved.last_commit_sha \in pushed[saved.branch_name]

(* What the agent wrote is in the checkout or in a commit, unless the operator
   restored it: a push that fails gives its commit's changes back, and no
   recovery, branch switch or death drops any (git_gate.py 523, 441-456). *)
NothingIsLost ==
  1..written \subseteq edits \cup files \cup undone \cup Everywhere

(* After local CI failed in run_once and nobody touched the checkout since, no
   later run finds that it was "changed outside LabOS" (git_gate.py 420-427,
   loop.py 554-560). *)
OnceFailureIsResumable ==
  pc = "prepare" /\ failed = "once" /\ state.pending_ci_fix =>
    ~RecoveryMismatch(state.pending_ci_worktree_fingerprint)

(* The same of both commands: README.md 92 promises that a later run can
   recover what a failed local CI left. *)
FailureIsResumable ==
  pc = "prepare" /\ failed # None /\ state.pending_ci_fix =>
    ~RecoveryMismatch(state.pending_ci_worktree_fingerprint)

(* What an iteration had written and observed when it died is taken up by the
   next run_once, if nothing was written since, and will be committed with it
   (README.md 94, recovery.py 58-80). *)
InterruptionIsResumed ==
  pc = "prepare" /\ kind = "once" /\ interrupted # {} =>
    /\ state.pending_ci_fix
    /\ state.pending_ci_worktree_fingerprint = Fingerprint
    /\ interrupted \subseteq edits \cup (files \ state.pending_ci_baseline_untracked)

(* Where a change of the agent is on its way to GitHub. *)
IsDelivered(x) == \E b \in Branch : pushed[b] # None /\ x \in Committed(pushed[b])

StageOf(x) ==
  IF IsDelivered(x) THEN "delivered"
  ELSE IF x \in undone THEN "restored"
  ELSE IF x \in validated THEN "validated"
  ELSE IF x \in 1..written THEN "written" ELSE "unwritten"

Promise == INSTANCE Contribution WITH
             Contributions <- Agent, stage <- [x \in Agent |-> StageOf(x)]

(* Whatever fails, dies and is taken up again, each change goes its way in order: it is
   delivered only after it was validated, never when the operator had taken it back, and
   nothing but the operator takes it back (loop.py 514-610, git_gate.py 516-531). *)
KeepsPromise == Promise!Spec

(* Every run ends, whatever the agent, the browser and GitHub do: each way
   around the loop is counted by some limit (safety.py 24-43). *)
EveryRunEnds == pc # "idle" ~> pc = "idle"
====
