----------------------------- MODULE Supervisor -----------------------------
(***************************************************************************)
(* ConversationSupervisor (supervisor.py): one process per project, under  *)
(* supervisor.lock, which prompts ChatGPT, checks what it answers against  *)
(* GitHub, waits for CI and advances the project through its lifecycle.    *)
(*                                                                         *)
(* A step of the process ends where the outside world can be seen to move  *)
(* or where a crash leaves a different disk: at every read of GitHub, git  *)
(* fetch, write of a file and message to the conversation.  The process    *)
(* may die at any step (a crash, a kill, or an exception that no branch    *)
(* handles) and is started again from what is on disk.                     *)
(***************************************************************************)
EXTENDS GitHub, ResponseProtocol

CONSTANTS Responses,      \* the responses ChatGPT may give
          Evidence,       \* Evidence[c]: the phases whose evidence gate commit c passes
          FirstPhase,     \* the phase the project is configured with
          Limits,         \* the turn limits a run may be started with; 0 is none
          MaxNoProgress,  \* max_no_progress_iterations
          TurnCap         \* bound: turns are counted up to here

Phase == {"IDEA", "BRAINSTORM", "DOCUMENTATION", "PLANNING", "DEVELOPMENT",
          "VALIDATION", "MAINTENANCE"}

NextPhase ==
  [p \in Phase |->
     CASE p = "IDEA"          -> "BRAINSTORM"
       [] p = "BRAINSTORM"    -> "DOCUMENTATION"
       [] p = "DOCUMENTATION" -> "PLANNING"
       [] p = "PLANNING"      -> "DEVELOPMENT"
       [] p = "DEVELOPMENT"   -> "VALIDATION"
       [] p = "VALIDATION"    -> "MAINTENANCE"
       [] OTHER               -> None]

ASSUME PhaseAssumption ==
  /\ FirstPhase \in Phase
  /\ None \notin Phase
  /\ Evidence \in [Commit -> SUBSET Phase]
  /\ \A c \in Commit : "DEVELOPMENT" \in Evidence[c]     \* its gate asks for nothing
ASSUME LimitAssumption ==
  /\ Limits \subseteq Nat /\ Limits # {}
  /\ MaxNoProgress \in Nat \ {0}
  /\ TurnCap \in Nat \ {0} /\ \A limit \in Limits : limit < TurnCap
ASSUME ResponseAssumption ==
  \A r \in Responses :
    /\ r.marker \in ChatState \cup {None}
    /\ r.block # NoBlock => r.block \in Blocks(Commit, RunId, Workflows)

VARIABLES
  (* On disk; survives the process. *)
  lifecycle,       \* phase in project_lifecycle.json
  memory,          \* last_observed_commit in supervisor_state.json
  workspace,       \* commit checked out in project_root
  prepared,        \* phases with an event phase.transition.prepared
  completed,       \* phases with an event phase.transition.completed
  result,          \* how the run ended; "NONE" while it lasts
  (* The conversation. *)
  prompt,          \* the last message of this run to ChatGPT
  briefed,         \* the phase of its last bootstrap prompt
  (* In the process. *)
  pc,              \* where the process is; "down" when there is none
  phase,           \* self.current_phase
  max_turns,       \* self.max_turns
  turns,           \* self.turns
  last_observed,   \* memory.last_observed_commit of the memory object in use
  previous,        \* previous_observed_commit
  observed,        \* head of the observation in hand, or None
  last_progress,   \* self._last_progress_commit
  no_progress,     \* self._no_progress_iterations
  analysis,        \* the parsed response
  ci_baseline,     \* run ids that wait_for_ci ignores
  floor,           \* runs up to this id are too old for wait_for_ci
  outcome          \* how the current WAIT_CI ended

disk == <<lifecycle, memory, workspace, prepared, completed>>
conversation == <<prompt, briefed>>
counters == <<max_turns, turns, last_progress, no_progress>>
commits == <<last_observed, previous, observed>>
waiting == <<ci_baseline, floor, outcome>>
vars == <<github, disk, result, conversation, pc, phase, counters, commits, analysis,
          waiting>>

NoAnalysis == ParseLabosResponse([block |-> NoBlock, marker |-> None])
Analyses == {ParseLabosResponse(r) : r \in Responses} \cup {NoAnalysis}

Result == {"NONE", "ERROR", "STOPPED", "BLOCKED", "DONE_VERIFIED"}
Prompt == {"NONE", "BOOTSTRAP", "REMIND", "CONTINUE", "CI_PASSED", "CI_FAILED",
           "PHASE_INCOMPLETE", "UNVERIFIED"}
Outcome == {"none", "passed", "failed", "timeout", "unreachable"}
Location ==
  {"down", "baseline", "observe_start", "sync_start", "await", "observe", "sync", "progress",
   "remind", "done", "done_runs", "gate", "prepare", "open_chat", "handoff",
   "wait", "wait_runs", "poll", "refresh", "wait_observe", "wait_sync", "report",
   "fix", "continue"}

TypeOK ==
  /\ GitHubTypeOK
  /\ lifecycle \in Phase /\ phase \in Phase
  /\ memory \in Commit \cup {None}
  /\ workspace \in Commit
  /\ prepared \subseteq Phase /\ completed \subseteq Phase
  /\ result \in Result
  /\ prompt \in Prompt
  /\ briefed \in Phase \cup {None}
  /\ pc \in Location
  /\ max_turns \in Limits \cup {0}
  /\ turns \in 0..TurnCap
  /\ last_observed \in Commit \cup {None}
  /\ previous \in Commit \cup {None}
  /\ observed \in Commit \cup {None}
  /\ last_progress \in Commit \cup {None}
  /\ no_progress \in 0..MaxNoProgress
  /\ analysis \in Analyses
  /\ ci_baseline \subseteq RunId
  /\ floor \in 0..MaxRun
  /\ outcome \in Outcome

Init ==
  /\ GitHubInit
  /\ lifecycle = FirstPhase /\ phase = FirstPhase
  /\ memory = None /\ workspace = 0
  /\ prepared = {} /\ completed = {}
  /\ result = "NONE" /\ prompt = "NONE" /\ briefed = None
  /\ pc = "down" /\ max_turns = 0 /\ turns = 0 /\ no_progress = 0 /\ last_progress = None
  /\ last_observed = None /\ previous = None /\ observed = None
  /\ analysis = NoAnalysis
  /\ ci_baseline = {} /\ floor = 0 /\ outcome = "none"

------------------------------------------------------------------------------
(***************************************************************************)
(* Shared pieces of the loop.                                              *)
(***************************************************************************)
Finish(r) == pc' = "down" /\ result' = r

\* What a process has in memory when it begins, and no longer has when it died.
Fresh ==
  /\ turns' = 0 /\ no_progress' = 0 /\ last_progress' = None
  /\ previous' = None /\ observed' = None /\ analysis' = NoAnalysis
  /\ ci_baseline' = {} /\ outcome' = "none"

\* _stop_if_turn_limit
TurnLimitReached == max_turns > 0 /\ turns >= max_turns

\* _send_next_message: sent, and its response awaited at the top of the loop.
Ask(message) == prompt' = message /\ pc' = "await" /\ UNCHANGED <<result, briefed>>

\* Mutant: the limit is not looked at after the answer.
AskWithoutLimit(message) ==
  prompt' = message /\ pc' = "await" /\ UNCHANGED <<result, briefed>>

\* A branch that asks first: the answer ends the run when the limit is reached.
AskThenCheckLimit(message) ==
  /\ prompt' = message /\ UNCHANGED briefed
  /\ IF TurnLimitReached THEN Finish("STOPPED") ELSE pc' = "await" /\ UNCHANGED result

\* Mutant: the limit is not looked at before the message.
AskPastLimit(message) == Ask(message)

\* A branch that looks at the limit first and then asks.
CheckLimitThenAsk(message) ==
  IF TurnLimitReached THEN Finish("STOPPED") /\ UNCHANGED conversation ELSE Ask(message)

\* sync_repository on a clean checkout that is behind the head of main: the
\* checkout is fast-forwarded to the head as it is now.
FastForward == workspace' = head

\* What the Actions query of an observation returns: the gh command may fail.
Listing == {Listed, {}}

------------------------------------------------------------------------------
(***************************************************************************)
(* Start of a run (_run_locked up to the bootstrap prompt).                *)
(***************************************************************************)
\* Mutant: the phase comes from the configuration, not from the lifecycle file.
StartFromConfig ==
  /\ pc = "down"
  /\ phase' = FirstPhase
  /\ last_observed' = memory
  /\ max_turns' \in Limits
  /\ Fresh
  /\ result' = "NONE" /\ prompt' = "NONE" /\ briefed' = None
  /\ pc' = "baseline"
  /\ UNCHANGED <<github, disk, floor>>

\* The configuration is read, with the phase on disk, and the lock is taken.
Start ==
  /\ pc = "down"
  /\ phase' = lifecycle
  /\ last_observed' = memory
  /\ max_turns' \in Limits
  /\ Fresh
  /\ result' = "NONE" /\ prompt' = "NONE" /\ briefed' = None
  /\ pc' = "baseline"
  /\ UNCHANGED <<github, disk, floor>>

ReadBaseline ==
  /\ pc = "baseline"
  /\ ci_baseline' = Listed
  /\ pc' = "observe_start"
  /\ UNCHANGED <<github, disk, result, conversation, phase, counters, commits, analysis,
                 floor, outcome>>

ObserveAtStart ==
  /\ pc = "observe_start"
  /\ observed' = head
  /\ pc' = "sync_start"
  /\ UNCHANGED <<github, disk, result, conversation, phase, counters, last_observed, previous,
                 analysis, waiting>>

\* _sync_workspace, then the bootstrap prompt.  A head that moved since the
\* observation is fetched all the same and then refused.
SyncAtStart ==
  /\ pc = "sync_start"
  /\ FastForward
  /\ IF head = observed
     THEN /\ last_progress' = observed
          /\ prompt' = "BOOTSTRAP" /\ briefed' = phase
          /\ pc' = "await" /\ UNCHANGED result
     ELSE Finish("ERROR") /\ UNCHANGED <<last_progress, conversation>>
  /\ UNCHANGED <<github, lifecycle, memory, prepared, completed, phase, max_turns, turns, no_progress,
                 commits, analysis, waiting>>

------------------------------------------------------------------------------
(***************************************************************************)
(* Each response: parse, observe, persist, synchronise, count, dispatch.   *)
(***************************************************************************)
Respond ==
  /\ pc = "await"
  /\ \E r \in Responses : analysis' = ParseLabosResponse(r)
  /\ turns' = IF turns < TurnCap THEN turns + 1 ELSE turns
  /\ previous' = last_observed
  /\ pc' = "observe"
  /\ UNCHANGED <<github, disk, result, conversation, phase, max_turns, last_progress, no_progress,
                 last_observed, observed, waiting>>

ObservationFails ==
  /\ pc = "observe"
  /\ observed' = None
  /\ pc' = "progress"
  /\ UNCHANGED <<github, disk, result, conversation, phase, counters, last_observed, previous,
                 analysis, waiting>>

\* The memory object is updated, then saved; only after the save is the
\* workspace synchronised, and only when the head is not the previous one.
ObserveAndSave ==
  /\ pc = "observe"
  /\ observed' = head
  /\ last_observed' = head
  /\ \/ /\ memory' = head
        /\ pc' = IF head # previous THEN "sync" ELSE "progress"
     \/ memory' = memory /\ pc' = "progress"      \* the save failed
  /\ UNCHANGED <<github, lifecycle, workspace, prepared, completed, result, conversation, phase,
                 counters, previous, analysis, waiting>>

\* _sync_if_remote_changed: a failure is traced and swallowed.
SyncIfRemoteChanged ==
  /\ pc = "sync"
  /\ FastForward \/ UNCHANGED workspace
  /\ pc' = "progress"
  /\ UNCHANGED <<github, lifecycle, memory, prepared, completed, result, conversation, phase,
                 counters, commits, analysis, waiting>>

IsNoProgress == analysis.idle /\ observed # None /\ observed = last_progress

Unusable == (analysis.structured /\ ~analysis.valid) \/ analysis.state = None

Branch ==
  IF Unusable THEN "remind"
  ELSE CASE analysis.state = "DONE"    -> "done"
         [] analysis.state = "WAIT_CI" -> "wait"
         [] analysis.state = "FIX_CI"  -> "fix"
         [] OTHER                      -> "continue"

\* Mutant: the limit is exceeded instead of reached.
RecordProgressOffByOne ==
  /\ pc = "progress"
  /\ no_progress' = IF IsNoProgress THEN no_progress + 1 ELSE 0
  /\ last_progress' = IF observed # None THEN observed ELSE last_progress
  /\ IF no_progress' > MaxNoProgress
     THEN Finish("BLOCKED")
     ELSE pc' = Branch /\ UNCHANGED result
  /\ UNCHANGED <<github, disk, conversation, phase, max_turns, turns, commits, analysis, waiting>>

\* Mutant: the count starts again with every idle response.
RecordProgressForgetful ==
  /\ pc = "progress"
  /\ no_progress' = IF IsNoProgress THEN 1 ELSE 0
  /\ last_progress' = IF observed # None THEN observed ELSE last_progress
  /\ IF no_progress' >= MaxNoProgress
     THEN Finish("BLOCKED")
     ELSE pc' = Branch /\ UNCHANGED result
  /\ UNCHANGED <<github, disk, conversation, phase, max_turns, turns, commits, analysis, waiting>>

\* _record_no_progress, and the branch the response takes.
RecordProgress ==
  /\ pc = "progress"
  /\ no_progress' = IF IsNoProgress THEN no_progress + 1 ELSE 0
  /\ last_progress' = IF observed # None THEN observed ELSE last_progress
  /\ IF no_progress' >= MaxNoProgress
     THEN Finish("BLOCKED")
     ELSE pc' = Branch /\ UNCHANGED result
  /\ UNCHANGED <<github, disk, conversation, phase, max_turns, turns, commits, analysis, waiting>>

Remind ==
  /\ pc = "remind"
  /\ AskThenCheckLimit("REMIND")
  /\ UNCHANGED <<github, disk, phase, counters, commits, analysis, waiting>>

FixCI ==
  /\ pc = "fix"
  /\ CheckLimitThenAsk("CI_FAILED")
  /\ UNCHANGED <<github, disk, phase, counters, commits, analysis, waiting>>

Continue ==
  /\ pc = "continue"
  /\ CheckLimitThenAsk("CONTINUE")
  /\ UNCHANGED <<github, disk, phase, counters, commits, analysis, waiting>>

------------------------------------------------------------------------------
(***************************************************************************)
(* DONE: observe GitHub again for the claimed commit and run, then either  *)
(* pass the evidence gate of the phase, or keep working, or finish.  The   *)
(* head and the runs are read by two calls.                                *)
(***************************************************************************)
DoneHead ==
  /\ pc = "done"
  /\ observed' = head
  /\ pc' = "done_runs"
  /\ UNCHANGED <<github, disk, result, conversation, phase, counters, last_observed, previous,
                 analysis, waiting>>

ClaimObserved(ids) ==
  Observe(observed, ids, analysis.ci_run_id, analysis.current_commit, analysis.ci_workflow)

\* Mutant: a verified DONE ends the run in every phase.
DoneRunsInAnyPhase ==
  /\ pc = "done_runs"
  /\ \E ids \in Listing :
       \/ /\ DoneVerified(analysis, ClaimObserved(ids))
          /\ Finish("DONE_VERIFIED") /\ UNCHANGED conversation
       \/ /\ ~DoneVerified(analysis, ClaimObserved(ids))
          /\ AskThenCheckLimit("UNVERIFIED")
  /\ UNCHANGED <<github, disk, phase, counters, commits, analysis, waiting>>

DoneRuns ==
  /\ pc = "done_runs"
  /\ \E ids \in Listing :
       \/ /\ DoneVerified(analysis, ClaimObserved(ids))
          /\ NextPhase[phase] # None
          /\ pc' = "gate" /\ UNCHANGED <<result, conversation>>
       \/ /\ DoneVerified(analysis, ClaimObserved(ids))
          /\ NextPhase[phase] = None
          /\ Finish("DONE_VERIFIED") /\ UNCHANGED conversation
       \/ /\ ~DoneVerified(analysis, ClaimObserved(ids))
          /\ AskThenCheckLimit("UNVERIFIED")
  /\ UNCHANGED <<github, disk, phase, counters, commits, analysis, waiting>>

\* can_advance on the files of the workspace.
CanAdvance(p) == NextPhase[p] # None /\ p \in Evidence[workspace]

\* Mutant: the chat is opened before the transition is recorded as prepared.
AdvanceUnrecorded ==
  /\ pc = "gate"
  /\ CanAdvance(phase)
  /\ phase' = NextPhase[phase]
  /\ lifecycle' = NextPhase[phase]
  /\ pc' = "open_chat"
  /\ UNCHANGED <<github, memory, workspace, prepared, completed, result, conversation, counters,
                 commits, analysis, waiting>>

\* _advance_lifecycle_phase persists the phase before anything else happens.
Advance ==
  /\ pc = "gate"
  /\ CanAdvance(phase)
  /\ phase' = NextPhase[phase]
  /\ lifecycle' = NextPhase[phase]
  /\ pc' = "prepare"
  /\ UNCHANGED <<github, memory, workspace, prepared, completed, result, conversation, counters,
                 commits, analysis, waiting>>

\* This branch alone goes on without looking at the turn limit.
PhaseIncomplete ==
  /\ pc = "gate"
  /\ ~CanAdvance(phase)
  /\ Ask("PHASE_INCOMPLETE")
  /\ UNCHANGED <<github, disk, phase, counters, commits, analysis, waiting>>

AppendPrepared ==
  /\ pc = "prepare"
  /\ prepared' = prepared \cup {phase}
  /\ pc' = "open_chat"
  /\ UNCHANGED <<github, lifecycle, memory, workspace, completed, result, conversation, phase,
                 counters, commits, analysis, waiting>>

\* A new chat of the ChatGPT Project, and the bootstrap prompt of the new phase.
OpenChat ==
  /\ pc = "open_chat"
  /\ prompt' = "BOOTSTRAP" /\ briefed' = phase
  /\ pc' = "handoff"
  /\ UNCHANGED <<github, disk, result, phase, counters, commits, analysis, waiting>>

\* The agent answered: memory is loaded anew and the turn limit is looked at
\* before the transition is recorded as completed.
Handoff ==
  /\ pc = "handoff"
  /\ last_observed' = memory
  /\ IF TurnLimitReached
     THEN Finish("STOPPED") /\ UNCHANGED completed
     ELSE pc' = "await" /\ completed' = completed \cup {phase} /\ UNCHANGED result
  /\ UNCHANGED <<github, lifecycle, memory, workspace, prepared, conversation, phase, counters,
                 previous, observed, analysis, waiting>>

------------------------------------------------------------------------------
(***************************************************************************)
(* WAIT_CI: accept the claimed run if GitHub already shows it successful,  *)
(* else poll for a decision until the deadline.                            *)
(***************************************************************************)
WaitHead ==
  /\ pc = "wait"
  /\ observed' = head
  /\ pc' = "wait_runs"
  /\ UNCHANGED <<github, disk, result, conversation, phase, counters, last_observed, previous,
                 analysis, waiting>>

\* wait_for_ci ignores the runs created more than 120 seconds before it
\* started; which those are depends on the clock.
WaitRuns ==
  /\ pc = "wait_runs"
  /\ \E ids \in Listing :
       IF WaitVerified(analysis, ClaimObserved(ids))
       THEN outcome' = "passed" /\ pc' = "refresh" /\ UNCHANGED floor
       ELSE /\ outcome' = "none" /\ pc' = "poll"
            /\ floor' \in floor..Cardinality(Listed)
  /\ UNCHANGED <<github, disk, result, conversation, phase, counters, commits, analysis,
                 ci_baseline>>

\* Mutant: the runs of every commit are relevant.
RelevantOfAnyCommit ==
  {i \in Listed :
     /\ i \notin ci_baseline
     /\ i > floor
     /\ analysis.ci_workflow # None => runs[i].workflow = analysis.ci_workflow}

Relevant ==
  {i \in Listed :
     /\ i \notin ci_baseline
     /\ i > floor
     /\ analysis.current_commit # None => runs[i].sha = analysis.current_commit
     /\ analysis.ci_workflow # None => runs[i].workflow = analysis.ci_workflow}

\* Without a commit to look for, the newest run of the repository stands in.
Watched ==
  IF Relevant = {} /\ ci_baseline # {} /\ analysis.current_commit = None
  THEN {i \in Listed : \A j \in Listed : j <= i}
  ELSE Relevant

Verdict ==
  IF \E i \in Watched : Failed(i) THEN "failed"
  ELSE IF Watched # {} /\ \A i \in Watched : ~Running(i) THEN "passed"
  ELSE "none"

Poll ==
  /\ pc = "poll"
  /\ Verdict # "none"
  /\ outcome' = Verdict /\ pc' = "refresh"
  /\ UNCHANGED <<github, disk, result, conversation, phase, counters, commits, analysis,
                 ci_baseline, floor>>

PollTimeout ==
  /\ pc = "poll"
  /\ Verdict = "none"
  /\ outcome' = "timeout" /\ pc' = "refresh"
  /\ UNCHANGED <<github, disk, result, conversation, phase, counters, commits, analysis,
                 ci_baseline, floor>>

\* The last query before the deadline failed.
PollUnreachable ==
  /\ pc = "poll"
  /\ outcome' = "unreachable" /\ pc' = "refresh"
  /\ UNCHANGED <<github, disk, result, conversation, phase, counters, commits, analysis,
                 ci_baseline, floor>>

RefreshBaseline ==
  /\ pc = "refresh"
  /\ ci_baseline' = Listed
  /\ pc' = IF outcome = "passed" THEN "wait_observe" ELSE "report"
  /\ UNCHANGED <<github, disk, result, conversation, phase, counters, commits, analysis,
                 floor, outcome>>

WaitObserve ==
  /\ pc = "wait_observe"
  /\ observed' = head
  /\ pc' = "wait_sync"
  /\ UNCHANGED <<github, disk, result, conversation, phase, counters, last_observed, previous,
                 analysis, waiting>>

\* Mutant: a checkout that is not the observed commit is accepted.
WaitSyncUnchecked ==
  /\ pc = "wait_sync"
  /\ FastForward
  /\ pc' = "report" /\ UNCHANGED result
  /\ UNCHANGED <<github, lifecycle, memory, prepared, completed, conversation, phase, counters,
                 commits, analysis, waiting>>

WaitSync ==
  /\ pc = "wait_sync"
  /\ FastForward
  /\ IF head = observed THEN pc' = "report" /\ UNCHANGED result ELSE Finish("ERROR")
  /\ UNCHANGED <<github, lifecycle, memory, prepared, completed, conversation, phase, counters,
                 commits, analysis, waiting>>

Report ==
  /\ pc = "report"
  /\ CheckLimitThenAsk(IF outcome = "passed" THEN "CI_PASSED" ELSE "CI_FAILED")
  /\ UNCHANGED <<github, disk, phase, counters, commits, analysis, waiting>>

------------------------------------------------------------------------------
\* The process dies: killed, or by an exception that no branch handles (a chat
\* that does not answer in time, a refused page, a failed gh or git command, a
\* file that cannot be written).
Abort ==
  /\ pc # "down"
  /\ Finish("ERROR")
  /\ Fresh
  /\ last_observed' = None
  /\ UNCHANGED <<github, disk, conversation, phase, max_turns, floor>>

Work ==
  \/ ReadBaseline \/ ObserveAtStart \/ SyncAtStart
  \/ Respond \/ ObservationFails \/ ObserveAndSave \/ SyncIfRemoteChanged \/ RecordProgress
  \/ Remind \/ FixCI \/ Continue
  \/ DoneHead \/ DoneRuns \/ Advance \/ PhaseIncomplete
  \/ AppendPrepared \/ OpenChat \/ Handoff
  \/ WaitHead \/ WaitRuns \/ Poll \/ PollTimeout \/ PollUnreachable
  \/ RefreshBaseline \/ WaitObserve \/ WaitSync \/ Report

\* The world outside the process.
World == GitHubNext /\ UNCHANGED <<disk, result, conversation, pc, phase, counters, commits,
                                   analysis, waiting>>

Next == Start \/ Work \/ Abort \/ World

Spec == Init /\ [][Next]_vars

\* A process that runs takes its next step: every wait for ChatGPT, CI, gh and
\* git has a deadline.  Nobody has to start it, and GitHub owes nothing.
FairSpec == Spec /\ WF_vars(Work)

------------------------------------------------------------------------------
(***************************************************************************)
(* Safety.                                                                 *)
(***************************************************************************)
\* The run that the response names exists, is of the commit and workflow that
\* it names, and succeeded.
ClaimedRunSucceeded ==
  \E i \in Listed : /\ i = analysis.ci_run_id
                    /\ runs[i].sha = analysis.current_commit
                    /\ runs[i].workflow = analysis.ci_workflow
                    /\ Succeeded(i)

\* The persisted phase only moves to the next one, on a valid DONE block whose
\* run really succeeded on GitHub, with the evidence of the phase in the
\* workspace, however pushes, runs, failed calls and restarts interleave
\* (reconcile, can_advance, save_lifecycle_state).
VerifiedAdvance ==
  [][lifecycle' # lifecycle =>
       /\ lifecycle' = NextPhase[lifecycle]
       /\ analysis.structured /\ analysis.valid /\ analysis.state = "DONE"
       /\ ClaimedRunSucceeded
       /\ lifecycle \in Evidence[workspace]]_vars

\* A run ends with DONE_VERIFIED only in the last phase, on a claim about the
\* observed head whose run really succeeded (the verified branch of DONE).
DoneIsVerified ==
  [][pc # "down" /\ pc' = "down" /\ result' = "DONE_VERIFIED" =>
       /\ NextPhase[lifecycle] = None
       /\ analysis.current_commit = observed
       /\ ClaimedRunSucceeded]_vars

\* Whenever the agent may answer, it was briefed for the phase that is on disk,
\* also after a crash in the middle of a transition.
AgentWorksOnPersistedPhase ==
  pc \notin {"down", "baseline", "observe_start", "sync_start", "prepare", "open_chat"} =>
    briefed = phase /\ phase = lifecycle

\* A transition is recorded as prepared only when its phase is on disk, and as
\* completed only when it was prepared and the agent was briefed for it.
AuditTrail ==
  [][/\ prepared' \ prepared \subseteq {lifecycle}
     /\ completed' \ completed \subseteq prepared \cap {lifecycle} \cap {briefed}]_vars

\* WAIT_CI of a block passes only when a run of the commit it names succeeded
\* (wait_for_ci and reconcile), whatever ids were excluded.
PassReportIsReal ==
  outcome = "passed" /\ analysis.structured /\ pc \in {"refresh", "wait_observe", "wait_sync", "report"} =>
    \E i \in Listed : runs[i].sha = analysis.current_commit /\ Succeeded(i)

\* The agent is told that CI passed, and a new run is begun, only on a checkout
\* that is the commit observed just before (_sync_workspace with expected_sha).
SyncedBeforePrompt ==
  /\ pc = "report" /\ outcome = "passed" => workspace = observed
  /\ pc = "await" /\ turns = 0 => workspace = observed /\ last_progress = observed

\* Once the turn limit is reached the agent is listened to only in answer to a
\* PHASE_INCOMPLETE message: every other branch looks at the limit.
OverrunOnlyAfterIncompletePhase ==
  pc = "await" /\ TurnLimitReached => prompt = "PHASE_INCOMPLETE"

------------------------------------------------------------------------------
(***************************************************************************)
(* Liveness, of FairSpec.                                                  *)
(***************************************************************************)
\* With a turn limit every run ends, however long CI takes and whatever fails,
\* unless the agent reports DONE without evidence again and again.
EveryRunEnds == []<>(pc = "down") \/ []<>(pc = "gate") \/ <>[](max_turns = 0)

\* Without a turn limit a run still ends when the agent only answers that it has
\* nothing to show, GitHub can be observed and no commit appears.
StalledRunEnds ==
  <>[](pc = "progress" => analysis.idle /\ observed # None) => []<>(pc = "down")

====
