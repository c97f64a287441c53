# LabOS Agent: formal models

LabOS Agent lets ChatGPT, driven through a browser, develop a software project.
A supervisor process prompts it, checks what it claims against GitHub, waits for
CI and moves the project through a fixed sequence of phases.  These modules model
the part of `src/src/labos_agent/` that decides: which claims are accepted, when
a run ends, what is on disk when the process dies, and how the files, the
checkout, GitHub and the conversation stay in step.

Line numbers below are those of `src/src/labos_agent/`.

## 1. The system

| Part | State it keeps | Operations | What makes it correct |
|---|---|---|---|
| Conversation supervisor (`supervisor.py`) | turn count, no-progress count, observed and last-progress commit, phase, CI baseline; the memory object | a loop: parse, observe, persist, synchronise, count, then one branch per state (reminder, DONE, WAIT_CI, FIX_CI, CONTINUE); phase transition; fresh chats | advances and finishes only on verified claims; ends; the agent always works on the persisted phase; fresh chats are spaced |
| Response protocol (`response_protocol.py`, `state_protocol.py`) and reconciliation (`supervisor_state_machine.py`) | none | parse a `LABOS_STATE` block or a legacy marker; accept or refuse a claim | a claim is accepted only if GitHub shows the same commit, run, workflow and a success |
| GitHub observation (`github_observer.py`) | none | read the head, then the runs, by two calls; pick one run | picks the run asked for, never a run number of another workflow |
| Lifecycle (`lifecycle.py`) | the phase, with a backup file | `next_phase`, `can_advance` on files of the checkout, load and save | sequential phases, evidence, recoverable file |
| Supervisor memory (`supervisor_memory.py`) | last observation, conversation URL, last fresh-chat time | load and save with a backup | atomic and durable |
| Workspace synchronisation (`git_gate.py`) | the checkout | `sync_repository` fast-forwards and compares with the expected commit | never on a commit nobody observed |
| Iteration loop and delivery (`loop.py`, `phases.py`, `controller.py`, `git_gate.py`, `verification.py`, `remote_ci.py`) | `state.json`: iteration, failures, pending dirty recovery and CI fix | run an iteration, local CI, commit and push, remote CI | never pushes or deletes the user's work; no iteration is delivered twice |
| Crash recovery (`recovery.py`) | the same `state.json` and the checkout | reconcile a state that was left in the middle | every interrupted phase is recognised |
| Web dashboard (`web.py`, `config.py`) | `config.yaml`, the lifecycle files, the map of processes and its record on disk, two locks | start, stop, lifecycle and configuration updates from concurrent requests | one supervisor of a project works; a living one is found again; phases are followed in order; the configuration always loads |
| Event hub (`web.py`) | the last snapshot, a bounded queue per client | watch, publish, subscribe, drop the oldest, stop | every change is told to every open stream; all threads end |
| Browser automation (`browser/`) | the page, the composer | select, send, await, open, resume | what is returned is the whole answer to the message that was sent |

How they interact: the web dashboard and the command line start a supervisor
process, which reads the configuration and then takes `supervisor.lock`; the
supervisor calls the browser (messages), `gh` (observation), `git` (checkout) and
writes two JSON state files and an event log that the dashboard reads.  Requests of
the dashboard run in threads of their own and write the configuration and the same
lifecycle files; one more thread watches the files and tells the pages.  The iteration loop is an older, separate
process with a lock of its own on the same checkout.

Hard behaviours: GitHub moves between any two calls; every call can fail; the
process can die between any two writes; two deadlines (answer and CI) race with
late events; two in-memory copies of one state file exist during a transition;
requests overlap with each other and with supervisors, and look at what they decide
on before they hold what protects it; ChatGPT goes on answering when nobody listens.
`PROJECT.json` lists the hazards line by line with the properties that cover them.

## 2. What is modelled

| Module | Models |
|---|---|
| `Values` | the value None |
| `GitHub` | the head of the default branch, Actions runs, the observation of both, and the pushes and runs of the outside world |
| `ResponseProtocol` | blocks, their validity, the parsed response, acceptance of WAIT_CI and DONE |
| `Supervisor` | the supervisor process, composed with `GitHub` and `ResponseProtocol` |
| `MCSupervisor` | instances: responses the agent chooses from, commits that carry evidence |
| `SupervisorProofs` | theorems about `Supervisor` |
| `FreshChat`, `FreshChatProofs` | conversation URL and fresh-chat time on disk and in two memory objects; spacing of fresh chats |
| `Conversation`, `ConversationProofs` | the messages sent and the answers read in the conversations of `FreshChat`, which it extends: sending in attempts, waiting, ChatGPT's side |
| `Dashboard`, `MCDashboard`, `DashboardProofs` | the handlers of the dashboard, the supervisors they and a shell start, `config.yaml`, the lifecycle files, the record of the process |
| `EventHub`, `EventHubProofs` | the watcher, the queues, the event streams and their end |
| `Checkout` | the project's Git checkout and remote, with the operations the controller and the operator make on them |
| `Delivery` | the iteration loop, both commands, with crash recovery and rollover, composed with `Checkout` |
| `Contribution` | abstract specification: what becomes of each change that the agent writes |
| `DeliveryTypes`, `DeliveryProofs` | theorems about `Delivery`: its types and places, then what it promises and that it implements `Contribution` |
| `Register` | abstract specification: an atomic register that only damage from outside can set back |
| `StateFiles`, `StateFilesProofs` | the two save and load protocols call by call, and that they implement `Register` |

### Supervisor

`pc` is the place in `_run_locked`.  A step ends where the outside can be seen to
move or where a crash leaves a different disk.

| Place | Actions | Code |
|---|---|---|
| start of a run | `Start`, `ReadBaseline`, `ObserveAtStart`, `SyncAtStart` | 622-676 |
| each response | `Respond`, `ObserveAndSave` or `ObservationFails`, `SyncIfRemoteChanged`, `RecordProgress` | 678-722 |
| reminder, FIX_CI, CONTINUE | `Remind`, `FixCI`, `Continue` | 724-741, 915-935 |
| DONE | `DoneHead`, `DoneRuns`, `Advance` or `PhaseIncomplete` | 742-856 |
| transition | `Advance`, `AppendPrepared`, `OpenChat`, `Handoff` | 571-611, 779-808 |
| WAIT_CI | `WaitHead`, `WaitRuns`, `Poll` or `PollTimeout` or `PollUnreachable`, `RefreshBaseline`, `WaitObserve`, `WaitSync`, `Report` | 857-914 |
| death | `Abort`: a kill, or any exception that no branch handles | 146-159 |

`lifecycle`, `memory`, `workspace`, `prepared` and `completed` are on disk and
survive `Abort`; `prompt` and `briefed` are the conversation of the run.  `result`
says how the last run ended (`ERROR` for a run that died, for which the code
writes no result).

Abstractions:

- Commits are numbered in push order and history is linear; a run keeps its
  conclusion.  A force push and a re-run of a workflow are not modelled.  A run
  that is not `success` is `failure`.  The listings are complete: the limits of 20,
  30 and 100 runs are not modelled.
- A block is the tuple of its fields; `Bad` stands for a field that is missing or
  outside its list.  An abbreviated SHA behaves like `Unknown`: it equals no commit.
- `Evidence[c]` is the set of phases whose gate the files of commit `c` pass;
  DEVELOPMENT has no gate.  What the documents must contain is not modelled.
- The checkout is clean and behind its remote, as the comment at 666 assumes of a
  controlled workspace; any other checkout makes the synchronisation fail, which is
  covered by the failing alternatives.  `sync_repository` moves the checkout before
  it compares it with the expected commit, and so does the model.
- Which runs are older than the 120-second floor of `wait_for_ci` depends on the
  clock: `floor` is any monotone choice.
- `Start` reads the configuration and takes the lock in one step.  In the code a
  process reads the phase with its configuration and locks later; what a second process
  that read an old phase can do is in `Dashboard`.
- Limits: `max_turns` 0 means none; `max_no_progress_iterations` is at least 1,
  which the web form enforces and a hand-written YAML need not.
- `observe_github` looks for a run by its number when no run id is given
  (`github_observer.py` 132-141).  The one call that passes a number (861) is made for a
  valid WAIT_CI, which names both, so `Observe` leaves this out.
- Turns are counted up to `TurnCap`, above every limit, so that comparisons with
  a limit are exact.

### FreshChat

The clock moves at any time.  `mem_url` and `mem_stamp` are the memory object of
the loop; a transition loads and saves an object of its own (`MarkNext`), after
which the loop must load it (`Reload`, 782) because every later response saves the
whole object (`SaveResponse`).  The distance is counted from the recorded start of
a chat, which precedes the opening of the page by as long as the browser takes.
A ChatGPT Project is assumed: without one `_start_fresh_chat` opens nothing and
transitions are refused.  The wall clock does not go back.

### Conversation

The steps of `FreshChat` are taken by `Navigate`, `NoteConversation`, `RunStep` and
`RunEnds`, which say when: a URL is noted, and a transition begins or ends, only after
an answer was returned.  In between, `Ask` notes the texts and message ids of the page,
`Type` and `Press` are one attempt, `Read` and `Observe` one poll of
`wait_for_response`.  A browser error at `Press`, whether or not the message went
out, and one during the wait (`WaitFails`), lead to the next attempt, which waits anew but
with what `Ask` noted.  The page may withhold the composer at any poll (`input_ready`), and
the answer is then not returned.
`Think`, `BeginText`, `Finish` and `Fail` are ChatGPT, at any time, in any
conversation, with or without a process.

What is assumed of ChatGPT's page: message ids and texts change only with a new answer
of the assistant; the stop control shows from the beginning of an answer to its end,
and shows within `quiet_seconds` after a post; an older answer is on the page when a
resumed conversation is asked; loading another page empties the composer.  A Project page
that is already open is not loaded again (`chatgpt.py` 744), so what an earlier process
typed may still be there (`Navigate`).  A message posted while an answer is written cuts
that answer off.

`odd` records what the properties except, because the code cannot tell it from the usual
order: an answer still under way when the exchange begins (`busy`: it is taken for the
answer to the new message), no answer (`failed`: the ids have changed, so the last older
text is returned), and a page that changes between the two looks of one poll (`raced`).

### Dashboard

One project, any number of requests at the same time; the handlers are those of
`do_POST`, `do_PUT` and `do_DELETE` that change state, and `Poll` stands for those that
only ask for the status.

| Handler | Steps | Code (`web.py`) |
|---|---|---|
| start | `Load`, `Check`, `Spawn` or `SpawnRefused`, `Persist` | 1143-1171 |
| stop | `Check`, `Terminate` | 1132-1141 |
| lifecycle | `Load` (with the lock), `Check`, `UpdateLifecycle` or `Refuse`; with notes `Read` to `Replace` | 983-985, 1048-1131 |
| create a milestone | `Load`, `Check`, `Read` to `Replace`, then perhaps the next | 986-1019 |
| start a milestone | `Load`, `Check`, `Guard`, `Read` to `Replace`, `SaveFirstPhase` | 1021-1045 |
| update, archive (`edit`) | `Read`, `Check`, `Open`, `Write`, `Replace` | 924-964 |
| create | `Read`, `Open`, `Write`, `Replace`, `SaveFirstPhase` | 794-884 |

A step ends where another thread, a supervisor or a death of the server can interfere.
What is done under `_process_lock` is one step, except the start of a supervisor, which a
death of the server can divide.  `Reply` is every answer, also the 500 of an exception;
`with` gives the lock back in each case.

A supervisor is `LoadConfig`, `TakeLock`, `Advance`, `Exit`: the parts of `Supervisor`
that meet the dashboard.  The phase and the active milestone are those of its
configuration; `Advance` saves from them.

`config` is what the file says of the project, or `Empty` (truncated) or `Torn` (two
writers in one temporary file).  All writers use the one name `config.yaml.tmp`, so an
open handle follows a rename: `handle` says whether a writer's file is still the temporary
one, has become the configuration, or was replaced.  `Loads` is what `load_config`
refuses: a text that is torn, a milestone listed twice, an active milestone that is not
listed.

Three history variables: `held`, the phases each lifecycle file has held; `overlapped`,
two requests were changing the configuration at the same time, each between the first that
it read of it and its rename (`Changing`), which can tear the file, lose an update and list
a milestone twice; `hidden`, the supervisors that no status can
find.  These are started from a shell, or overwritten in the map by a start that looked
for a process before this one was there, or were started just before the server died.

Left out: the creation, cloning and bootstrapping of repositories; the texts of notes and
the history log; CI actions and the views that only read; a pid that is used again; a
supervisor that goes on for a while after SIGTERM.  The lifecycle files are written in one
step, their protocol is `StateFiles`.

### EventHub

`signature` counts the changes of the configuration and of the watched files of one
project; two different contents have different signatures, as times and sizes of files
nearly always do.  `text` says whether the configuration loads, is refused, or raises
what `_event_snapshot` does not catch.  The watcher looks at one file per step
(`ScanConfig`, `LoadNames`, `ScanProject`), compares, and puts an event into each queue;
the thread that stops the server does the same (`Stop`, `CopyClients`).  `Offer`, `Evict`
and `Retry` are the three calls of `_offer`; a handler takes events in between.  A stream
is `Accept`, `Subscribe`, `Connect` and then `LoopHead`, `Take`, `WriteEvent` or
`KeepAlive` until `Break` or the end; `Lose` is a failure before the try block, which
leaves the queue subscribed.  Which project an event names is left out: the page reads
everything again at any event.  `untold` is history.

### StateFiles

Each call of the operating system is an action.  `save_lifecycle_state` copies
the primary over the backup (`TruncateBackup`, `FillBackup`), writes a temporary
file and renames it; `save_memory` writes the temporary file, renames the primary
to the backup (`Retire`) and renames the temporary file (`Replace`).  `kind`
chooses the protocol.  `Crash` may come between any two calls; `DamagePrimary`
makes the primary unreadable while nobody writes.  A state that does not load is
refused at `Open`, so the system may stop there and deadlock is not checked.  File
contents are the number of the save that wrote them.  A torn rename is not
modelled: rename is atomic.

### Checkout and Delivery

`Delivery` is `lab-agent continue` (`run_once`, kind `once`) and `lab-agent run`
(`run_loop`, kind `loop`) started in any order.  They take the same lock, so one
process at a time is all there can be.  `state` is the `AgentState` in
memory, `saved` the one in `state/<project>/current.json`; every action says whether it
saves, because what is not saved is lost in a `Crash`, and what was saved last is what
an exception that no handler catches continues with (`OuterException`).

| Place | Actions | Code (`loop.py` if not named) |
|---|---|---|
| start | `Start`; `Attach`, `AttachBlocked`, `AttachFails`, `RolloverAtAttach` | 186-236, 412-416, 462-477, 650-684 |
| an iteration of the loop | `BeginIteration`, `StopAtLimit` | 686-692, `safety.py` 24-43 |
| what an earlier iteration left | `Reconcile`, `Revalidate`, `PreflightFails` | 417-419, 693-699, `recovery.py` 162-374 |
| the same, of one that died | `InterruptedConflict`, `RecoverInterrupted` (run_once only) | 420-434, `recovery.py` 49-160, 291-337 |
| preflight | `RefuseRecovery`, `RefuseTrackedChanges`, `RefuseSync`, `Prepare` | 436-458, `git_gate.py` 410-472 |
| the agent's turn | `Execute`, `Observe`, `Done`, `AskFails`, `ResolveFails`, `RolloverInIteration` | 251-324, 486-552, 721-831 |
| verification and local CI | `Verify`, `CIFails`, `CIPasses`, `VerificationRaises`, `DeadlineBeforeCI` | 514-560, `phases.py` 60-98 |
| commit and push | `Commit`, `NothingStaged`, `CommitFails`, `DeadlineBeforeCommit`, `Push` | 562-610, `phases.py` 100-142, `git_gate.py` 479-536 |
| remote CI | `RemotePasses`, `RemoteFails`, `RemoteRaises` | 585-619, `phases.py` 144-181 |
| after a delivery | `KeepConversation`, `ScheduledRollover`, `Resume`, `ResumeFails` | 383-405, 833-862 |
| outside | `Crash`, `OperatorChanges`, `OperatorMerges` | |

run_once attaches to the browser after the preflight, the loop once before its first
iteration; both use the same `Attach` actions, which go on to `ask` and to `iterate`.
A push has three outcomes: confirmed, not confirmed (the commit is taken back), and
unknown because the question to GitHub itself raises; in each of them GitHub may
have taken the push or not.

Abstractions:

- A change is an edit of a tracked file or a new untracked file, with an identity of
  its own; two changes of one file are not told apart from changes of two files, and an
  edit of an untracked file that existed before is not modelled.  A fingerprint is the
  pair of the two sets, that is, SHA-256 has no collisions.
- Histories are sets of numbered commits.  The operator merges agent branches into main
  by fast-forward only.  While a controller runs nobody else moves HEAD or the upstream;
  what `assert_unchanged_before_ci` would do then is `VerificationRaises`.
- `@{upstream}` is origin/main, as `git switch -c <branch> origin/main` leaves it.
- `reconcile_worktree_fingerprint` and `_recover_legacy_execution_evidence` never find the
  file they read (section 3), so `Reconcile` and `RecoverInterrupted` have no branch for
  what they would do; ignore rules do not change.
- `can_clear_legacy_dirty_recovery` (`git_gate.py` 343) splits the listing at a backslash and
  a zero instead of NUL and so sees one record, the first.  Git lists tracked changes before
  untracked files, so that with or without a split a listing with a tracked change is
  refused and one without is accepted (`Migrated`).
- Which paths count as meaningful, whether local and remote CI pass, and at which call an
  exception comes, are left open.  A local CI stage is configured and execution is enabled.
- WORKING stands for the stage ITERATION_STARTED, which `begin_iteration` sets with it.
- The count of iterations saturates at `MaxIterations`: run_once has no limit of its own
  and the loop stops at any value that is not less.  A rollover after a reconnection is
  not told apart from the one after a message that was too long.
- `mark_dirty_recovery` at `phases.py` 101 is called without the project and takes the
  fingerprint of the working directory of the controller; `ElsewhereTree` is a fingerprint
  no recovery accepts.
- Paths that look sensitive are neither discarded nor refused.

`starts` to `interrupted` are read by no action of the code, except that `starts`, `ops`
and `written` bound how much happens; the properties use them.

`Contribution` says what the loop is for: a change is unwritten, written, validated and
delivered, or restored by the operator.  `StageOf` reads the stage of a change from the
checkout's history and from GitHub; `KeepsPromise` says that each step of `Delivery` is one
of `Contribution` or none.  So a change is not delivered before it was validated, nor after
the operator took it back; nothing but the operator takes one back; and what is delivered
stays delivered.

## 3. What the runs show

| Run | Result | Shows |
|---|---|---|
| `safety` | passes, 1.8 million states | `VerifiedAdvance`, `DoneIsVerified`, `AgentWorksOnPersistedPhase`, `AuditTrail`, `PassReportIsReal`, `SyncedBeforePrompt`, `OverrunOnlyAfterIncompletePhase`, `TypeOK` |
| `liveness` | passes, 215 thousand states | `EveryRunEnds`, `StalledRunEnds` |
| `conversation` | passes, 1.8 million states | `AnswersThisMessage`, `ResponseIsWhole`, `PersistedConversationIsAnswered`, `FreshChatsAreSpaced`, `TypeOK`, `ConversationTypeOK` |
| `files` | passes, 1262 states | `ImplementsRegister`, `IdleIsDurable`, `TypeOK` |
| `delivery` | passes, 2.3 million states | `OperatorFilesStay`, `PushedIsValidated`, `SuccessIsOnGitHub`, `NothingIsLost`, `InterruptionIsResumed`, `OnceFailureIsResumable`, `KeepsPromise`, `TypeOK` |
| `delivery_ends` | passes, 81 thousand states | `EveryRunEnds` of `Delivery` |
| `dashboard` | passes, 2.6 million states | `OneWorker`, `Visible`, `PhasesAreNotSkipped`, `ConfigLoads`, `NoStandstill`, `TypeOK` |
| `event_hub` | passes, 150 thousand states | `ChangesAreTold`, `EveryChangeIsTold`, `StreamsEnd`, `TypeOK` |
| `backup` | violation | saving over a damaged lifecycle file destroys its good backup first (`lifecycle.py` 384) |
| `delivery_resume` | violation | after local CI failed in the loop, the next preflight refuses the checkout nobody touched (`phases.py` 89) |
| `dashboard_phase` | violation | a lifecycle request takes back the phase that a supervisor saved between the request's two looks (`web.py` 1049, 1053) |
| `event_hub_silent` | violation | a configuration that is not YAML ends the watcher, and open streams stay silent for good (`web.py` 241) |

The violations are places where the README or the definition of done promise more than
the code keeps; `PROJECT.json` quotes them.

The model of `Supervisor` also contains four cases that no property requires to be
absent: a verified DONE without evidence goes on past the turn limit (825; hence the name
of `OverrunOnlyAfterIncompletePhase`), WAIT_CI can time out although the run it names
succeeded (229), a transition on the last allowed turn is not recorded as completed (783),
and the evidence gate reads an older checkout after a synchronisation that failed (763).

One defect shows in `Delivery` as a recovery that does not happen.  The loop gives
`RecoveryManager` the directory `state/<project>` (`loop.py` 344), and the manager appends the
project to it again (`recovery.py` 106, 223): it looks for
`state/<project>/<project>/last_response.md`, which nothing writes, while `save_response`
(`loop.py` 109-112) writes `state/<project>/last_response.md`.  So an iteration of run_once
that dies after `Execute` and before `Observe` has saved what it observed is not recovered,
and the next start goes to `RefuseTrackedChanges`; and a recovery whose fingerprint changed
with the ignore rules is refused.  `recovery.py` 84-93 describes the recovery, and
`test_recovery.py` 183 and 283 test it with a manager that was given `state`.  `PROJECT.json`
lists it among the hazards.

Bounds.  Two commits and two runs are the least with a claim about the wrong commit,
a run of an older commit, a rerun that the baseline does not hold and a push between
two reads; one workflow name and the literal `NONE` are the two values the filters
tell apart.  The project starts in VALIDATION, so that one transition and the end of the
lifecycle are both reached.  A turn limit of 2 with turns counted to 3 reaches the limit,
the turn before and the turn after; limits 0 and 1 are compared in `liveness`.  One idle
response ends a run in `safety`, the second one in `liveness`.  Four saves and two damages are enough for a backup of a
backup of a damaged file; three chats and seven ticks with a delay of two are enough for
a transition, a death and a resumption that fails. 

In `conversation`, two messages in two attempts each, in up to three conversations, give an
earlier answer on the page, a message posted twice, a process that died while ChatGPT
answers, and a resumption; three messages make ten times the states.

In `dashboard`, two threads are the least that overlap and three requests let one follow
them; two supervisors race for the lock; one death of the server.  The project is in
VALIDATION or does not exist yet, and evidence is there for DOCUMENTATION, DEVELOPMENT and
VALIDATION, so that a phase ends, a milestone can start and a gate refuses.  The threads are
interchangeable (symmetry).  `dashboard_phase` needs one thread and one supervisor.

In `event_hub`, the queue holds two events, not 20, and three changes overflow it while the
client is slow or while the stopping thread puts its event.  There is one client in the run
with liveness; with two clients (2.1 million states) the invariants hold as well.

For `delivery`, three starts are the least for work that fails, is taken up and
delivered, and a run on a new branch after it; two branches are what that needs, one
change of the agent and one of the operator are enough for a file on each side of the
baseline, two commits let a change that a failed push gave back be committed again, and two iterations with two failures reach a failing iteration with another
after it in the same loop and the limits themselves.  `delivery_ends` has one start, with two
commits, two rounds and two rollovers, so that a rollover is followed by an iteration;
counters start at 0 there, and a start from other counters only ends sooner.  Deadlock is not
checked in these runs because an instance stops when its starts are used up.

Fairness.  `FairSpec` of `Supervisor` is weak fairness of `Work`, the steps of a running process:
every call has a deadline (`response_timeout_seconds`, 30 seconds for `gh`,
`ci_timeout_seconds`), and the code handles or dies of its expiry.  Nothing is assumed of
GitHub, of the agent or of whoever starts runs.  `EveryRunEnds` excludes runs without a
limit and the agent that reports DONE without evidence again and again, which is the
first of the four cases above.  `FairSpec` of `Delivery` is the same for its process: Git, CI
and GitHub queries have timeouts or return, and a page that does not answer is an
exception after `response_timeout_seconds`.  `Spec` of `EventHub` is weakly fair to each
thread separately, to the watcher, to the puts of each producer and to each stream's
handler: they wait for nothing but a queue's own lock and a pause or timeout, and a write
to a browser that is gone fails in the end.  Browsers that connect, changes and the stop are
not fair.

## 4. What is proved

For every number of commits, runs, chats, messages and attempts, every set of responses,
every evidence, limit and delay, every number of threads, requests, milestones, clients and
deaths of the server, every number of starts, iterations, branches and changes of the agent
and of the operator, from the named assumptions of the modules:

| Theorem | Property |
|---|---|
| `TypeCorrect` | `TypeOK` of `Supervisor` |
| `AdvanceIsVerified` | `VerifiedAdvance` |
| `DoneIsTrue` | `DoneIsVerified` |
| `BriefedForPhase` | `AgentWorksOnPersistedPhase` |
| `TrailIsOrdered` | `AuditTrail` |
| `PassIsReal` | `PassReportIsReal` |
| `PromptIsSynced` | `SyncedBeforePrompt` |
| `OverrunIsIncompletePhase` | `OverrunOnlyAfterIncompletePhase` |
| `ChatsAreSpaced`, `FreshChatTypes` | `FreshChatsAreSpaced`, `TypeOK` of `FreshChat` |
| `FilesImplementRegister`, `SavesAreDurable`, `FileTypes` | `ImplementsRegister`, `IdleIsDurable`, `TypeOK` of `StateFiles` |
| `ConversationsAreSpaced` (by `ConversationIsFreshChat`) | `FreshChatsAreSpaced` of `Conversation` |
| `SupervisorsAreVisible` | `Visible` |
| `NoPhaseIsSkipped` | `PhasesAreNotSkipped` |
| `WorkerIsAlone`, `NoRequestsStandStill`, `DashboardTypes` | `OneWorker`, `NoStandstill`, `TypeOK` of `Dashboard` |
| `ConfigurationLoads` | `ConfigLoads` |
| `NoChangeIsLost`, `EventHubTypes` | `ChangesAreTold`, `TypeOK` of `EventHub` |
| `ConversationTypesCorrect` | `ConversationTypeOK` |
| `ResponsesAreWhole` | `ResponseIsWhole` |
| `AnswersAreToTheMessage` | `AnswersThisMessage` |
| `PersistedConversationsAreAnswered` | `PersistedConversationIsAnswered` |
| `DeliveryTypeCorrect` | `TypeOK` of `Delivery` |
| `DeliveryLosesNothing` | `NothingIsLost` |
| `DeliveryPushesValidated` | `PushedIsValidated` |
| `DeliverySuccessIsOnGitHub` | `SuccessIsOnGitHub` |
| `DeliveryKeepsOperatorFiles` | `OperatorFilesStay` |
| `DeliveryOnceFailureIsResumable` | `OnceFailureIsResumable` |
| `DeliveryResumesInterruption` | `InterruptionIsResumed` |
| `DeliveryKeepsPromise` | `KeepsPromise` |

The argument for `Supervisor` uses four invariants, each of which assumes the earlier ones.
`TypeInv` is the type invariant.  `PhaseInv` relates `phase`, `lifecycle`, `prepared` and
`briefed` at each place of a transition; without the places, the phase and the
conversation disagree in the middle of one.  `ClaimInv` carries what reconciliation saw
from the read to the write: at the gate, the run the response names has succeeded, which
remains true because runs keep their conclusion.  `TurnInv` says at which places the
turn limit may already be exceeded and with which prompt.

For `FreshChat`, `SpacedInv` says that the time on disk, the copy in the process and
the copy in the loop's memory object, wherever it may still be written, are no older
than the last chat; dropping the reload breaks exactly the third.

For `StateFiles`, `FilesInv` says that without damage the primary is readable and the
memory backup too, that the temporary file holds the current state once it is written, and
that loading does not change up to the last rename, which is the commit point of the
refinement.

For `Dashboard`, `Typed` adds to the types what a handler must have at each place: a
payload before it writes, a pid before it records one, a milestone before it starts one.
`Visible` alone is not inductive.  `ProcessLockInv` says that `_process_lock` outlives a
step only between Popen and the recording of its process, so a death of the server can
lose no other.  `RecordInv` says that the record agrees with the map whenever the lock is
free, and that a process that is only on disk, left by a server that died, is what every
handler about to terminate means, while none is about to start another; without it a start
that looked before the restart would hide that process.  `LifecycleLockInv` names the
places where the holder of `_lifecycle_lock` can be, none of which waits for it; with
`ProcessLockInv` that excludes a standstill.  For `PhasesAreNotSkipped`, `HeldInv` says
that whatever holds a phase, a file, a supervisor or a request, however old, holds one that
its lifecycle file has stood for.

For its `ConfigLoads`, `PlaceInv` says which handlers come to which places.  `SoleInv` says that without an overlap the file loads, at most one
request is between reading and replacing it, what that request saw when it chose its
milestone is still so, and what it is about to write, or has written to the temporary file,
loads.

For `EventHub`, `HubInv` has the types, that a producer only has subscribed queues left to
do, and that what was seen of a file is not newer than the file.  `TellInv` says where a
change that was not told can be: still to be seen by the watcher, on the watcher's list, in
the queue, or being written.  An eviction keeps it because the watcher's own event follows
or the queue is full.

For `Conversation`, every step is one of `FreshChat` or leaves its variables alone, which
gives the spacing.  `TalkInv` is about the messages.  `ChatsInv` says that each post has at
most one turn and one answer and, in `Spent`, that posts are paid for by attempts, which is
what bounds their number.  `ExchangeInv` says what is typed and sent at each place.
`WaitInv` says what the polls have seen: after the quiet time ChatGPT has taken the post up,
and a candidate that is returned is the last text of a page that is not being written.
`AskedInv` says how the conversation stands to the message that was sent last, if nothing
odd happened: as it was when the texts and ids were noted (`Unchanged`), waiting for the
answer to it (`Pending`), or with that answer as the last one (`Done`); a new id on the page
excludes the first, the end of the writing the second.  `NotedInv` carries the result to the disk: a URL is noted only of a
conversation with an answer.

For `Delivery`, `TypeInv` is the foundation.  Beyond types it has `ControlInv`, what each
place takes for granted (a snapshot in the iteration, a tree to compare with in a
rollover); `CounterInv`, in which a counter can stand at its limit only in a record that
ends the run; `BranchInv`, by which runs use their branches in order, so that a new run's
branch has no commits that its creation could drop; and `HistoryInv`, that histories hold
only commits that were made.  The limits are counted by different handlers, and
`FailingStep` says once what all of them have in common.

- `NothingIsLost` follows from `HeldInv`: what was written is in the checkout, was restored
  or is in a commit that a branch holds.  The commit that a failed push takes back
  is the one whose changes return to the checkout.
- `PushedIsValidated` needs `ValidatedInv` of all branches and of the checkout at the place
  of the commit: nothing comes to the checkout between local CI and the commit but changes
  of the operator.
- The other four depend on what a recovery was recorded of.  `RecordsCome` says for
  each step where the record in memory and the one on disk come from: an earlier one, or a
  snapshot of the checkout at a named place.  `SuccessInv` follows the commit of a success
  through them.
- For `OperatorFilesStay`, `FutureInv` says that nothing holds a change that the operator is
  still to make, and `OwnInv` that its files are in the checkout, in no commit, and in every
  baseline that a commit may subtract: in memory, on disk, in `before` and in the tree a
  rollover compares with.  Where a record's baseline lacks one, its fingerprint is of a
  checkout without it, which no preflight accepts any more.
- For `OnceFailureIsResumable`, `FailureInv` says that all later records either ask for
  no recovery or have the fingerprint of the untouched checkout; the loop's handler, which
  keeps an older one, is why the statement is about run_once.
- For `InterruptionIsResumed`, `OnceInv` says what run_once has saved at each place, and
  `InterruptedInv` that the observation of an iteration that died stays in every record and
  still is that of the checkout.

For `KeepsPromise`, `LifeInv` adds three parts.  `UnwrittenInv` says that nothing holds what
is not written.  `UnsharedInv` says that a commit on two branches, or on main, is on GitHub.
`OnePlaceInv` says that a change that is not delivered is in one place: in the checkout as
one kind of change, in one commit, or taken back.  It needs `UnsharedInv`, because a commit
that a failed push takes back from one branch must not be left on another, and it gives what
the refinement needs: a change that the operator took back is in no commit that a later push
could deliver.

The assumptions are on the constants: bounds are natural numbers, at least one run, limit and
attempt, and None and the other model values differ from what they stand beside.

Only model-checked: the liveness properties (`EveryRunEnds` of both processes,
`StalledRunEnds`, `EveryChangeIsTold`, `StreamsEnd`), since fairness and ENABLED are outside
the prover's reach.

## 5. Plan

1. `Delivery` further: progress for an operator who only starts the command again (after
   a failed remote CI it is refused for ever, `loop.py` 593; after an exception of the remote
   query, 606) and delivery of the files of a second failing iteration (556).
2. The supervisor and the iteration loop in one checkout: their locks are different files.
3. The page of the dashboard: reconnection, its fallback timer, answers that arrive in
   another order.
4. An abstract specification of a project's verified way through the phases, for `Supervisor`
   to implement, with its theorem.

Hazards that no property covers are in `PROJECT.json` with the reason; they are the plan's
items 1 to 3.

Not modelled and not planned: command allowlists (`execution.py`), traces and run
summaries, prompts and the command line: text, argument checks
or bookkeeping that no decision reads.
