-------------------------- MODULE SupervisorProofs --------------------------
(***************************************************************************)
(* Theorems about Supervisor, for every set of responses, every evidence,  *)
(* every number of commits and runs and every limit.                       *)
(***************************************************************************)
EXTENDS Supervisor, FiniteSetTheorems, TLAPS

\* The phases are followed in order, and only the last has no successor.
LEMMA NextPhaseType == NextPhase \in [Phase -> Phase \cup {None}]
BY DEF NextPhase, Phase

\* The runs listed are runs that exist, and there are at most MaxRun of them.
LEMMA ListedType == Listed \subseteq RunId /\ Cardinality(Listed) \in 0..MaxRun
<1>1. Listed \subseteq RunId
  BY DEF Listed
<1>2. IsFiniteSet(RunId) /\ Cardinality(RunId) = MaxRun
  BY BoundsAssumption, FS_Interval DEF RunId
<1>3. IsFiniteSet(Listed) /\ Cardinality(Listed) <= MaxRun
  BY <1>1, <1>2, FS_Subset
<1>4. Cardinality(Listed) \in Nat
  BY <1>3, FS_CardinalityType
<1> QED
  BY <1>1, <1>3, <1>4, BoundsAssumption

------------------------------------------------------------------------------
(***************************************************************************)
(* Type correctness.  TypeOK alone is not inductive: that the count of     *)
(* idle responses stays within its limit needs that a process that still   *)
(* runs has not reached it.                                                *)
(***************************************************************************)
TypeInv == TypeOK /\ (pc # "down" => no_progress < MaxNoProgress)

LEMMA TypeInit == Init => TypeInv
BY PhaseAssumption, LimitAssumption, BoundsAssumption
DEF Init, TypeInv, TypeOK, GitHubInit, GitHubTypeOK, Commit, RunId, Run, NoRun, Result, Prompt,
    Location, Outcome, Analyses

LEMMA AnalysisType == NoAnalysis \in Analyses /\ \A r \in Responses : ParseLabosResponse(r) \in Analyses
BY DEF Analyses

LEMMA TypeStep == TypeInv /\ [Next]_vars => TypeInv'
<1> SUFFICES ASSUME TypeInv, [Next]_vars PROVE TypeInv'
  OBVIOUS
<1> USE DEF TypeInv, TypeOK, GitHubTypeOK, github, disk, conversation, counters, commits, waiting
<1> USE DEF Result, Prompt, Location, Outcome
<1>1. CASE Start
  BY <1>1, AnalysisType, LimitAssumption DEF Start, Fresh
<1>2. CASE ReadBaseline \/ RefreshBaseline
  BY <1>2, ListedType DEF ReadBaseline, RefreshBaseline
<1>3. CASE ObserveAtStart \/ ObservationFails \/ ObserveAndSave \/ DoneHead \/ WaitHead \/ WaitObserve
  BY <1>3 DEF ObserveAtStart, ObservationFails, ObserveAndSave, DoneHead, WaitHead, WaitObserve
<1>4. CASE SyncAtStart \/ SyncIfRemoteChanged \/ WaitSync
  BY <1>4 DEF SyncAtStart, SyncIfRemoteChanged, WaitSync, FastForward, Finish
<1>5. CASE Respond
  <2>1. analysis' \in Analyses
    BY <1>5, AnalysisType DEF Respond
  <2>2. turns' \in 0..TurnCap
    BY <1>5, LimitAssumption DEF Respond
  <2> QED
    BY <1>5, <2>1, <2>2 DEF Respond
<1>6. CASE RecordProgress
  <2>1. no_progress' \in 0..MaxNoProgress /\ (pc' # "down" => no_progress' < MaxNoProgress)
    BY <1>6, LimitAssumption DEF RecordProgress, Finish
  <2>2. Branch \in Location
    BY DEF Branch
  <2> QED
    BY <1>6, <2>1, <2>2 DEF RecordProgress, Finish
<1>7. CASE Remind \/ FixCI \/ Continue \/ Report \/ PhaseIncomplete
  BY <1>7 DEF Remind, FixCI, Continue, Report, PhaseIncomplete, AskThenCheckLimit, CheckLimitThenAsk,
              Ask, Finish
<1>8. CASE DoneRuns
  BY <1>8 DEF DoneRuns, AskThenCheckLimit, Finish
<1>9. CASE Advance
  BY <1>9, NextPhaseType DEF Advance, CanAdvance
<1>10. CASE AppendPrepared \/ OpenChat \/ Handoff
  BY <1>10 DEF AppendPrepared, OpenChat, Handoff, Finish
<1>11. CASE WaitRuns
  <2>1. floor' \in 0..MaxRun
    BY <1>11, ListedType, BoundsAssumption DEF WaitRuns
  <2> QED
    BY <1>11, <2>1 DEF WaitRuns
<1>12. CASE Poll \/ PollTimeout \/ PollUnreachable
  BY <1>12 DEF Poll, PollTimeout, PollUnreachable, Verdict
<1>13. CASE Abort
  BY <1>13, AnalysisType, LimitAssumption DEF Abort, Fresh, Finish
<1>14. CASE World
  <2>1. GitHubTypeOK'
    <3>1. CASE Push
      BY <3>1, BoundsAssumption DEF Push, Commit
    <3>2. CASE StartRun
      BY <3>2, BoundsAssumption DEF StartRun, Commit, Run
    <3>3. CASE FinishRun
      BY <3>3, ListedType DEF FinishRun, Run, NoRun, Conclusion, Listed, Running
    <3> QED
      BY <1>14, <3>1, <3>2, <3>3 DEF World, GitHubNext
  <2> QED
    BY <1>14, <2>1 DEF World
<1>15. CASE UNCHANGED vars
  BY <1>15 DEF vars
<1> QED
  BY <1>1, <1>2, <1>3, <1>4, <1>5, <1>6, <1>7, <1>8, <1>9, <1>10, <1>11, <1>12, <1>13, <1>14, <1>15
  DEF Next, Work

\* Every variable keeps its type; the count of idle responses never exceeds its
\* limit (_record_no_progress).
THEOREM TypeCorrect == Spec => []TypeOK
<1>1. Spec => []TypeInv
  BY TypeInit, TypeStep, PTL DEF Spec
<1>2. TypeInv => TypeOK
  BY DEF TypeInv
<1> QED
  BY <1>1, <1>2, PTL

------------------------------------------------------------------------------
(***************************************************************************)
(* The phase, the conversation and the audit trail.  A process that runs   *)
(* works in the phase that is on disk, and only the way from the save of   *)
(* the phase to the fresh chat leaves the agent briefed for another one.   *)
(***************************************************************************)
PhaseInv ==
  /\ pc # "down" => phase = lifecycle
  /\ AgentWorksOnPersistedPhase
  /\ pc \in {"open_chat", "handoff"} => phase \in prepared

LEMMA PhaseStep == TypeOK /\ PhaseInv /\ [Next]_vars => PhaseInv'
<1> SUFFICES ASSUME TypeOK, PhaseInv, [Next]_vars PROVE PhaseInv'
  OBVIOUS
<1> USE DEF PhaseInv, AgentWorksOnPersistedPhase, github, disk, conversation, counters, commits,
            waiting
<1>1. CASE Start
  BY <1>1 DEF Start
<1>2. CASE ReadBaseline \/ ObserveAtStart \/ SyncAtStart
  BY <1>2 DEF ReadBaseline, ObserveAtStart, SyncAtStart, Finish
<1>3. CASE Respond \/ ObservationFails \/ ObserveAndSave \/ SyncIfRemoteChanged
  BY <1>3 DEF Respond, ObservationFails, ObserveAndSave, SyncIfRemoteChanged
<1>4. CASE RecordProgress
  BY <1>4 DEF RecordProgress, Branch, Finish
<1>5. CASE Remind \/ FixCI \/ Continue \/ Report \/ PhaseIncomplete
  BY <1>5 DEF Remind, FixCI, Continue, Report, PhaseIncomplete, AskThenCheckLimit,
              CheckLimitThenAsk, Ask, Finish
<1>6. CASE DoneHead \/ DoneRuns
  BY <1>6 DEF DoneHead, DoneRuns, AskThenCheckLimit, Finish
<1>7. CASE Advance \/ AppendPrepared \/ OpenChat \/ Handoff
  BY <1>7 DEF Advance, AppendPrepared, OpenChat, Handoff, Finish
<1>8. CASE WaitHead \/ WaitRuns \/ Poll \/ PollTimeout \/ PollUnreachable
  BY <1>8 DEF WaitHead, WaitRuns, Poll, PollTimeout, PollUnreachable
<1>9. CASE RefreshBaseline \/ WaitObserve \/ WaitSync
  BY <1>9 DEF RefreshBaseline, WaitObserve, WaitSync, Finish
<1>10. CASE Abort
  BY <1>10 DEF Abort, Finish
<1>11. CASE World \/ UNCHANGED vars
  BY <1>11 DEF World, vars
<1> QED
  BY <1>1, <1>2, <1>3, <1>4, <1>5, <1>6, <1>7, <1>8, <1>9, <1>10, <1>11 DEF Next, Work

LEMMA PhaseCorrect == Spec => []PhaseInv
<1>1. Init => PhaseInv
  BY DEF Init, PhaseInv, AgentWorksOnPersistedPhase
<1> QED
  BY <1>1, PhaseStep, TypeCorrect, PTL DEF Spec

\* An agent that may answer was briefed for the phase on disk, whenever the
\* process died before (_advance_lifecycle_phase, _run_locked).
THEOREM BriefedForPhase == Spec => []AgentWorksOnPersistedPhase
<1>1. PhaseInv => AgentWorksOnPersistedPhase
  BY DEF PhaseInv
<1> QED
  BY <1>1, PhaseCorrect, PTL

\* A transition is recorded as prepared and as completed only as AuditTrail says.
THEOREM TrailIsOrdered == Spec => AuditTrail
<1>1. ASSUME PhaseInv, [Next]_vars
      PROVE  [/\ prepared' \ prepared \subseteq {lifecycle}
              /\ completed' \ completed \subseteq prepared \cap {lifecycle} \cap {briefed}]_vars
  <2> USE <1>1 DEF PhaseInv, AgentWorksOnPersistedPhase, disk
  <2>1. CASE AppendPrepared
    BY <2>1 DEF AppendPrepared
  <2>2. CASE Handoff
    BY <2>2 DEF Handoff
  <2>3. CASE UNCHANGED <<prepared, completed>>
    BY <2>3
  <2>4. Next => AppendPrepared \/ Handoff \/ UNCHANGED <<prepared, completed>>
    BY DEF Next, Work, World, Start, Abort, ReadBaseline, ObserveAtStart, SyncAtStart, Respond,
           ObservationFails, ObserveAndSave, SyncIfRemoteChanged, RecordProgress, Remind, FixCI,
           Continue, DoneHead, DoneRuns, Advance, PhaseIncomplete, OpenChat, WaitHead, WaitRuns,
           Poll, PollTimeout, PollUnreachable, RefreshBaseline, WaitObserve, WaitSync, Report
  <2> QED
    BY <2>1, <2>2, <2>3, <2>4
<1> QED
  BY <1>1, PhaseCorrect, PTL DEF Spec, AuditTrail

------------------------------------------------------------------------------
(***************************************************************************)
(* Claims.  What a response is accepted for was true on GitHub when it was *)
(* observed, and stays true, because a run that succeeded is final.        *)
(***************************************************************************)
\* A run that succeeded is never changed again.
LEMMA SuccessIsFinal ==
  ASSUME TypeOK, World
  PROVE  \A i \in Listed : Succeeded(i) => i \in Listed' /\ runs'[i] = runs[i]
<1> USE DEF TypeOK, GitHubTypeOK, Listed, Succeeded, Running
<1>1. CASE Push
  BY <1>1 DEF Push
<1>2. CASE StartRun
  BY <1>2, BoundsAssumption DEF StartRun, RunId
<1>3. CASE FinishRun
  BY <1>3 DEF FinishRun, Conclusion
<1> QED
  BY <1>1, <1>2, <1>3 DEF World, GitHubNext

\* An observation that asks for a run by its id shows that run, of the commit
\* asked for, or none.
LEMMA PickNamedRun ==
  ASSUME NEW ids \in SUBSET Listed, NEW id, id # None, NEW sha, NEW workflow,
         PickRun(ids, id, sha, workflow) # None
  PROVE  /\ PickRun(ids, id, sha, workflow) = id
         /\ id \in Listed /\ runs[id].sha = sha
         /\ workflow # None => runs[id].workflow = workflow
<1> DEFINE matches == {i \in ids : /\ runs[i].sha = sha
                                   /\ workflow # None => runs[i].workflow = workflow
                                   /\ id # None => i = id}
<1>1. matches # {} /\ matches \subseteq {id}
  BY DEF PickRun
<1>2. matches = {id}
  BY <1>1
<1>3. id \in matches
  BY <1>2
<1>4. id \in Listed /\ runs[id].sha = sha /\ (workflow # None => runs[id].workflow = workflow)
  BY <1>3
<1>5. id \in Nat
  BY <1>4, ListedType, BoundsAssumption DEF RunId
<1>6. PickRun(ids, id, sha, workflow) = id
  BY <1>2, <1>5 DEF PickRun
<1> QED
  BY <1>4, <1>6

\* A DONE that is accepted names the observed head and a run that succeeded.
LEMMA DoneVerifiedMeans ==
  ASSUME NEW ids \in Listing, DoneVerified(analysis, ClaimObserved(ids))
  PROVE  analysis.structured /\ analysis.current_commit = observed /\ ClaimedRunSucceeded
<1> DEFINE a == analysis
           i == PickRun(ids, a.ci_run_id, a.current_commit, a.ci_workflow)
<1>1. ids \in SUBSET Listed
  BY DEF Listing
<1>2. a.structured /\ a.current_commit # None /\ a.ci_run_id # None /\ a.ci_workflow # None
  BY DEF DoneVerified
<1>3. ClaimObserved(ids) = Observation(observed, i)
  BY <1>2 DEF ClaimObserved, Observe
<1>4. i # None
  BY <1>2, <1>3 DEF DoneVerified, Observation
<1>5. i = a.ci_run_id /\ i \in Listed /\ runs[i].sha = a.current_commit
      /\ runs[i].workflow = a.ci_workflow
  BY <1>1, <1>2, <1>4, PickNamedRun
<1>6. a.current_commit = observed /\ runs[i].status = "success"
  BY <1>3, <1>4, NoneAssumption DEF DoneVerified, Observation
<1> QED
  BY <1>2, <1>5, <1>6 DEF ClaimedRunSucceeded, Succeeded

\* A WAIT_CI that is accepted at once, by a block, names a run that succeeded.
LEMMA WaitVerifiedMeans ==
  ASSUME NEW ids \in Listing, WaitVerified(analysis, ClaimObserved(ids)),
         analysis.ci_run_id # None
  PROVE  \E i \in Listed : runs[i].sha = analysis.current_commit /\ Succeeded(i)
<1> DEFINE a == analysis
           i == PickRun(ids, a.ci_run_id, a.current_commit, a.ci_workflow)
<1>1. ids \in SUBSET Listed
  BY DEF Listing
<1>2. ClaimObserved(ids) = Observation(observed, i)
  BY DEF WaitVerified, ClaimObserved, Observe
<1>3. i # None
  BY <1>2 DEF WaitVerified, Observation
<1>4. i \in Listed /\ runs[i].sha = a.current_commit
  BY <1>1, <1>3, PickNamedRun
<1>5. runs[i].status = "success"
  BY <1>2, <1>3, NoneAssumption DEF WaitVerified, Observation
<1> QED
  BY <1>4, <1>5 DEF Succeeded

\* A valid WAIT_CI block names a run and a commit (the rules of parse).
LEMMA WaitNamesRun ==
  ASSUME NEW a \in Analyses, a.structured, a.valid, a.state = "WAIT_CI"
  PROVE  a.ci_run_id # None /\ a.current_commit # None
<1>1. a # NoAnalysis
  BY DEF NoAnalysis, ParseLabosResponse
<1>2. PICK r \in Responses : a = ParseLabosResponse(r)
  BY <1>1 DEF Analyses
<1>3. r.block # NoBlock
  BY <1>2 DEF ParseLabosResponse
<1>4. r.block \in Blocks(Commit, RunId, Workflows)
  BY <1>3, ResponseAssumption
<1>5. ValidBlock(r.block) /\ OrNone(r.block.state) = "WAIT_CI"
  BY <1>2, <1>3 DEF ParseLabosResponse
<1>6. r.block.state # Bad /\ r.block.ci_run_id # Bad /\ r.block.current_commit # Bad
  BY <1>4, <1>5 DEF ValidBlock, Complete, Blocks
<1>7. NamesRun(r.block)
  BY <1>5, <1>6 DEF ValidBlock, OrNone, WaitRules
<1>8. r.block.current_commit \in Commit \cup {Unknown}
  BY <1>4, <1>6 DEF Blocks
<1>9. r.block.current_commit # None
  BY <1>8, DistinctAssumption, BoundsAssumption DEF Commit
<1> QED
  BY <1>2, <1>3, <1>6, <1>7, <1>9 DEF ParseLabosResponse, OrNone, NamesRun

------------------------------------------------------------------------------
(***************************************************************************)
(* The branch of a response is one that fits its state, and what it        *)
(* claimed holds for as long as the branch relies on it.                   *)
(***************************************************************************)
Waits == {"wait", "wait_runs", "poll", "refresh", "wait_observe", "wait_sync", "report"}

ClaimInv ==
  /\ pc \in {"done", "done_runs", "gate"} =>
       analysis.state = "DONE" /\ (analysis.structured => analysis.valid)
  /\ pc \in Waits => analysis.state = "WAIT_CI" /\ (analysis.structured => analysis.valid)
  /\ pc = "gate" => analysis.structured /\ ClaimedRunSucceeded
  /\ PassReportIsReal

LEMMA ClaimStep == TypeOK /\ ClaimInv /\ [Next]_vars => ClaimInv'
<1> SUFFICES ASSUME TypeOK, ClaimInv, [Next]_vars PROVE ClaimInv'
  OBVIOUS
<1> USE DEF ClaimInv, ClaimedRunSucceeded, PassReportIsReal, Waits, Listed, Succeeded
<1> USE DEF github, disk, conversation, counters, commits, waiting
<1>1. CASE Start
  BY <1>1 DEF Start
<1>2. CASE ReadBaseline \/ ObserveAtStart \/ SyncAtStart
  BY <1>2 DEF ReadBaseline, ObserveAtStart, SyncAtStart, Finish
<1>3. CASE Respond \/ ObservationFails \/ ObserveAndSave \/ SyncIfRemoteChanged
  BY <1>3 DEF Respond, ObservationFails, ObserveAndSave, SyncIfRemoteChanged
<1>4. CASE RecordProgress
  BY <1>4 DEF RecordProgress, Branch, Unusable, Finish
<1>5. CASE Remind \/ FixCI \/ Continue \/ Report \/ PhaseIncomplete
  BY <1>5 DEF Remind, FixCI, Continue, Report, PhaseIncomplete, AskThenCheckLimit,
              CheckLimitThenAsk, Ask, Finish
<1>6. CASE DoneHead
  BY <1>6 DEF DoneHead
<1>7. CASE DoneRuns
  <2>1. pc' = "gate" => analysis.structured /\ ClaimedRunSucceeded
    BY <1>7, DoneVerifiedMeans DEF DoneRuns, AskThenCheckLimit, Finish
  <2> QED
    BY <1>7, <2>1 DEF DoneRuns, AskThenCheckLimit, Finish
<1>8. CASE Advance \/ AppendPrepared \/ OpenChat \/ Handoff
  BY <1>8 DEF Advance, AppendPrepared, OpenChat, Handoff, Finish
<1>9. CASE WaitHead
  BY <1>9 DEF WaitHead
<1>10. CASE WaitRuns
  <2>1. ASSUME outcome' = "passed", analysis.structured
        PROVE  \E i \in Listed : runs[i].sha = analysis.current_commit /\ Succeeded(i)
    <3>1. analysis.ci_run_id # None
      BY <1>10, <2>1, WaitNamesRun DEF WaitRuns, TypeOK
    <3> QED
      BY <1>10, <2>1, <3>1, WaitVerifiedMeans DEF WaitRuns
  <2> QED
    BY <1>10, <2>1 DEF WaitRuns
<1>11. CASE Poll
  <2>1. ASSUME outcome' = "passed", analysis.structured
        PROVE  \E i \in Listed : runs[i].sha = analysis.current_commit /\ Succeeded(i)
    <3>1. analysis.current_commit # None
      BY <1>11, <2>1, WaitNamesRun DEF Poll, TypeOK
    <3>2. PICK i \in Relevant : ~Running(i) /\ ~Failed(i)
      BY <1>11, <2>1, <3>1 DEF Poll, Verdict, Watched
    <3>3. i \in Listed /\ runs[i].sha = analysis.current_commit
      BY <3>1, <3>2 DEF Relevant
    <3>4. runs[i].status = "success"
      BY <3>2, <3>3, ListedType
      DEF TypeOK, GitHubTypeOK, Run, NoRun, Conclusion, Running, Failed
    <3> QED
      BY <3>3, <3>4
  <2> QED
    BY <1>11, <2>1 DEF Poll
<1>12. CASE PollTimeout \/ PollUnreachable
  BY <1>12 DEF PollTimeout, PollUnreachable
<1>13. CASE RefreshBaseline \/ WaitObserve \/ WaitSync
  BY <1>13 DEF RefreshBaseline, WaitObserve, WaitSync, Finish
<1>14. CASE Abort
  BY <1>14 DEF Abort, Finish
<1>15. CASE World
  BY <1>15, SuccessIsFinal DEF World
<1>16. CASE UNCHANGED vars
  BY <1>16 DEF vars
<1> QED
  BY <1>1, <1>2, <1>3, <1>4, <1>5, <1>6, <1>7, <1>8, <1>9, <1>10, <1>11, <1>12, <1>13, <1>14,
     <1>15, <1>16 DEF Next, Work

LEMMA ClaimCorrect == Spec => []ClaimInv
<1>1. Init => ClaimInv
  BY DEF Init, ClaimInv, PassReportIsReal, Waits
<1> QED
  BY <1>1, ClaimStep, TypeCorrect, PTL DEF Spec

\* WAIT_CI passes only on a commit whose CI really succeeded.
THEOREM PassIsReal == Spec => []PassReportIsReal
<1>1. ClaimInv => PassReportIsReal
  BY DEF ClaimInv
<1> QED
  BY <1>1, ClaimCorrect, PTL

\* Only Advance writes the lifecycle file, and it does so on a true claim.
THEOREM AdvanceIsVerified == Spec => VerifiedAdvance
<1>1. ASSUME PhaseInv, ClaimInv, [Next]_vars
      PROVE  [lifecycle' # lifecycle =>
                /\ lifecycle' = NextPhase[lifecycle]
                /\ analysis.structured /\ analysis.valid /\ analysis.state = "DONE"
                /\ ClaimedRunSucceeded
                /\ lifecycle \in Evidence[workspace]]_vars
  <2>1. CASE Advance
    BY <1>1, <2>1 DEF Advance, CanAdvance, PhaseInv, ClaimInv
  <2>2. Next => Advance \/ UNCHANGED lifecycle
    BY DEF disk, Next, Work, World, Start, Abort, ReadBaseline, ObserveAtStart, SyncAtStart, Respond,
           ObservationFails, ObserveAndSave, SyncIfRemoteChanged, RecordProgress, Remind, FixCI,
           Continue, DoneHead, DoneRuns, PhaseIncomplete, AppendPrepared, OpenChat, Handoff,
           WaitHead, WaitRuns, Poll, PollTimeout, PollUnreachable, RefreshBaseline, WaitObserve,
           WaitSync, Report
  <2> QED
    BY <1>1, <2>1, <2>2
<1> QED
  BY <1>1, PhaseCorrect, ClaimCorrect, PTL DEF Spec, VerifiedAdvance

\* A run ends as DONE_VERIFIED only in the last phase, on a true claim.
THEOREM DoneIsTrue == Spec => DoneIsVerified
<1>1. ASSUME PhaseInv, [Next]_vars
      PROVE  [pc # "down" /\ pc' = "down" /\ result' = "DONE_VERIFIED" =>
                /\ NextPhase[lifecycle] = None
                /\ analysis.current_commit = observed
                /\ ClaimedRunSucceeded]_vars
  <2>1. CASE DoneRuns
    BY <1>1, <2>1, DoneVerifiedMeans DEF DoneRuns, AskThenCheckLimit, Finish, PhaseInv
  <2>2. Next => DoneRuns \/ pc = "down" \/ pc' # "down" \/ result' # "DONE_VERIFIED"
    BY DEF Next, Work, World, Start, Abort, ReadBaseline, ObserveAtStart, SyncAtStart, Respond,
           ObservationFails, ObserveAndSave, SyncIfRemoteChanged, RecordProgress, Branch, Remind,
           FixCI, Continue, DoneHead, Advance, PhaseIncomplete, AppendPrepared, OpenChat, Handoff,
           WaitHead, WaitRuns, Poll, PollTimeout, PollUnreachable, RefreshBaseline, WaitObserve,
           WaitSync, Report, AskThenCheckLimit, CheckLimitThenAsk, Ask, Finish
  <2> QED
    BY <1>1, <2>1, <2>2
<1> QED
  BY <1>1, PhaseCorrect, PTL DEF Spec, DoneIsVerified

------------------------------------------------------------------------------
(***************************************************************************)
(* Turns and the checkout.  The turns of a run are counted from its first  *)
(* answer, so that a run that was only begun is told from one that is past *)
(* its limit.                                                              *)
(***************************************************************************)
Starting == {"baseline", "observe_start", "sync_start"}

TurnInv ==
  /\ pc \in Starting => turns = 0
  /\ pc \notin Starting \cup {"down", "await"} => turns > 0
  /\ OverrunOnlyAfterIncompletePhase
  /\ SyncedBeforePrompt

LEMMA TurnStep == TypeOK /\ TurnInv /\ [Next]_vars => TurnInv'
<1> SUFFICES ASSUME TypeOK, TurnInv, [Next]_vars PROVE TurnInv'
  OBVIOUS
<1> USE DEF TurnInv, Starting, OverrunOnlyAfterIncompletePhase, SyncedBeforePrompt, TurnLimitReached
<1> USE DEF github, disk, conversation, counters, commits, waiting
<1>1. CASE Start
  BY <1>1 DEF Start, Fresh
<1>2. CASE ReadBaseline \/ ObserveAtStart
  BY <1>2 DEF ReadBaseline, ObserveAtStart
<1>3. CASE SyncAtStart
  <2>1. turns = 0 /\ ~TurnLimitReached
    BY <1>3, LimitAssumption DEF SyncAtStart, TypeOK
  <2> QED
    BY <1>3, <2>1 DEF SyncAtStart, FastForward, Finish
<1>4. CASE Respond
  BY <1>4, LimitAssumption DEF Respond, TypeOK
<1>5. CASE ObservationFails \/ ObserveAndSave \/ SyncIfRemoteChanged
  BY <1>5 DEF ObservationFails, ObserveAndSave, SyncIfRemoteChanged
<1>6. CASE RecordProgress
  BY <1>6 DEF RecordProgress, Branch, Finish
<1>7. CASE Remind \/ FixCI \/ Continue \/ Report \/ PhaseIncomplete
  BY <1>7 DEF Remind, FixCI, Continue, Report, PhaseIncomplete, AskThenCheckLimit,
              CheckLimitThenAsk, Ask, Finish
<1>8. CASE DoneHead \/ DoneRuns
  BY <1>8 DEF DoneHead, DoneRuns, AskThenCheckLimit, Finish
<1>9. CASE Advance \/ AppendPrepared \/ OpenChat \/ Handoff
  BY <1>9 DEF Advance, AppendPrepared, OpenChat, Handoff, Finish
<1>10. CASE WaitHead \/ WaitRuns \/ Poll \/ PollTimeout \/ PollUnreachable
  BY <1>10 DEF WaitHead, WaitRuns, Poll, PollTimeout, PollUnreachable
<1>11. CASE RefreshBaseline \/ WaitObserve \/ WaitSync
  BY <1>11 DEF RefreshBaseline, WaitObserve, WaitSync, FastForward, Finish
<1>12. CASE Abort
  BY <1>12 DEF Abort, Finish
<1>13. CASE World \/ UNCHANGED vars
  BY <1>13 DEF World, vars
<1> QED
  BY <1>1, <1>2, <1>3, <1>4, <1>5, <1>6, <1>7, <1>8, <1>9, <1>10, <1>11, <1>12, <1>13 DEF Next, Work

LEMMA TurnCorrect == Spec => []TurnInv
<1>1. Init => TurnInv
  BY DEF Init, TurnInv, Starting, OverrunOnlyAfterIncompletePhase, SyncedBeforePrompt
<1> QED
  BY <1>1, TurnStep, TypeCorrect, PTL DEF Spec

\* Past the turn limit the agent answers only a PHASE_INCOMPLETE message.
THEOREM OverrunIsIncompletePhase == Spec => []OverrunOnlyAfterIncompletePhase
<1>1. TurnInv => OverrunOnlyAfterIncompletePhase
  BY DEF TurnInv
<1> QED
  BY <1>1, TurnCorrect, PTL

\* The first prompt and the news that CI passed go with a synchronised checkout.
THEOREM PromptIsSynced == Spec => []SyncedBeforePrompt
<1>1. TurnInv => SyncedBeforePrompt
  BY DEF TurnInv
<1> QED
  BY <1>1, TurnCorrect, PTL
====
