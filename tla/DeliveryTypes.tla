---------------------------- MODULE DeliveryTypes ----------------------------
(***************************************************************************)
(* The inductive type invariant of the iteration loop: what each change of *)
(* the checkout does to the histories, what each change of the state       *)
(* record keeps of it, how the steps that end an iteration end it          *)
(* (FailingStep), and that every step keeps TypeInv.                       *)
(***************************************************************************)
EXTENDS Delivery, FiniteSetTheorems, TLAPS

------------------------------------------------------------------------------
(* Histories and the commit a branch points to. *)
From(h, c) == {d \in h : c <= d}

LEMMA HasHead ==
  ASSUME NEW h \in History, h # {}
  PROVE  \E c \in h : \A d \in h : d <= c
<1> DEFINE T == {From(h, c) : c \in h}
<1>0. h \subseteq Nat
  BY CheckoutAssumption DEF History
<1>1. IsFiniteSet(h)
  <2>1. IsFiniteSet(1..MaxCommits)
    BY CheckoutAssumption, FS_Interval
  <2> QED
    BY <2>1, FS_Subset DEF History
<1>2. \A c \in h : From(h, c) \in FiniteSubsetsOf(h)
  BY <1>1, FS_Subset DEF From, FiniteSubsetsOf
<1>3. IsWellFoundedOn(StrictSubsetOrdering(h), FiniteSubsetsOf(h))
  BY FS_StrictSubsetOrderingWellFounded
<1>4. T \subseteq FiniteSubsetsOf(h) /\ T # {}
  BY <1>2
<1>5. PICK t \in T : \A u \in T : ~ (<<u, t>> \in StrictSubsetOrdering(h))
  <2> HIDE DEF T
  <2> QED
    BY <1>3, <1>4, WFMin
<1>6. PICK c \in h : t = From(h, c)
  BY <1>5
<1>7. ASSUME NEW d \in h, c < d PROVE FALSE
  <2>1. From(h, d) \in T /\ From(h, d) \in SUBSET h /\ From(h, c) \in SUBSET h
    BY DEF From
  <2>2. ASSUME NEW k \in From(h, d) PROVE k \in From(h, c)
    <3>1. k \in h /\ d <= k
      BY DEF From
    <3>2. k \in Nat /\ c \in Nat /\ d \in Nat
      BY <1>0, <3>1
    <3>3. c <= k
      BY <1>7, <3>1, <3>2
    <3> QED
      BY <3>1, <3>3 DEF From
  <2>3. c \in From(h, c) /\ c \notin From(h, d)
    BY <1>0, <1>7 DEF From
  <2> QED
    BY <1>5, <1>6, <2>1, <2>2, <2>3 DEF StrictSubsetOrdering
<1> QED
  BY <1>0, <1>7

LEMMA HeadOfHistory ==
  ASSUME NEW h \in History
  PROVE  /\ HeadOf(h) \in Sha
         /\ h # {} => HeadOf(h) \in h
         /\ \A d \in h : d <= HeadOf(h)
<1>1. h \subseteq 1..MaxCommits
  BY DEF History
<1>2. \E c \in h \cup {0} : \A d \in h : d <= c
  BY HasHead
<1>3. HeadOf(h) \in h \cup {0} /\ \A d \in h : d <= HeadOf(h)
  BY <1>2 DEF HeadOf
<1>4. h # {} => HeadOf(h) \in h
  <2>1. SUFFICES ASSUME NEW d \in h, HeadOf(h) = 0 PROVE FALSE
    BY <1>3
  <2>2. d \in 1..MaxCommits /\ d <= 0
    BY <1>1, <1>3, <2>1
  <2> QED
    BY <2>2, CheckoutAssumption
<1>5. HeadOf(h) \in Sha
  <2>1. HeadOf(h) \in 1..MaxCommits \/ HeadOf(h) = 0
    BY <1>1, <1>3
  <2> QED
    BY <2>1, CheckoutAssumption DEF Sha
<1> QED
  BY <1>3, <1>4, <1>5

LEMMA FingerprintType == CheckoutTypeOK => Fingerprint \in Tree
BY DEF CheckoutTypeOK, Fingerprint, Tree

LEMMA EmptyTreeType == EmptyTree \in Tree /\ Changes(EmptyTree) = {}
BY DEF EmptyTree, Tree, Changes

\* Commits are numbered as they are made, and a history holds only commits that were.
Histories ==
  {main, origin_main} \cup {local[b] : b \in Branch}
    \cup {pushed[b] : b \in {c \in Branch : pushed[c] # None}}

HistoryInv ==
  /\ \E n \in 0..MaxCommits : Made = 1..n
  /\ \A h \in Histories : h \subseteq Made

CheckoutInv == CheckoutTypeOK /\ HistoryInv

LEMMA NextShaIsNew ==
  ASSUME CheckoutInv
  PROVE  NextSha \in Nat \ {0} /\ Made = 1..(NextSha - 1)
<1>1. PICK n \in 0..MaxCommits : Made = 1..n
  BY DEF CheckoutInv, HistoryInv
<1>2. n \in Nat /\ n >= 0
  BY CheckoutAssumption
<1>3. Cardinality(1..n) = n
  BY <1>2, FS_Interval
<1> QED
  BY <1>1, <1>2, <1>3 DEF NextSha

LEMMA HistoryTypes ==
  ASSUME CheckoutTypeOK
  PROVE  \A h \in Histories : h \in History
BY DEF CheckoutTypeOK, Histories

LEMMA HistoriesAre ==
  ASSUME CheckoutTypeOK
  PROVE  \A S : (\A h \in Histories : h \subseteq S) <=>
                 /\ main \subseteq S /\ origin_main \subseteq S
                 /\ \A b \in Branch : local[b] \subseteq S
                 /\ \A b \in Branch : pushed[b] # None => pushed[b] \subseteq S
BY DEF Histories

------------------------------------------------------------------------------
(* What the operations of the checkout do to the histories. *)
LEMMA HistoryInvFrom ==
  ASSUME CheckoutTypeOK, HistoryInv, Made' = Made,
         main' \subseteq Made, origin_main' \subseteq Made,
         \A b \in Branch : local'[b] \subseteq Made,
         \A b \in Branch : pushed'[b] # None => pushed'[b] \subseteq Made
  PROVE  HistoryInv'
BY DEF HistoryInv, Histories

LEMMA HistoriesAreMade ==
  ASSUME CheckoutInv
  PROVE  /\ main \subseteq Made /\ origin_main \subseteq Made
         /\ \A b \in Branch : local[b] \subseteq Made
         /\ \A b \in Branch : pushed[b] # None => pushed[b] \subseteq Made
BY DEF CheckoutInv, HistoryInv, Histories

LEMMA CheckoutStays == CheckoutInv /\ UNCHANGED checkout => CheckoutInv'
BY DEF CheckoutInv, CheckoutTypeOK, HistoryInv, Histories, Made, checkout

LEMMA WriteInv ==
  ASSUME CheckoutInv, NEW c \in Change, Write(c)
  PROVE  CheckoutInv'
<1>1. CheckoutTypeOK'
  BY DEF CheckoutInv, CheckoutTypeOK, Write
<1>2. HistoryInv'
  BY DEF CheckoutInv, HistoryInv, Histories, Made, Write
<1> QED
  BY <1>1, <1>2 DEF CheckoutInv

LEMMA RestoreInv == CheckoutInv /\ Restore => CheckoutInv'
BY DEF CheckoutInv, CheckoutTypeOK, HistoryInv, Histories, Made, Restore

LEMMA MergeInv == CheckoutInv /\ Merge => CheckoutInv'
<1> SUFFICES ASSUME CheckoutInv, Merge PROVE CheckoutInv'
  OBVIOUS
<1>1. PICK b \in Branch : pushed[b] # None /\ main' = pushed[b]
  BY DEF Merge
<1>2. UNCHANGED <<edits, files, branch, local, pushed, origin_main, content>>
  BY DEF Merge
<1>3. CheckoutTypeOK'
  BY <1>1, <1>2 DEF CheckoutInv, CheckoutTypeOK
<1>4. HistoryInv'
  BY <1>1, <1>2, HistoriesAreMade, HistoryInvFrom DEF CheckoutInv, Made
<1> QED
  BY <1>3, <1>4 DEF CheckoutInv

LEMMA FetchInv == CheckoutInv /\ FetchOnly => CheckoutInv'
<1> SUFFICES ASSUME CheckoutInv, FetchOnly PROVE CheckoutInv'
  OBVIOUS
<1>1. CheckoutTypeOK'
  BY DEF CheckoutInv, CheckoutTypeOK, FetchOnly
<1>2. HistoryInv'
  BY HistoriesAreMade, HistoryInvFrom DEF CheckoutInv, Made, FetchOnly
<1> QED
  BY <1>1, <1>2 DEF CheckoutInv

LEMMA SynchronizeInv ==
  ASSUME CheckoutInv, NEW b \in Branch, Synchronize(b)
  PROVE  CheckoutInv'
<1>1. local' \in [Branch -> History] /\ \A c \in Branch : local'[c] \subseteq Made
  BY HistoriesAreMade DEF CheckoutInv, CheckoutTypeOK, Synchronize
<1>2. CheckoutTypeOK'
  BY <1>1 DEF CheckoutInv, CheckoutTypeOK, Synchronize
<1>3. HistoryInv'
  BY <1>1, HistoriesAreMade, HistoryInvFrom DEF CheckoutInv, Made, Synchronize
<1> QED
  BY <1>2, <1>3 DEF CheckoutInv

LEMMA StagedType ==
  ASSUME CheckoutTypeOK, NEW baseline
  PROVE  Staged(baseline) \in Tree
BY DEF CheckoutTypeOK, Staged, Tree

LEMMA CommitMakes ==
  ASSUME CheckoutInv, NEW baseline, CommitAll(baseline)
  PROVE  /\ NextSha \in 1..MaxCommits /\ NextSha \notin Made
         /\ Made' = 1..NextSha
         /\ content' = [content EXCEPT ![NextSha] = Staged(baseline)]
         /\ \A c \in Made : content'[c] = content[c]
         /\ content'[NextSha] = Staged(baseline)
<1>1. NextSha \in Nat \ {0} /\ Made = 1..(NextSha - 1)
  BY NextShaIsNew
<1>2. NextSha \in 1..MaxCommits
  BY <1>1, CheckoutAssumption DEF CommitAll
<1>3. NextSha \notin Made
  BY <1>1
<1>4. /\ content' = [content EXCEPT ![NextSha] = Staged(baseline)]
      /\ Staged(baseline) # EmptyTree /\ content \in [1..MaxCommits -> Tree]
  BY DEF CommitAll, CheckoutInv, CheckoutTypeOK
<1> HIDE DEF NextSha
<1>5. Made' = Made \cup {NextSha}
  BY <1>2, <1>4 DEF Made
<1>6. Made' = 1..NextSha
  BY <1>1, <1>5
<1>7. Made \subseteq 1..MaxCommits
  BY DEF Made
<1> QED
  BY <1>2, <1>3, <1>4, <1>6, <1>7

LEMMA CommitInv ==
  ASSUME CheckoutInv, NEW baseline, CommitAll(baseline)
  PROVE  CheckoutInv'
<1>1. NextSha \in 1..MaxCommits /\ Made' = 1..NextSha
  BY CommitMakes
<1>2. Made \subseteq Made' /\ NextSha \in Made'
  BY <1>1, NextShaIsNew, CheckoutAssumption
<1> HIDE DEF NextSha
<1>3. local' \in [Branch -> History] /\ \A c \in Branch : local'[c] \subseteq Made'
  BY <1>1, <1>2, HistoriesAreMade DEF CheckoutInv, CheckoutTypeOK, CommitAll, History
<1>4. content' \in [1..MaxCommits -> Tree]
  BY <1>1, CommitMakes, StagedType DEF CheckoutInv, CheckoutTypeOK
<1>5. CheckoutTypeOK'
  BY <1>3, <1>4 DEF CheckoutInv, CheckoutTypeOK, CommitAll
<1>6. \A h \in Histories' : h \subseteq Made'
  BY <1>2, <1>3, HistoriesAreMade DEF Histories, CommitAll
<1>7. HistoryInv'
  BY <1>1, <1>6, CheckoutAssumption DEF HistoryInv
<1> QED
  BY <1>5, <1>7 DEF CheckoutInv

LEMMA PushKeeps ==
  ASSUME CheckoutInv, NEW b \in Branch, NEW accepted, pushed' = AfterPush(b, accepted)
  PROVE  /\ pushed' \in [Branch -> History \cup {None}]
         /\ \A c \in Branch : pushed'[c] # None => pushed'[c] \subseteq Made
BY HistoriesAreMade DEF CheckoutInv, CheckoutTypeOK, AfterPush

LEMMA PushInv ==
  ASSUME CheckoutInv, NEW b \in Branch, NEW accepted, pushed' = AfterPush(b, accepted),
         UNCHANGED <<edits, files, local, branch, main, origin_main, content>>
  PROVE  CheckoutInv'
<1>1. CheckoutTypeOK'
  BY PushKeeps DEF CheckoutInv, CheckoutTypeOK
<1>2. HistoryInv'
  BY PushKeeps, HistoriesAreMade, HistoryInvFrom DEF CheckoutInv, Made
<1> QED
  BY <1>1, <1>2 DEF CheckoutInv

LEMMA ResetInv ==
  ASSUME CheckoutInv, NEW b \in Branch, NEW accepted, pushed' = AfterPush(b, accepted),
         local[branch] # {}, ResetMixed,
         UNCHANGED <<branch, main, origin_main, content>>
  PROVE  CheckoutInv'
<1>1. HeadOf(local[branch]) \in 1..MaxCommits
  BY HeadOfHistory DEF CheckoutInv, CheckoutTypeOK, History
<1>2. content[HeadOf(local[branch])] \in Tree
  BY <1>1 DEF CheckoutInv, CheckoutTypeOK
<1>3. /\ local' = [local EXCEPT ![branch] = @ \ {HeadOf(local[branch])}]
      /\ edits' = edits \cup content[HeadOf(local[branch])].edits
      /\ files' = files \cup content[HeadOf(local[branch])].files
  BY DEF ResetMixed
<1>4. edits' \in SUBSET Change /\ files' \in SUBSET Change
  BY <1>2, <1>3 DEF CheckoutInv, CheckoutTypeOK, Tree
<1>5. local' \in [Branch -> History] /\ \A c \in Branch : local'[c] \subseteq Made
  BY <1>3, HistoriesAreMade DEF CheckoutInv, CheckoutTypeOK, History
<1>6. CheckoutTypeOK'
  BY <1>4, <1>5, PushKeeps DEF CheckoutInv, CheckoutTypeOK
<1>7. HistoryInv'
  BY <1>5, PushKeeps, HistoriesAreMade, HistoryInvFrom DEF CheckoutInv, Made
<1> QED
  BY <1>6, <1>7 DEF CheckoutInv

LEMMA CheckoutInitInv == CheckoutInit => CheckoutInv
<1> SUFFICES ASSUME CheckoutInit PROVE CheckoutInv
  OBVIOUS
<1>1. CheckoutTypeOK
  BY CheckoutAssumption DEF CheckoutInit, CheckoutTypeOK, Branch, History, Tree, EmptyTree
<1>2. Made = 1..0 /\ 0 \in 0..MaxCommits
  BY CheckoutAssumption DEF CheckoutInit, Made
<1>3. \A h \in Histories : h = {}
  BY DEF CheckoutInit, Histories
<1> QED
  BY <1>1, <1>2, <1>3 DEF CheckoutInv, HistoryInv

------------------------------------------------------------------------------
(* The changes of the state record. *)

\* A run goes on only below the limits.
Active(s) ==
  s.consecutive_failures < MaxFailures /\ s.consecutive_no_progress < MaxNoProgress

Final(s) == s.state \in {"STOPPED", "ERROR", "BLOCKED", "COMPLETED"}

Successful(s) == s.state \in {"COMPLETED", "ITERATION_SUCCEEDED"}

SameRecovery(s, t) ==
  /\ t.pending_ci_fix = s.pending_ci_fix
  /\ t.pending_ci_baseline_untracked = s.pending_ci_baseline_untracked
  /\ t.pending_ci_worktree_fingerprint = s.pending_ci_worktree_fingerprint

SameObservation(s, t) ==
  /\ t.iteration_baseline = s.iteration_baseline
  /\ t.iteration_observed = s.iteration_observed
  /\ t.execution_requested = s.execution_requested

SameDelivery(s, t) ==
  t.branch_name = s.branch_name /\ t.last_commit_sha = s.last_commit_sha

SameRun(s, t) ==
  /\ t.state = s.state
  /\ t.consecutive_failures = s.consecutive_failures
  /\ t.consecutive_no_progress = s.consecutive_no_progress

\* t says of the checkout what s says.
Kept(s, t) == SameRecovery(s, t) /\ SameObservation(s, t) /\ SameDelivery(s, t)

LEMMA KeptIsTransitive ==
  ASSUME NEW s, NEW t, NEW u, Kept(s, t), Kept(t, u)
  PROVE  Kept(s, u)
BY DEF Kept, SameRecovery, SameObservation, SameDelivery

LEMMA KeptByItself == ASSUME NEW s PROVE Kept(s, s) /\ SameRun(s, s)
BY DEF Kept, SameRecovery, SameObservation, SameDelivery, SameRun

LEMMA ToType ==
  ASSUME NEW s \in AgentState, NEW r \in RunState
  PROVE  /\ To(s, r) \in AgentState /\ Kept(s, To(s, r)) /\ To(s, r).state = r
         /\ To(s, r).consecutive_failures = s.consecutive_failures
         /\ To(s, r).consecutive_no_progress = s.consecutive_no_progress
<1>1. To(s, r) \in AgentState
  BY DEF To, AgentState
<1> QED
  BY <1>1 DEF To, AgentState, Kept, SameRecovery, SameObservation, SameDelivery

LEMMA MarkFailureType ==
  ASSUME NEW s \in AgentState, s.consecutive_failures < MaxFailures
  PROVE  /\ MarkFailure(s) \in AgentState /\ Kept(s, MarkFailure(s))
         /\ MarkFailure(s).state = "ERROR"
         /\ MarkFailure(s).consecutive_no_progress = s.consecutive_no_progress
<1>1. s.consecutive_failures + 1 \in 0..MaxFailures
  BY DeliveryAssumption DEF AgentState
<1>2. MarkFailure(s) \in AgentState
  BY <1>1 DEF MarkFailure, AgentState, RunState
<1> QED
  BY <1>2 DEF MarkFailure, AgentState, Kept, SameRecovery, SameObservation, SameDelivery

LEMMA MarkNoProgressType ==
  ASSUME NEW s \in AgentState, s.consecutive_no_progress < MaxNoProgress
  PROVE  /\ MarkNoProgress(s) \in AgentState /\ Kept(s, MarkNoProgress(s))
         /\ MarkNoProgress(s).state = "ERROR"
         /\ MarkNoProgress(s).consecutive_failures = s.consecutive_failures
<1>1. s.consecutive_no_progress + 1 \in 0..MaxNoProgress
  BY DeliveryAssumption DEF AgentState
<1>2. MarkNoProgress(s) \in AgentState
  BY <1>1 DEF MarkNoProgress, AgentState, RunState
<1> QED
  BY <1>2 DEF MarkNoProgress, AgentState, Kept, SameRecovery, SameObservation, SameDelivery

LEMMA BegunType ==
  ASSUME NEW s \in AgentState
  PROVE  /\ Begun(s) \in AgentState /\ Kept(s, Begun(s)) /\ Begun(s).state = "WORKING"
         /\ Begun(s).consecutive_failures = s.consecutive_failures
         /\ Begun(s).consecutive_no_progress = s.consecutive_no_progress
<1> DEFINE i == IF s.iteration < MaxIterations THEN s.iteration + 1 ELSE s.iteration
<1>1. i \in 0..MaxIterations
  BY DeliveryAssumption DEF AgentState
<1>2. Begun(s) = [s EXCEPT !.state = "WORKING", !.iteration = i]
  BY DEF Begun, AgentState
<1> HIDE DEF i
<1>3. Begun(s) \in AgentState
  BY <1>1, <1>2 DEF AgentState, RunState
<1> QED
  BY <1>2, <1>3 DEF AgentState, Kept, SameRecovery, SameObservation, SameDelivery

LEMMA RollingType ==
  ASSUME NEW s \in AgentState, s.rollover_count < MaxRollovers,
         NEW t, t = [To(s, "ROLLOVER") EXCEPT !.rollover_count = @ + 1]
  PROVE  /\ t \in AgentState /\ Kept(s, t) /\ t.state = "ROLLOVER"
         /\ t.consecutive_failures = s.consecutive_failures
         /\ t.consecutive_no_progress = s.consecutive_no_progress
<1>1. s.rollover_count + 1 \in 0..MaxRollovers
  BY DeliveryAssumption DEF AgentState
<1>2. t = [s EXCEPT !.state = "ROLLOVER", !.rollover_count = s.rollover_count + 1]
  BY DEF To, AgentState
<1>3. t \in AgentState
  BY <1>1, <1>2 DEF AgentState, RunState
<1> QED
  BY <1>2, <1>3 DEF AgentState, Kept, SameRecovery, SameObservation, SameDelivery

LEMMA ClearedType ==
  ASSUME NEW s \in AgentState
  PROVE  /\ Cleared(s) \in AgentState
         /\ SameObservation(s, Cleared(s)) /\ SameDelivery(s, Cleared(s))
         /\ SameRun(s, Cleared(s))
         /\ ~ Cleared(s).pending_ci_fix
         /\ Cleared(s).pending_ci_worktree_fingerprint = None
<1>1. Cleared(s) \in AgentState
  BY DEF Cleared, AgentState
<1> QED
  BY <1>1 DEF Cleared, AgentState, SameObservation, SameDelivery, SameRun

LEMMA RecordDirtyType ==
  ASSUME NEW s \in AgentState, NEW baseline \in Tree, NEW tree \in Tree \cup {None}
  PROVE  /\ RecordDirty(s, baseline, tree) \in AgentState
         /\ SameObservation(s, RecordDirty(s, baseline, tree))
         /\ SameDelivery(s, RecordDirty(s, baseline, tree))
         /\ SameRun(s, RecordDirty(s, baseline, tree))
         /\ RecordDirty(s, baseline, tree).pending_ci_fix
         /\ RecordDirty(s, baseline, tree).pending_ci_baseline_untracked = baseline.files
         /\ RecordDirty(s, baseline, tree).pending_ci_worktree_fingerprint = tree
<1>1. baseline.files \in SUBSET Change
  BY DEF Tree
<1>2. RecordDirty(s, baseline, tree) \in AgentState
  BY <1>1 DEF RecordDirty, AgentState
<1> QED
  BY <1>2 DEF RecordDirty, AgentState, SameObservation, SameDelivery, SameRun

LEMMA NewStateType ==
  ASSUME NEW b \in 1..MaxRuns
  PROVE  /\ NewState(b) \in AgentState
         /\ NewState(b).branch_name = b /\ ~ NewState(b).pending_ci_fix
         /\ NewState(b).pending_ci_worktree_fingerprint = None
         /\ NewState(b).iteration_baseline = None /\ NewState(b).iteration_observed = None
         /\ NewState(b).consecutive_failures = 0 /\ NewState(b).consecutive_no_progress = 0
         /\ NewState(b).state = "IDLE"
<1>1. NewState(b) \in AgentState
  BY DeliveryAssumption DEF NewState, AgentState, RunState
<1> QED
  BY <1>1 DEF NewState

------------------------------------------------------------------------------
(* The process. *)
Snapshots == [head : Sha, upstream : Sha, tree : Tree]

ProcessTypeOK ==
  /\ saved \in AgentState \cup {None}
  /\ pc \in Place
  /\ kind \in {"once", "loop", None}
  /\ state \in AgentState \cup {None}
  /\ before \in Snapshots \cup {None}
  /\ after \in Tree \cup {None}
  /\ rounds \in 0..MaxRounds
  /\ rollover \in {"attach", "iteration", "handler", "scheduled", None}
  /\ reference \in Tree \cup {None}

AuxiliaryTypeOK ==
  /\ starts \in 0..MaxStarts
  /\ written \in 0..MaxChanges
  /\ ops \in 0..MaxOps
  /\ own \in SUBSET Operator
  /\ undone \in SUBSET Change
  /\ validated \in SUBSET Change
  /\ failed \in {"once", "loop", None}
  /\ interrupted \in SUBSET Agent

\* Between the preflight and the end of the iteration.
InIteration ==
  \/ pc \in {"ask", "observe", "verify", "ci", "commit", "push", "remote"}
  \/ kind = "once" /\ pc \in {"attach", "resume"}

\* What a place of the process takes for granted.
ControlInv ==
  /\ IF pc = "idle" THEN state = None /\ kind = None
     ELSE state \in AgentState /\ kind \in {"once", "loop"}
  /\ InIteration => before \in Snapshots
  /\ pc = "resume" => /\ reference \in Tree
                      /\ rollover \in {"attach", "iteration", "handler", "scheduled"}
                      /\ rollover \in {"iteration", "handler"} => before \in Snapshots
  /\ kind = "once" => /\ pc \notin {"iterate", "delivered"}
                      /\ pc = "resume" => rollover = "attach"
  /\ kind = "loop" => pc # "interrupted"
  /\ pc \in {"ci", "commit"} => after \in Tree
  /\ pc = "observe" => rounds < MaxRounds

CounterInv ==
  /\ state # None => Active(state)
  /\ saved # None => Final(saved) \/ Active(saved)

\* Branches are used in the order of their numbers; the checkout is on the run's branch
\* from the preflight on.
BranchInv ==
  /\ \A b \in Branch : b > branch => local[b] = {}
  /\ IF saved = None THEN branch = 0 ELSE branch <= saved.branch_name
  /\ state # None => /\ branch <= state.branch_name
                     /\ saved # None => saved.branch_name <= state.branch_name
                     /\ kind = "loop" => saved # None /\ saved.branch_name = state.branch_name
  /\ InIteration \/ pc = "delivered" => branch = state.branch_name
  /\ pc \in {"push", "remote"} => local[branch] # {}

ProcessInv == ProcessTypeOK /\ ControlInv /\ CounterInv /\ BranchInv

TypeInv == CheckoutInv /\ ProcessInv /\ AuxiliaryTypeOK

\* A branch whose number is above the one checked out has no commits.
NoneAbove == \A b \in Branch : b > branch => local'[b] = {}

(* How an iteration ends, with the record it leaves. *)
Recorded(s, t) ==
  /\ s \in AgentState /\ t \in AgentState /\ Kept(s, t)
  /\ Final(t) \/ Active(t)
  /\ Successful(t) => Successful(s)

Stopped(s) ==
  /\ saved' = saved \/ Recorded(s, saved')
  /\ pc' = "idle" /\ kind' = None /\ state' = None
  /\ before' = None /\ after' = None /\ rounds' = 0
  /\ rollover' = None /\ reference' = None

GoesOn(s) ==
  /\ Recorded(s, state') /\ Active(state') /\ saved' = state'
  /\ kind = "loop" /\ kind' = kind /\ pc' = "iterate"
  /\ before' = None /\ after' = None /\ rounds' = 0
  /\ rollover' = None /\ reference' = None

RollsOver(s, why, baseline) ==
  /\ Recorded(s, state') /\ Active(state') /\ ~ Successful(state')
  /\ pc' = "resume" /\ rollover' = why /\ reference' = baseline
  /\ UNCHANGED <<saved, kind, before, after, rounds>>

LEMMA RunStates ==
  {"IDLE", "STARTING", "WORKING", "ITERATION_SUCCEEDED", "ROLLOVER",
   "BLOCKED", "STOPPED", "COMPLETED", "ERROR"} = RunState
BY DEF RunState

LEMMA EndStops ==
  ASSUME NEW s, NEW t, Recorded(s, t), End(t)
  PROVE  Stopped(s)
BY DEF End, Stopped

LEMMA RecordedAs ==
  ASSUME NEW s \in AgentState, NEW r \in {"STOPPED", "ERROR", "BLOCKED"}
  PROVE  Recorded(s, To(s, r))
BY ToType, RunStates DEF Recorded, Final, Successful

LEMMA FailureRecorded ==
  ASSUME NEW s \in AgentState, Active(s)
  PROVE  /\ Recorded(s, MarkFailure(s)) /\ MarkFailure(s) \in AgentState
         /\ Recorded(s, To(MarkFailure(s), "STOPPED"))
<1>1. /\ MarkFailure(s) \in AgentState /\ Kept(s, MarkFailure(s))
      /\ MarkFailure(s).state = "ERROR"
  BY MarkFailureType DEF Active
<1>2. Recorded(s, MarkFailure(s))
  BY <1>1 DEF Recorded, Final, Successful
<1>3. /\ To(MarkFailure(s), "STOPPED") \in AgentState
      /\ Kept(MarkFailure(s), To(MarkFailure(s), "STOPPED"))
      /\ To(MarkFailure(s), "STOPPED").state = "STOPPED"
  BY <1>1, ToType, RunStates
<1>4. Kept(s, To(MarkFailure(s), "STOPPED"))
  BY <1>1, <1>3, KeptIsTransitive
<1> QED
  BY <1>1, <1>2, <1>3, <1>4 DEF Recorded, Final, Successful

LEMMA FailLoopEnds ==
  ASSUME NEW s \in AgentState, Active(s), kind = "loop", FailLoop(s)
  PROVE  Stopped(s) \/ GoesOn(s)
<1>1. CASE MarkFailure(s).consecutive_failures >= MaxFailures
  <2>1. End(To(MarkFailure(s), "STOPPED"))
    BY <1>1 DEF FailLoop
  <2> QED
    BY <2>1, EndStops, FailureRecorded
<1>2. CASE ~ (MarkFailure(s).consecutive_failures >= MaxFailures)
  <2>1. saved' = MarkFailure(s) /\ NextIteration(MarkFailure(s))
    BY <1>2 DEF FailLoop, SaveAndIterate
  <2>2. MarkFailure(s).consecutive_failures < MaxFailures
    BY <1>2, FailureRecorded, DeliveryAssumption DEF AgentState
  <2>3. MarkFailure(s).consecutive_no_progress = s.consecutive_no_progress
    BY MarkFailureType DEF Active
  <2>4. Active(MarkFailure(s))
    BY <2>2, <2>3 DEF Active
  <2> QED
    BY <2>1, <2>4, FailureRecorded DEF NextIteration, GoesOn
<1> QED
  BY <1>1, <1>2

LEMMA FailEnds ==
  ASSUME NEW s \in AgentState, Active(s), kind \in {"once", "loop"}, Fail(s)
  PROVE  Stopped(s) \/ GoesOn(s)
<1>1. CASE kind = "once"
  BY <1>1, FailureRecorded, EndStops DEF Fail
<1>2. CASE kind = "loop"
  BY <1>2, FailLoopEnds DEF Fail
<1> QED
  BY <1>1, <1>2

LEMMA StopLoopStops ==
  ASSUME NEW s \in AgentState, StopLoop(s)
  PROVE  Stopped(s)
BY RecordedAs, EndStops DEF StopLoop

LEMMA RollOverRolls ==
  ASSUME NEW s \in AgentState, Active(s), NEW why, NEW baseline, RollOver(why, baseline, s)
  PROVE  RollsOver(s, why, baseline)
<1> DEFINE t == [To(s, "ROLLOVER") EXCEPT !.rollover_count = @ + 1]
<1>1. state' = t /\ s.rollover_count < MaxRollovers
  BY DEF RollOver
<1>2. /\ t \in AgentState /\ Kept(s, t) /\ t.state = "ROLLOVER"
      /\ t.consecutive_failures = s.consecutive_failures
      /\ t.consecutive_no_progress = s.consecutive_no_progress
  BY <1>1, RollingType
<1> HIDE DEF t
<1>3. Recorded(s, t) /\ Active(t) /\ ~ Successful(t)
  BY <1>2 DEF Recorded, Active, Successful
<1> QED
  BY <1>1, <1>3 DEF RollOver, RollsOver

LEMMA LoopExceptionEnds ==
  ASSUME NEW s \in AgentState, Active(s), kind = "loop", LoopException(s)
  PROVE  Stopped(s) \/ GoesOn(s) \/ RollsOver(s, "handler", before.tree)
<1>1. CASE FailLoop(s)
  BY <1>1, FailLoopEnds
<1>2. CASE StopLoop(s)
  BY <1>2, StopLoopStops
<1>3. CASE SaveAndIterate(s)
  <2>1. Recorded(s, s)
    BY KeptByItself DEF Recorded
  <2> QED
    BY <1>3, <2>1 DEF SaveAndIterate, NextIteration, GoesOn
<1>4. CASE RollOver("handler", before.tree, s)
  BY <1>4, RollOverRolls
<1> QED
  BY <1>1, <1>2, <1>3, <1>4 DEF LoopException

LEMMA OuterExceptionStops ==
  ASSUME ProcessInv, OuterException
  PROVE  Stopped(saved)
<1> DEFINE counted == /\ saved # None
                      /\ saved.state \in {"WORKING", "STARTING", "ROLLOVER"}
                           \cup IF kind = "loop" THEN {"ITERATION_SUCCEEDED"} ELSE {}
<1>1. CASE counted
  <2>1. saved \in AgentState /\ Active(saved)
    BY <1>1 DEF ProcessInv, ProcessTypeOK, CounterInv, Final
  <2>2. End(MarkFailure(saved))
    BY <1>1 DEF OuterException
  <2> QED
    BY <2>1, <2>2, FailureRecorded, EndStops
<1>2. CASE ~ counted
  <2>1. End(saved)
    BY <1>2 DEF OuterException
  <2> QED
    BY <2>1 DEF End, Stopped
<1> QED
  BY <1>1, <1>2

LEMMA StoppedInv ==
  ASSUME ProcessInv, NEW s, Stopped(s),
         saved' = saved \/ branch <= s.branch_name,
         branch' = branch, NoneAbove
  PROVE  ProcessInv'
<1>1. saved' \in AgentState \cup {None}
  BY DEF ProcessInv, ProcessTypeOK, Stopped, Recorded
<1>2. ProcessTypeOK'
  BY <1>1, DeliveryAssumption DEF ProcessTypeOK, Stopped, Place
<1>3. ControlInv'
  BY DEF Stopped, ControlInv, InIteration
<1>4. CounterInv'
  BY DEF ProcessInv, CounterInv, Stopped, Recorded
<1>5. IF saved' = None THEN branch = 0 ELSE branch <= saved'.branch_name
  BY NoStateAssumption
     DEF ProcessInv, BranchInv, Stopped, Recorded, Kept, SameDelivery
<1>6. BranchInv'
  BY <1>5 DEF BranchInv, Stopped, NoneAbove, InIteration
<1> QED
  BY <1>2, <1>3, <1>4, <1>6 DEF ProcessInv

LEMMA GoesOnInv ==
  ASSUME ProcessInv, NEW s, GoesOn(s), branch <= s.branch_name, branch' = branch, NoneAbove
  PROVE  ProcessInv'
<1>1. /\ state' \in AgentState /\ saved' = state' /\ kind = "loop" /\ kind' = "loop"
      /\ pc' = "iterate" /\ Active(state') /\ state'.branch_name = s.branch_name
      /\ before' = None /\ after' = None /\ rounds' = 0 /\ rollover' = None
      /\ reference' = None
  BY DEF GoesOn, Recorded, Kept, SameDelivery
<1>2. ProcessTypeOK'
  BY <1>1, DeliveryAssumption DEF ProcessTypeOK, Place
<1>3. ControlInv'
  BY <1>1 DEF ControlInv, InIteration
<1>4. CounterInv'
  BY <1>1 DEF CounterInv, Active
<1>5. state'.branch_name \in Int
  BY <1>1 DEF AgentState
<1>6. BranchInv'
  BY <1>1, <1>5, NoStateAssumption DEF BranchInv, NoneAbove, InIteration
<1> QED
  BY <1>2, <1>3, <1>4, <1>6 DEF ProcessInv

LEMMA RollsOverInv ==
  ASSUME ProcessInv, NEW s, NEW why, NEW baseline, RollsOver(s, why, baseline),
         state \in AgentState, s.branch_name = state.branch_name,
         baseline \in Tree, why \in {"attach", "iteration", "handler", "scheduled"},
         why \in {"iteration", "handler"} \/ kind = "once" => before \in Snapshots,
         kind \in {"once", "loop"}, kind = "once" => why = "attach" /\ InIteration,
         UNCHANGED <<branch, local>>
  PROVE  ProcessInv'
<1>1. /\ state' \in AgentState /\ Active(state') /\ state'.branch_name = state.branch_name
      /\ pc' = "resume" /\ rollover' = why /\ reference' = baseline
      /\ UNCHANGED <<saved, kind, before, after, rounds>>
  BY DEF RollsOver, Recorded, Kept, SameDelivery
<1>2. ProcessTypeOK'
  BY <1>1 DEF ProcessInv, ProcessTypeOK, Place
<1>3. ControlInv'
  BY <1>1 DEF ControlInv, InIteration
<1>4. CounterInv'
  BY <1>1 DEF ProcessInv, CounterInv, Active, Final
<1>5. BranchInv'
  BY <1>1, NoStateAssumption DEF ProcessInv, BranchInv, InIteration
<1> QED
  BY <1>2, <1>3, <1>4, <1>5 DEF ProcessInv

------------------------------------------------------------------------------
(* The steps that end an iteration without a change of the checkout. *)
Ends(s) == Stopped(s) \/ GoesOn(s)

DirtyRecord == RecordDirty(state, before.tree, Fingerprint)

FailingStep ==
  \/ Stopped(saved)
  \/ pc # "idle" /\ Ends(state)
  \/ pc = "interrupted" /\ Ends(PushedDescendant(state))
  \/ InIteration /\ Ends(DirtyRecord)
  \/ pc = "commit" /\ Ends(RecordDirty(state, before.tree, EmptyTree))
  \/ pc = "attach" /\ RollsOver(state, "attach", Fingerprint)
  \/ pc = "delivered" /\ RollsOver(state, "scheduled", Fingerprint)
  \/ pc = "ask" /\ kind = "loop" /\ RollsOver(state, "iteration", before.tree)
  \/ /\ pc \in {"ask", "observe"} /\ kind = "loop"
     /\ \/ RollsOver(state, "handler", before.tree)
        \/ RollsOver(DirtyRecord, "handler", before.tree)

LEMMA AtWork ==
  ASSUME ProcessInv, pc # "idle"
  PROVE  /\ state \in AgentState /\ Active(state) /\ kind \in {"once", "loop"}
         /\ state.branch_name \in 1..MaxRuns
         /\ branch <= state.branch_name
<1>1. state \in AgentState /\ kind \in {"once", "loop"} /\ state # None
  BY NoStateAssumption DEF ProcessInv, ControlInv
<1> QED
  BY <1>1 DEF ProcessInv, CounterInv, BranchInv, AgentState

LEMMA InIterationFacts ==
  ASSUME ProcessInv, InIteration
  PROVE  /\ pc # "idle" /\ before \in Snapshots /\ before.tree \in Tree
         /\ branch = state.branch_name
<1>1. pc # "idle" /\ before \in Snapshots /\ branch = state.branch_name
  BY DEF InIteration, ProcessInv, ControlInv, BranchInv
<1> QED
  BY <1>1 DEF Snapshots

LEMMA DirtyRecordType ==
  ASSUME ProcessInv, InIteration, NEW tree \in Tree \cup {None}
  PROVE  /\ RecordDirty(state, before.tree, tree) \in AgentState
         /\ Active(RecordDirty(state, before.tree, tree))
         /\ RecordDirty(state, before.tree, tree).branch_name = state.branch_name
BY AtWork, InIterationFacts, RecordDirtyType DEF SameDelivery, SameRun, Active

LEMMA DirtiedIs ==
  ASSUME NEW tree
  PROVE  Dirtied(tree) = state \/ Dirtied(tree) = RecordDirty(state, before.tree, tree)
BY DEF Dirtied

LEMMA PushedDescendantType ==
  ASSUME NEW s \in AgentState
  PROVE  /\ PushedDescendant(s) \in {s, Cleared(s)} /\ PushedDescendant(s) \in AgentState
         /\ PushedDescendant(s).branch_name = s.branch_name
         /\ Active(s) => Active(PushedDescendant(s))
         /\ PushedDescendant(s).state = s.state
BY ClearedType DEF PushedDescendant, SameDelivery, SameRun, Active

LEMMA BrowserFails ==
  ASSUME ProcessInv, CheckoutInv,
         \/ AttachBlocked \/ AttachFails \/ RolloverAtAttach \/ RolloverInIteration
         \/ ScheduledRollover \/ StopAtLimit \/ AskFails \/ ResolveFails
  PROVE  FailingStep
<1>1. CASE AttachBlocked
  BY <1>1, AtWork, RecordedAs, EndStops DEF AttachBlocked, FailingStep, Ends
<1>2. CASE AttachFails
  BY <1>2, OuterExceptionStops DEF AttachFails, FailingStep
<1>3. CASE RolloverAtAttach
  BY <1>3, AtWork, OuterExceptionStops, StopLoopStops, RollOverRolls
     DEF RolloverAtAttach, FailingStep, Ends
<1>4. CASE RolloverInIteration
  <2>1. pc = "ask" /\ kind = "loop" /\ InIteration
    BY <1>4 DEF RolloverInIteration, InIteration
  <2>2. state \in AgentState /\ Active(state) /\ DirtyRecord \in AgentState
    BY <2>1, AtWork, DirtyRecordType, FingerprintType DEF CheckoutInv, DirtyRecord
  <2>3. CASE RollOver("iteration", before.tree, state)
    BY <2>1, <2>2, <2>3, RollOverRolls DEF FailingStep
  <2>4. CASE StopLoop(Dirtied(Fingerprint))
    <3>1. Stopped(state) \/ Stopped(DirtyRecord)
      BY <2>2, <2>4, DirtiedIs, StopLoopStops DEF DirtyRecord
    <3> QED
      BY <2>1, <3>1 DEF FailingStep, Ends
  <2> QED
    BY <1>4, <2>3, <2>4 DEF RolloverInIteration
<1>5. CASE ScheduledRollover
  BY <1>5, AtWork, StopLoopStops, RollOverRolls DEF ScheduledRollover, FailingStep, Ends
<1>6. CASE StopAtLimit
  BY <1>6, AtWork, StopLoopStops DEF StopAtLimit, FailingStep, Ends
<1>7. CASE AskFails
  BY <1>7, AtWork, FailureRecorded, EndStops DEF AskFails, FailingStep, Ends
<1>8. CASE ResolveFails
  <2>1. pc \in {"ask", "observe"} /\ InIteration /\ pc # "idle"
    BY <1>8 DEF ResolveFails, InIteration
  <2>2. PICK s \in {state, DirtyRecord} : s = Dirtied(Fingerprint)
    BY DirtiedIs DEF DirtyRecord
  <2>3. s \in AgentState /\ Active(s)
    BY <2>1, AtWork, DirtyRecordType, FingerprintType DEF CheckoutInv, DirtyRecord
  <2>4. CASE kind = "once"
    <3>1. Stopped(s)
      BY <1>8, <2>2, <2>3, <2>4, FailureRecorded, EndStops DEF ResolveFails
    <3> QED
      BY <2>1, <2>2, <3>1 DEF FailingStep, Ends
  <2>5. CASE kind # "once"
    <3>1. kind = "loop" /\ LoopException(s)
      BY <1>8, <2>1, <2>2, <2>5, AtWork DEF ResolveFails
    <3>2. Stopped(s) \/ GoesOn(s) \/ RollsOver(s, "handler", before.tree)
      BY <2>3, <3>1, LoopExceptionEnds
    <3> QED
      BY <2>1, <2>2, <3>1, <3>2 DEF FailingStep, Ends
  <2> QED
    BY <2>4, <2>5
<1> QED
  BY <1>1, <1>2, <1>3, <1>4, <1>5, <1>6, <1>7, <1>8

LEMMA PreflightEnds ==
  ASSUME ProcessInv, CheckoutInv,
         PreflightFails \/ InterruptedConflict \/ RefuseRecovery \/ RefuseTrackedChanges
           \/ RefuseSync
  PROVE  FailingStep
<1>1. CASE \/ PreflightFails \/ RefuseRecovery \/ RefuseTrackedChanges \/ RefuseSync
  <2>1. pc # "idle" /\ IF kind = "once" THEN OuterException ELSE FailLoop(state)
    BY <1>1 DEF PreflightFails, RefuseRecovery, RefuseTrackedChanges, RefuseSync,
                PreflightRefused
  <2>2. CASE kind = "once"
    BY <2>1, <2>2, OuterExceptionStops DEF FailingStep
  <2>3. CASE kind # "once"
    BY <2>1, <2>3, AtWork, FailLoopEnds DEF FailingStep, Ends
  <2> QED
    BY <2>2, <2>3
<1>2. CASE InterruptedConflict
  <2> DEFINE s == PushedDescendant(state)
  <2>1. pc = "interrupted" /\ s \in AgentState /\ Active(s)
    BY <1>2, AtWork, PushedDescendantType DEF InterruptedConflict
  <2>2. End(IF s.state = "WORKING" THEN MarkFailure(s) ELSE s)
    BY <1>2 DEF InterruptedConflict
  <2> HIDE DEF s
  <2>3. Recorded(s, s) /\ Recorded(s, MarkFailure(s))
    BY <2>1, KeptByItself, FailureRecorded DEF Recorded
  <2>4. Stopped(s)
    BY <2>2, <2>3, EndStops
  <2> QED
    BY <2>1, <2>4 DEF FailingStep, Ends, s
<1> QED
  BY <1>1, <1>2

LEMMA NoProgressEnds ==
  ASSUME ProcessInv, pc # "idle", NoProgress
  PROVE  Ends(state)
<1> DEFINE s == MarkNoProgress(state)
<1>1. state \in AgentState /\ Active(state) /\ kind \in {"once", "loop"}
  BY AtWork
<1>2. /\ s \in AgentState /\ Kept(state, s) /\ s.state = "ERROR"
      /\ s.consecutive_failures = state.consecutive_failures
  BY <1>1, MarkNoProgressType DEF Active
<1>3. IF kind = "loop" /\ s.consecutive_no_progress < MaxNoProgress
      THEN saved' = s /\ NextIteration(s)
      ELSE End(IF s.consecutive_no_progress >= MaxNoProgress THEN To(s, "STOPPED") ELSE s)
  BY DEF NoProgress, SaveAndIterate
<1> HIDE DEF s
<1>4. Recorded(state, s)
  BY <1>1, <1>2 DEF Recorded, Final, Successful
<1>5. Recorded(state, To(s, "STOPPED"))
  <2>1. /\ To(s, "STOPPED") \in AgentState /\ Kept(s, To(s, "STOPPED"))
        /\ To(s, "STOPPED").state = "STOPPED"
    BY <1>2, ToType, RunStates
  <2>2. Kept(state, To(s, "STOPPED"))
    BY <1>2, <2>1, KeptIsTransitive
  <2> QED
    BY <1>1, <2>1, <2>2 DEF Recorded, Final, Successful
<1>6. CASE kind = "loop" /\ s.consecutive_no_progress < MaxNoProgress
  <2>1. Active(s)
    BY <1>1, <1>2, <1>6 DEF Active
  <2> QED
    BY <1>3, <1>4, <1>6, <2>1 DEF NextIteration, GoesOn, Ends
<1>7. CASE ~ (kind = "loop" /\ s.consecutive_no_progress < MaxNoProgress)
  BY <1>3, <1>4, <1>5, <1>7, EndStops DEF Ends
<1> QED
  BY <1>6, <1>7

LEMMA DeliveryFails ==
  ASSUME ProcessInv, CheckoutInv,
         \/ pc = "verify" /\ NoProgress
         \/ VerificationRaises \/ DeadlineBeforeCI \/ DeadlineBeforeCommit
         \/ NothingStaged \/ CommitFails \/ RemoteFails \/ RemoteRaises
  PROVE  FailingStep
<1>1. InIteration /\ pc # "idle"
  BY DEF InIteration, VerificationRaises, DeadlineBeforeCI, DeadlineBeforeCommit,
         NothingStaged, CommitFails, RemoteFails, RemoteRaises
<1>2. state \in AgentState /\ Active(state) /\ kind \in {"once", "loop"}
  BY <1>1, AtWork
<1>3. DirtyRecord \in AgentState /\ Active(DirtyRecord)
  BY <1>1, DirtyRecordType, FingerprintType DEF CheckoutInv, DirtyRecord
<1>4. PICK s \in {state, DirtyRecord} : s = Dirtied(Fingerprint)
  BY DirtiedIs DEF DirtyRecord
<1>5. Ends(state) \/ Ends(DirtyRecord) => FailingStep
  BY <1>1 DEF FailingStep
<1>6. CASE pc = "verify" /\ NoProgress
  BY <1>1, <1>5, <1>6, NoProgressEnds
<1>7. CASE VerificationRaises
  BY <1>2, <1>3, <1>4, <1>5, <1>7, FailEnds, StopLoopStops DEF VerificationRaises, Ends
<1>8. CASE DeadlineBeforeCI
  BY <1>3, <1>5, <1>8, StopLoopStops DEF DeadlineBeforeCI, Ends, DirtyRecord
<1>9. CASE DeadlineBeforeCommit
  <2>1. RecordDirty(state, before.tree, EmptyTree) \in AgentState
    BY <1>1, DirtyRecordType, EmptyTreeType
  <2>2. CASE StopLoop(RecordDirty(state, before.tree, ElsewhereTree))
    BY <1>9, <2>1, <2>2, StopLoopStops
       DEF DeadlineBeforeCommit, ElsewhereTree, FailingStep, Ends
  <2>3. CASE FailLoop(Dirtied(Fingerprint))
    BY <1>2, <1>3, <1>4, <1>5, <1>9, <2>3, FailLoopEnds DEF DeadlineBeforeCommit, Ends
  <2> QED
    BY <1>9, <2>2, <2>3 DEF DeadlineBeforeCommit
<1>10. CASE NothingStaged
  BY <1>2, <1>3, <1>5, <1>10, FailEnds DEF NothingStaged, Ends, DirtyRecord
<1>11. CASE CommitFails \/ RemoteRaises
  <2>1. PICK t \in {state, DirtyRecord} : Fail(t)
    BY <1>4, <1>11 DEF CommitFails, RemoteRaises, DeliveryException, DirtyRecord
  <2> QED
    BY <1>2, <1>3, <1>5, <2>1, FailEnds DEF Ends
<1>12. CASE RemoteFails
  BY <1>2, <1>5, <1>12, FailEnds DEF RemoteFails, Ends
<1> QED
  BY <1>6, <1>7, <1>8, <1>9, <1>10, <1>11, <1>12

\* A death leaves what was saved.
LEMMA CrashStops == Crash => Stopped(saved)
BY DEF Crash, End, Stopped

LEMMA FailingStepInv ==
  ASSUME ProcessInv, CheckoutInv, FailingStep, UNCHANGED <<branch, local>>
  PROVE  ProcessInv'
<1>1. branch' = branch /\ NoneAbove
  BY DEF ProcessInv, BranchInv, NoneAbove
<1>2. CASE Stopped(saved)
  <2>1. saved' = saved \/ branch <= saved.branch_name
    BY <1>2, NoStateAssumption DEF ProcessInv, BranchInv, Stopped, Recorded
  <2> QED
    BY <1>1, <1>2, <2>1, StoppedInv
<1>3. CASE ~ Stopped(saved)
  <2>1. pc # "idle"
    BY <1>3 DEF FailingStep, InIteration, ProcessInv, ControlInv
  <2>2. state \in AgentState /\ kind \in {"once", "loop"} /\ branch <= state.branch_name
    BY <2>1, AtWork
  <2>3. PushedDescendant(state).branch_name = state.branch_name
    BY <2>2, PushedDescendantType
  <2>4. InIteration => DirtyRecord.branch_name = state.branch_name
    BY DirtyRecordType, FingerprintType DEF DirtyRecord, CheckoutInv
  <2>5. pc = "commit" =>
          RecordDirty(state, before.tree, EmptyTree).branch_name = state.branch_name
    BY DirtyRecordType, EmptyTreeType DEF InIteration
  <2>6. InIteration => before \in Snapshots /\ before.tree \in Tree
    BY InIterationFacts
  <2>7. Fingerprint \in Tree
    BY FingerprintType DEF CheckoutInv
  <2>8. CASE \E s : Ends(s) /\ s.branch_name = state.branch_name
    BY <1>1, <2>2, <2>8, StoppedInv, GoesOnInv DEF Ends
  <2>9. CASE pc = "attach" /\ RollsOver(state, "attach", Fingerprint)
    BY <2>2, <2>6, <2>7, <2>9, RollsOverInv DEF InIteration
  <2>10. CASE pc = "delivered" /\ RollsOver(state, "scheduled", Fingerprint)
    <3>1. kind = "loop"
      BY <2>2, <2>10 DEF ProcessInv, ControlInv
    <3> QED
      BY <2>2, <2>7, <2>10, <3>1, RollsOverInv
  <2>11. CASE \E s, why :
                /\ s.branch_name = state.branch_name /\ why \in {"iteration", "handler"}
                /\ kind = "loop" /\ RollsOver(s, why, before.tree)
                /\ pc \in {"ask", "observe"}
    <3>1. InIteration
      BY <2>11 DEF InIteration
    <3> QED
      BY <2>2, <2>6, <2>11, <3>1, RollsOverInv
  <2>12. pc \in {"ask", "observe"} => InIteration
    BY DEF InIteration
  <2> QED
    BY <1>3, <2>3, <2>4, <2>5, <2>8, <2>9, <2>10, <2>11, <2>12 DEF FailingStep
<1> QED
  BY <1>2, <1>3

FailingAction ==
  \/ AttachBlocked \/ AttachFails \/ RolloverAtAttach \/ RolloverInIteration
  \/ ScheduledRollover \/ StopAtLimit \/ AskFails \/ ResolveFails
  \/ PreflightFails \/ InterruptedConflict \/ RefuseRecovery \/ RefuseTrackedChanges
  \/ RefuseSync
  \/ pc = "verify" /\ NoProgress /\ UNCHANGED <<checkout, auxiliary>>
  \/ VerificationRaises \/ DeadlineBeforeCI \/ DeadlineBeforeCommit
  \/ NothingStaged \/ CommitFails \/ RemoteFails \/ RemoteRaises

LEMMA FailingActionFails ==
  ASSUME ProcessInv, CheckoutInv, FailingAction
  PROVE  /\ FailingStep /\ UNCHANGED auxiliary
         /\ UNCHANGED checkout \/ FetchOnly
<1>1. FailingStep
  BY BrowserFails, PreflightEnds, DeliveryFails DEF FailingAction
<1>2. UNCHANGED auxiliary /\ (UNCHANGED checkout \/ FetchOnly)
  BY DEF FailingAction, AttachBlocked, AttachFails, RolloverAtAttach, RolloverInIteration,
         ScheduledRollover, StopAtLimit, AskFails, ResolveFails, PreflightFails,
         InterruptedConflict, RefuseRecovery, RefuseTrackedChanges, RefuseSync,
         VerificationRaises, DeadlineBeforeCI, DeadlineBeforeCommit, NothingStaged,
         CommitFails, RemoteFails, RemoteRaises
<1> QED
  BY <1>1, <1>2

MovingAction ==
  \/ Attach \/ Resume \/ ResumeFails \/ BeginIteration \/ Reconcile \/ Revalidate
  \/ RecoverInterrupted \/ Prepare \/ Execute \/ Observe \/ Done
  \/ Verify /\ pc' = "ci"
  \/ CIFails \/ CIPasses \/ Commit \/ Push \/ RemotePasses \/ KeepConversation

LEMMA StepsAre ==
  Next => \/ FailingAction \/ MovingAction
          \/ \E k \in {"once", "loop"} : Start(k)
          \/ Crash \/ OperatorChanges \/ OperatorMerges
<1>1. Verify => FailingAction \/ (Verify /\ pc' = "ci")
  BY DEF Verify, FailingAction
<1> QED
  BY <1>1 DEF Next, Work, FailingAction, MovingAction

------------------------------------------------------------------------------
(* The steps that go on. *)
LEMMA GoInv ==
  ASSUME ProcessInv, pc # "idle", NEW place \in Place, NEW s, Go(place, s),
         s \in AgentState, Active(s), s.branch_name = state.branch_name,
         saved' = saved \/ saved' = s, branch' = branch, NoneAbove,
         place \notin {"idle", "attach", "resume", "iterate"},
         place \in {"ask", "observe", "verify", "ci", "commit", "push", "remote", "delivered"}
           => InIteration,
         place \in {"push", "remote"} => local'[branch] # {},
         place \in {"ci", "commit"} => after \in Tree,
         place = "observe" => rounds < MaxRounds,
         place = "interrupted" => kind = "once",
         place = "delivered" => kind = "loop"
  PROVE  ProcessInv'
<1>1. /\ pc' = place /\ state' = s
      /\ UNCHANGED <<kind, before, after, rounds, rollover, reference>>
  BY DEF Go
<1>2. state \in AgentState /\ kind \in {"once", "loop"} /\ branch <= state.branch_name
  BY AtWork
<1>3. ProcessTypeOK'
  BY <1>1 DEF ProcessInv, ProcessTypeOK
<1>4. InIteration' => InIteration
  BY <1>1 DEF InIteration
<1>5. ControlInv'
  BY <1>1, <1>2, <1>4 DEF ProcessInv, ControlInv
<1>6. CounterInv'
  BY <1>1 DEF ProcessInv, CounterInv
<1>7. s.branch_name \in Int /\ state # None /\ s # None
  BY NoStateAssumption, <1>2 DEF AgentState
<1>8. BranchInv'
  BY <1>1, <1>2, <1>4, <1>7 DEF ProcessInv, BranchInv, NoneAbove
<1> QED
  BY <1>3, <1>5, <1>6, <1>8 DEF ProcessInv

LEMMA IterateInv ==
  ASSUME ProcessInv, pc # "idle", kind = "loop", NEW s, NextIteration(s),
         s \in AgentState, Active(s), s.branch_name = state.branch_name,
         saved' = saved \/ saved' = s, UNCHANGED <<branch, local>>
  PROVE  ProcessInv'
<1>1. /\ pc' = "iterate" /\ state' = s /\ kind' = kind
      /\ before' = None /\ after' = None /\ rounds' = 0
      /\ rollover' = None /\ reference' = None
  BY DEF NextIteration
<1>2. ProcessTypeOK'
  BY <1>1, DeliveryAssumption DEF ProcessInv, ProcessTypeOK, Place
<1>3. ControlInv'
  BY <1>1 DEF ControlInv, InIteration
<1>4. CounterInv'
  BY <1>1 DEF ProcessInv, CounterInv
<1>5. s.branch_name \in Int /\ state # None /\ s # None
  BY NoStateAssumption, AtWork DEF AgentState
<1>6. BranchInv'
  BY <1>1, <1>5, AtWork DEF ProcessInv, BranchInv, InIteration
<1> QED
  BY <1>2, <1>3, <1>4, <1>6 DEF ProcessInv

LEMMA NothingAbove == ProcessInv /\ UNCHANGED <<branch, local>> => NoneAbove
BY DEF ProcessInv, BranchInv, NoneAbove

LEMMA AttachInv ==
  ASSUME ProcessInv, Attach
  PROVE  ProcessInv'
<1>1. /\ pc = "attach" /\ UNCHANGED <<branch, local, saved>>
      /\ state \in AgentState /\ Active(state) /\ kind \in {"once", "loop"}
  BY AtWork DEF Attach, checkout
<1>2. CASE kind = "loop"
  BY <1>1, <1>2, IterateInv DEF Attach
<1>3. CASE kind = "once"
  <2>1. /\ pc' = "ask" /\ rollover' = None /\ reference' = None
        /\ UNCHANGED <<kind, state, before, after, rounds>>
    BY <1>3 DEF Attach
  <2>2. InIteration
    BY <1>1, <1>3 DEF InIteration
  <2>3. ProcessTypeOK'
    BY <1>1, <2>1 DEF ProcessInv, ProcessTypeOK, Place
  <2>4. ControlInv'
    BY <1>1, <1>3, <2>1, <2>2 DEF ProcessInv, ControlInv, InIteration
  <2>5. CounterInv'
    BY <1>1, <2>1 DEF ProcessInv, CounterInv, Active, Final
  <2>6. BranchInv'
    BY <1>1, <2>1, <2>2 DEF ProcessInv, BranchInv, InIteration
  <2> QED
    BY <2>3, <2>4, <2>5, <2>6 DEF ProcessInv
<1> QED
  BY <1>1, <1>2, <1>3

LEMMA BeginIterationInv ==
  ASSUME ProcessInv, BeginIteration
  PROVE  ProcessInv'
<1>1. /\ pc = "iterate" /\ UNCHANGED <<branch, local, saved>> /\ Go("reconcile", Begun(state))
      /\ state \in AgentState /\ Active(state)
  BY AtWork DEF BeginIteration, checkout
<1>2. /\ Begun(state) \in AgentState /\ Active(Begun(state))
      /\ Begun(state).branch_name = state.branch_name
  BY <1>1, BegunType DEF Active, Kept, SameDelivery
<1> QED
  BY <1>1, <1>2, GoInv, NothingAbove DEF Place

\* Reconciliation only clears a recovery or gives it another fingerprint.
LEMMA MigratedType ==
  ASSUME CheckoutTypeOK, NEW s \in AgentState
  PROVE  /\ Migrated(s) \in {s, Cleared(s),
                             [s EXCEPT !.pending_ci_worktree_fingerprint = Fingerprint]}
         /\ Migrated(s) \in AgentState
         /\ SameObservation(s, Migrated(s)) /\ SameDelivery(s, Migrated(s))
         /\ SameRun(s, Migrated(s))
<1> DEFINE t == [s EXCEPT !.pending_ci_worktree_fingerprint = Fingerprint]
<1>1. Migrated(s) \in {s, Cleared(s), t}
  BY DEF Migrated
<1>2. t \in AgentState /\ SameObservation(s, t) /\ SameDelivery(s, t) /\ SameRun(s, t)
  BY FingerprintType DEF AgentState, SameObservation, SameDelivery, SameRun
<1>3. SameObservation(s, s) /\ SameDelivery(s, s) /\ SameRun(s, s)
  BY KeptByItself DEF Kept
<1> QED
  BY <1>1, <1>2, <1>3, ClearedType

LEMMA ReconcileInv ==
  ASSUME ProcessInv, CheckoutInv, Reconcile
  PROVE  ProcessInv'
<1> DEFINE s == Migrated(state)
<1>1. PICK place \in {"revalidate", "interrupted", "prepare"} :
        Go(place, s) /\ (place = "interrupted" => kind = "once")
  BY DEF Reconcile, AfterReconcile
<1>2. /\ pc = "reconcile" /\ UNCHANGED <<branch, local, saved>>
      /\ state \in AgentState /\ Active(state)
  BY AtWork DEF Reconcile, checkout
<1>3. s \in AgentState /\ Active(s) /\ s.branch_name = state.branch_name
  BY <1>2, MigratedType DEF CheckoutInv, SameRun, SameDelivery, Active
<1> HIDE DEF s
<1> QED
  BY <1>1, <1>2, <1>3, GoInv, NothingAbove DEF Place

LEMMA RevalidateInv ==
  ASSUME ProcessInv, Revalidate
  PROVE  ProcessInv'
<1>1. /\ pc = "revalidate" /\ UNCHANGED <<branch, local, saved>>
      /\ state \in AgentState /\ Active(state)
  BY AtWork DEF Revalidate, checkout
<1>2. PICK s : /\ Go(AfterReconcile, s)
               /\ \/ s = [Cleared(state) EXCEPT !.last_ci_ok = TRUE]
                  \/ s = [state EXCEPT !.last_ci_ok = FALSE]
  BY DEF Revalidate
<1>3. PICK t \in {state, Cleared(state)}, ok \in BOOLEAN : s = [t EXCEPT !.last_ci_ok = ok]
  BY <1>2
<1>4. t \in AgentState /\ Active(t) /\ t.branch_name = state.branch_name
  BY <1>1, ClearedType DEF SameDelivery, SameRun, Active
<1>5. s \in AgentState
  BY <1>3, <1>4 DEF AgentState
<1>6. Active(s) /\ s.branch_name = state.branch_name
  BY <1>3, <1>4 DEF AgentState, Active
<1>7. AfterReconcile \in {"interrupted", "prepare"}
      /\ (AfterReconcile = "interrupted" => kind = "once")
  BY DEF AfterReconcile
<1> HIDE DEF AfterReconcile
<1> QED
  BY <1>1, <1>2, <1>5, <1>6, <1>7, GoInv, NothingAbove DEF Place

LEMMA RecoverInterruptedInv ==
  ASSUME ProcessInv, CheckoutInv, RecoverInterrupted
  PROVE  ProcessInv'
<1> DEFINE s == PushedDescendant(state)
<1>1. /\ pc = "interrupted" /\ UNCHANGED <<branch, local>>
      /\ state \in AgentState /\ Active(state)
  BY AtWork DEF RecoverInterrupted, checkout
<1>2. /\ s \in AgentState /\ Active(s) /\ s.branch_name = state.branch_name
  BY <1>1, PushedDescendantType
<1>3. PICK t : /\ Go("prepare", t) /\ (saved' = saved \/ saved' = t)
               /\ \/ t = s
                  \/ Observed(s) /\ t = RecordDirty(s, s.iteration_baseline, Fingerprint)
  BY DEF RecoverInterrupted, SaveAndGo
<1> HIDE DEF s
<1>4. Observed(s) => s.iteration_baseline \in Tree
  BY <1>2 DEF Observed, AgentState
<1>5. t \in AgentState /\ Active(t) /\ t.branch_name = s.branch_name
  BY <1>2, <1>3, <1>4, FingerprintType, RecordDirtyType
     DEF CheckoutInv, SameRun, SameDelivery, Active
<1> QED
  BY <1>1, <1>2, <1>3, <1>5, GoInv, NothingAbove DEF Place

LEMMA SnapshotType == CheckoutTypeOK => Snapshot \in Snapshots
<1> SUFFICES ASSUME CheckoutTypeOK PROVE Snapshot \in Snapshots
  OBVIOUS
<1>1. local[branch] \in History /\ origin_main \in History
  BY DEF CheckoutTypeOK
<1>2. HeadOf(local[branch]) \in Sha /\ HeadOf(origin_main) \in Sha /\ Fingerprint \in Tree
  BY <1>1, HeadOfHistory, FingerprintType
<1> QED
  BY <1>2 DEF Snapshot, Snapshots

\* The record of an iteration that begins.
LEMMA StartIterationType ==
  ASSUME CheckoutTypeOK', NEW s \in AgentState, NEW baseline \in Tree \cup {None}
  PROVE  /\ StartIteration(s, baseline) \in AgentState
         /\ SameRecovery(s, StartIteration(s, baseline))
         /\ SameDelivery(s, StartIteration(s, baseline))
         /\ SameRun(s, StartIteration(s, baseline))
         /\ StartIteration(s, baseline).iteration_baseline = baseline
         /\ StartIteration(s, baseline).iteration_observed = None
         /\ StartIteration(s, baseline).execution_requested = FALSE
<1> DEFINE head == HeadOf(local'[branch'])
<1>1. head \in Sha
  <2>1. local'[branch'] \in History
    BY DEF CheckoutTypeOK
  <2> QED
    BY <2>1, HeadOfHistory
<1>2. StartIteration(s, baseline) =
        [s EXCEPT !.iteration_started_sha = head, !.iteration_baseline = baseline,
                  !.iteration_observed = None, !.execution_requested = FALSE]
  BY DEF StartIteration
<1> HIDE DEF head
<1>3. StartIteration(s, baseline) \in AgentState
  BY <1>1, <1>2, ZenonT(60) DEF AgentState
<1>4. SameRecovery(s, StartIteration(s, baseline))
  BY <1>2 DEF AgentState, SameRecovery
<1>5. /\ SameDelivery(s, StartIteration(s, baseline))
      /\ SameRun(s, StartIteration(s, baseline))
  BY <1>2 DEF AgentState, SameDelivery, SameRun
<1>6. /\ StartIteration(s, baseline).iteration_baseline = baseline
      /\ StartIteration(s, baseline).iteration_observed = None
      /\ StartIteration(s, baseline).execution_requested = FALSE
  BY <1>2 DEF AgentState
<1> QED
  BY <1>3, <1>4, <1>5, <1>6

LEMMA PrepareInv ==
  ASSUME ProcessInv, CheckoutInv, Prepare
  PROVE  ProcessInv' /\ CheckoutInv'
<1>1. /\ pc = "prepare" /\ Synchronize(state.branch_name) /\ before' = Snapshot'
      /\ UNCHANGED <<kind, after, rounds, rollover, reference>>
  BY DEF Prepare
<1>2. /\ state \in AgentState /\ Active(state) /\ kind \in {"once", "loop"}
      /\ branch <= state.branch_name /\ state.branch_name \in Branch
  BY <1>1, AtWork, CheckoutAssumption DEF Branch
<1>3. CheckoutInv' /\ branch' = state.branch_name
  BY <1>1, <1>2, SynchronizeInv DEF Synchronize
<1>4. before' \in Snapshots
  <2>1. (CheckoutTypeOK => Snapshot \in Snapshots)'
    BY SnapshotType, PTL
  <2>2. CheckoutTypeOK' => Snapshot' \in Snapshots
    BY <2>1
  <2> QED
    BY <1>1, <1>3, <2>2 DEF CheckoutInv
<1>5. PICK baseline \in Tree \cup {None} :
        /\ state' = StartIteration(state, baseline)
        /\ kind = "once" => pc' = "attach" /\ saved' = state'
        /\ kind # "once" => pc' = "ask" /\ saved' = saved
  BY FingerprintType DEF Prepare, CheckoutInv
<1>6. /\ state' \in AgentState /\ Active(state') /\ state'.branch_name = state.branch_name
  BY <1>2, <1>3, <1>5, StartIterationType
     DEF CheckoutInv, SameDelivery, SameRun, Active
<1>7. saved' = state' \/ saved' = saved
  BY <1>5
<1>8. ProcessTypeOK'
  BY <1>1, <1>4, <1>5, <1>6, <1>7 DEF ProcessInv, ProcessTypeOK, Place
<1>9. ControlInv'
  BY <1>1, <1>2, <1>4, <1>5, <1>6 DEF ControlInv, InIteration
<1>10. CounterInv'
  BY <1>6, <1>7 DEF ProcessInv, CounterInv
<1>11. \A b \in Branch : b > branch' => local'[b] = {}
  BY <1>1, <1>2, <1>3 DEF ProcessInv, BranchInv, Synchronize, CheckoutInv, CheckoutTypeOK,
                          Branch
<1>12. state # None /\ state' # None
  BY <1>2, <1>6, NoStateAssumption
<1>13. IF saved' = None THEN branch' = 0 ELSE branch' <= saved'.branch_name
  BY <1>2, <1>3, <1>5, <1>6, <1>12 DEF ProcessInv, BranchInv, Branch
<1>14. BranchInv'
  BY <1>1, <1>2, <1>3, <1>5, <1>6, <1>11, <1>12, <1>13
     DEF ProcessInv, BranchInv, InIteration, Branch
<1> QED
  BY <1>3, <1>8, <1>9, <1>10, <1>14 DEF ProcessInv

LEMMA AgentWritesInv ==
  ASSUME CheckoutInv, written \in 0..MaxChanges, AgentMayWrite
  PROVE  /\ CheckoutInv' /\ UNCHANGED <<branch, local>>
         /\ written' \in 0..MaxChanges /\ written' >= written
         /\ written + 1 .. written' \subseteq Change
<1>1. CASE AgentWrites
  <2>1. written + 1 \in Change /\ written + 1 \in 0..MaxChanges /\ written' = written + 1
    BY <1>1, CheckoutAssumption DEF AgentWrites, Change, Agent
  <2>2. CheckoutInv'
    BY <1>1, <2>1, WriteInv DEF AgentWrites
  <2> QED
    BY <1>1, <2>1, <2>2 DEF AgentWrites, Write
<1>2. CASE UNCHANGED <<checkout, auxiliary>>
  <2>1. CheckoutInv'
    BY <1>2, CheckoutStays
  <2>2. written' = written /\ UNCHANGED <<branch, local>>
    BY <1>2 DEF checkout, auxiliary
  <2> QED
    BY <2>1, <2>2
<1> QED
  BY <1>1, <1>2 DEF AgentMayWrite

LEMMA ExecuteInv ==
  ASSUME ProcessInv, CheckoutInv, written \in 0..MaxChanges, Execute
  PROVE  ProcessInv' /\ CheckoutInv'
<1>1. AgentMayWrite /\ pc = "ask" /\ rounds < MaxRounds /\ Go("observe", state) /\ saved' = saved
  BY DEF Execute, AgentMayWrite
<1>2. CheckoutInv' /\ UNCHANGED <<branch, local>> /\ InIteration
  BY <1>1, AgentWritesInv DEF InIteration
<1> QED
  BY <1>1, <1>2, AtWork, GoInv, NothingAbove DEF Place

LEMMA ObserveInv ==
  ASSUME ProcessInv, CheckoutInv, Observe
  PROVE  ProcessInv'
<1> DEFINE s == [state EXCEPT !.execution_requested = TRUE, !.iteration_observed = Fingerprint]
<1>1. /\ pc = "observe" /\ pc' = "ask" /\ state' = s /\ saved' = state' /\ rounds' = rounds + 1
      /\ UNCHANGED <<kind, before, after, rollover, reference, branch, local>>
      /\ InIteration
  BY DEF Observe, checkout, InIteration
<1>2. state \in AgentState /\ Active(state) /\ kind \in {"once", "loop"}
  BY <1>1, AtWork
<1>3. s \in AgentState /\ Active(s) /\ s.branch_name = state.branch_name
  BY <1>2, FingerprintType DEF AgentState, CheckoutInv, Active
<1> HIDE DEF s
<1>4. rounds' \in 0..MaxRounds
  BY <1>1, DeliveryAssumption DEF ProcessInv, ProcessTypeOK, ControlInv
<1>5. ProcessTypeOK'
  BY <1>1, <1>3, <1>4 DEF ProcessInv, ProcessTypeOK, Place
<1>6. ControlInv'
  BY <1>1, <1>2, <1>3 DEF ProcessInv, ControlInv, InIteration
<1>7. CounterInv'
  BY <1>1, <1>3 DEF CounterInv
<1>8. state # None /\ s # None /\ s.branch_name \in Int
  BY <1>2, <1>3, NoStateAssumption DEF AgentState
<1>9. BranchInv'
  BY <1>1, <1>3, <1>8 DEF ProcessInv, BranchInv, InIteration
<1> QED
  BY <1>5, <1>6, <1>7, <1>9 DEF ProcessInv

LEMMA DoneInv ==
  ASSUME ProcessInv, Done
  PROVE  ProcessInv'
<1>1. /\ pc = "ask" /\ Go("verify", state) /\ UNCHANGED <<branch, local, saved>> /\ InIteration
  BY DEF Done, checkout, InIteration
<1> QED
  BY <1>1, AtWork, GoInv, NothingAbove DEF Place

LEMMA VerifyInv ==
  ASSUME ProcessInv, CheckoutInv, Verify, pc' = "ci"
  PROVE  ProcessInv'
<1>1. CASE NoProgress
  BY <1>1 DEF NoProgress, SaveAndIterate, NextIteration, End
<1>2. CASE ~ NoProgress
  <2>1. /\ pc = "verify" /\ after' = Fingerprint
        /\ UNCHANGED <<saved, kind, state, before, rounds, rollover, reference, branch, local>>
        /\ InIteration
    BY <1>2 DEF Verify, checkout, InIteration
  <2>2. ProcessTypeOK'
    BY <2>1, FingerprintType DEF ProcessInv, ProcessTypeOK, Place, CheckoutInv
  <2>3. ControlInv'
    BY <2>1, FingerprintType DEF ProcessInv, ControlInv, InIteration, CheckoutInv
  <2>4. CounterInv'
    BY <2>1 DEF ProcessInv, CounterInv, Active, Final
  <2>5. BranchInv'
    BY <2>1 DEF ProcessInv, BranchInv, InIteration
  <2> QED
    BY <2>2, <2>3, <2>4, <2>5 DEF ProcessInv
<1> QED
  BY <1>1, <1>2

(* What a failed local CI records. *)
FailedTree == IF kind = "once" THEN after ELSE state.pending_ci_worktree_fingerprint

CIRecord == [RecordDirty(state, before.tree, FailedTree) EXCEPT !.last_ci_ok = FALSE]

LEMMA CIRecordType ==
  ASSUME ProcessInv, pc = "ci"
  PROVE  /\ CIRecord \in AgentState /\ Active(CIRecord)
         /\ FailedTree \in Tree \cup {None}
         /\ SameObservation(state, CIRecord) /\ SameDelivery(state, CIRecord)
         /\ CIRecord.state = state.state
         /\ CIRecord.pending_ci_fix
         /\ CIRecord.pending_ci_baseline_untracked = before.tree.files
         /\ CIRecord.pending_ci_worktree_fingerprint = FailedTree
<1> DEFINE t == RecordDirty(state, before.tree, FailedTree)
<1>1. state \in AgentState /\ Active(state) /\ before.tree \in Tree
  BY AtWork, InIterationFacts DEF InIteration
<1>2. FailedTree \in Tree \cup {None}
  BY <1>1 DEF FailedTree, ProcessInv, ControlInv, AgentState
<1>3. /\ t \in AgentState /\ SameObservation(state, t) /\ SameDelivery(state, t)
      /\ SameRun(state, t) /\ t.pending_ci_fix
      /\ t.pending_ci_baseline_untracked = before.tree.files
      /\ t.pending_ci_worktree_fingerprint = FailedTree
  BY <1>1, <1>2, RecordDirtyType
<1>4. CIRecord = [t EXCEPT !.last_ci_ok = FALSE]
  BY DEF CIRecord
<1> HIDE DEF t
<1>5. CIRecord \in AgentState
  BY <1>3, <1>4 DEF AgentState
<1>6. CIRecord.state = t.state /\ Active(CIRecord)
  BY <1>1, <1>3, <1>4 DEF AgentState, SameRun, Active
<1>7. /\ SameObservation(state, CIRecord) /\ SameDelivery(state, CIRecord)
  BY <1>3, <1>4 DEF AgentState, SameObservation, SameDelivery
<1>8. /\ CIRecord.pending_ci_fix
      /\ CIRecord.pending_ci_baseline_untracked = before.tree.files
      /\ CIRecord.pending_ci_worktree_fingerprint = FailedTree
  BY <1>3, <1>4 DEF AgentState
<1> QED
  BY <1>2, <1>3, <1>5, <1>6, <1>7, <1>8 DEF SameRun

LEMMA CIFailsEnds ==
  ASSUME ProcessInv, CIFails
  PROVE  pc = "ci" /\ Ends(CIRecord)
<1>1. pc = "ci" /\ Fail(CIRecord)
  BY DEF CIFails, CIRecord, FailedTree
<1> QED
  BY <1>1, AtWork, CIRecordType, FailEnds DEF Ends

LEMMA EndsInv ==
  ASSUME ProcessInv, pc # "idle", NEW s, Ends(s), s.branch_name = state.branch_name,
         branch' = branch, NoneAbove
  PROVE  ProcessInv'
BY AtWork, StoppedInv, GoesOnInv DEF Ends

LEMMA CIFailsInv ==
  ASSUME ProcessInv, CIFails
  PROVE  ProcessInv'
<1>1. pc = "ci" /\ Ends(CIRecord) /\ UNCHANGED <<branch, local>>
  BY CIFailsEnds DEF CIFails, checkout
<1> QED
  BY <1>1, CIRecordType, EndsInv, NothingAbove DEF SameDelivery

LEMMA CIPassesInv ==
  ASSUME ProcessInv, CIPasses
  PROVE  ProcessInv'
<1> DEFINE s == [state EXCEPT !.last_ci_ok = TRUE]
<1>1. pc = "ci" /\ Go("commit", s) /\ UNCHANGED <<branch, local, saved>> /\ InIteration
  BY DEF CIPasses, checkout, InIteration
<1>2. state \in AgentState /\ Active(state) /\ after \in Tree
  BY <1>1, AtWork DEF ProcessInv, ControlInv
<1>3. s \in AgentState /\ Active(s) /\ s.branch_name = state.branch_name
  BY <1>2 DEF AgentState, Active
<1> HIDE DEF s
<1> QED
  BY <1>1, <1>2, <1>3, GoInv, NothingAbove DEF Place

LEMMA KeepConversationInv ==
  ASSUME ProcessInv, KeepConversation
  PROVE  ProcessInv'
<1>1. pc = "delivered" /\ NextIteration(state) /\ UNCHANGED <<branch, local, saved>>
  BY DEF KeepConversation, checkout
<1>2. kind = "loop"
  BY <1>1, AtWork DEF ProcessInv, ControlInv
<1> QED
  BY <1>1, <1>2, AtWork, IterateInv

------------------------------------------------------------------------------
(* The delivery. *)
LEMMA OnRunBranch ==
  ASSUME ProcessInv, CheckoutInv, InIteration
  PROVE  /\ branch = state.branch_name /\ branch \in Branch /\ branch \in 1..MaxRuns
         /\ local[branch] \in History
BY AtWork, InIterationFacts, CheckoutAssumption DEF CheckoutInv, CheckoutTypeOK, Branch

LEMMA CommitStepInv ==
  ASSUME ProcessInv, CheckoutInv, Commit
  PROVE  ProcessInv' /\ CheckoutInv'
<1>1. pc = "commit" /\ CommitAll(Baseline) /\ Go("push", state) /\ saved' = saved /\ InIteration
  BY DEF Commit, InIteration
<1>2. CheckoutInv'
  BY <1>1, CommitInv
<1>3. /\ branch' = branch /\ branch \in Branch
      /\ local' = [local EXCEPT ![branch] = @ \cup {NextSha}]
      /\ local \in [Branch -> History]
  BY <1>1, OnRunBranch DEF CommitAll, CheckoutInv, CheckoutTypeOK
<1> HIDE DEF NextSha
<1>4. NoneAbove
  <2>1. branch \in Int
    BY <1>3, CheckoutAssumption DEF Branch
  <2>2. \A b \in Branch : b > branch => b # branch
    BY <2>1, CheckoutAssumption DEF Branch
  <2> QED
    BY <1>3, <2>2 DEF ProcessInv, BranchInv, NoneAbove
<1>5. local'[branch] # {}
  BY <1>3
<1> QED
  BY <1>1, <1>2, <1>3, <1>4, <1>5, AtWork, GoInv DEF Place

LEMMA PushStepInv ==
  ASSUME ProcessInv, CheckoutInv, Push
  PROVE  ProcessInv' /\ CheckoutInv'
<1>1. /\ pc = "push" /\ InIteration
      /\ UNCHANGED <<branch, main, origin_main, content>>
  BY DEF Push, InIteration
<1>2. /\ state \in AgentState /\ Active(state) /\ branch = state.branch_name
      /\ branch \in Branch /\ local[branch] \in History /\ local[branch] # {}
      /\ kind \in {"once", "loop"} /\ local \in [Branch -> History]
  BY <1>1, AtWork, OnRunBranch DEF ProcessInv, BranchInv, CheckoutInv, CheckoutTypeOK
<1>3. PICK accepted \in {CanPush(branch), FALSE}, answer \in {"answers", "silent", "raises"} :
        \/ PushDelivered(accepted, answer)
        \/ PushRolledBack(accepted, answer)
        \/ PushUnknown(accepted, answer)
  BY <1>2 DEF Push
<1>4. CASE PushDelivered(accepted, answer)
  <2> DEFINE s == [state EXCEPT !.last_commit_sha = HeadOf(local[branch])]
  <2>1. /\ pushed' = AfterPush(branch, accepted) /\ Go("remote", s)
        /\ UNCHANGED <<saved, edits, files, local>>
    BY <1>2, <1>4 DEF PushDelivered
  <2>2. HeadOf(local[branch]) \in Sha
    BY <1>2, HeadOfHistory
  <2>3. s \in AgentState /\ Active(s) /\ s.branch_name = state.branch_name
    BY <1>2, <2>2 DEF AgentState, Active
  <2> HIDE DEF s
  <2>4. CheckoutInv'
    BY <1>1, <1>2, <2>1, PushInv
  <2> QED
    BY <1>1, <1>2, <2>1, <2>3, <2>4, GoInv, NothingAbove DEF Place
<1>5. CASE PushRolledBack(accepted, answer)
  <2> DEFINE s == RecordDirty(state, before.tree, Fingerprint')
  <2>1. pushed' = AfterPush(branch, accepted) /\ ResetMixed /\ Fail(s)
    BY <1>2, <1>5 DEF PushRolledBack
  <2>2. CheckoutInv'
    BY <1>1, <1>2, <2>1, ResetInv
  <2>3. Fingerprint' \in Tree
    BY <2>2 DEF CheckoutInv, CheckoutTypeOK, Fingerprint, Tree
  <2>4. s \in AgentState /\ Active(s) /\ s.branch_name = state.branch_name
    BY <1>1, <2>3, DirtyRecordType
  <2> HIDE DEF s
  <2>5. Ends(s)
    BY <1>2, <2>1, <2>4, FailEnds DEF Ends
  <2>6. NoneAbove
    BY <1>1, <1>2, <2>1 DEF ResetMixed, ProcessInv, BranchInv, NoneAbove, Branch
  <2> QED
    BY <1>1, <2>2, <2>4, <2>5, <2>6, EndsInv
<1>6. CASE PushUnknown(accepted, answer)
  <2>1. /\ pushed' = AfterPush(branch, accepted)
        /\ UNCHANGED <<edits, files, local>>
    BY <1>2, <1>6 DEF PushUnknown
  <2>2. PICK s \in {state, DirtyRecord} : Fail(s)
    BY <1>6, DirtiedIs DEF PushUnknown, DeliveryException, DirtyRecord
  <2>3. s \in AgentState /\ Active(s) /\ s.branch_name = state.branch_name
    BY <1>1, <1>2, DirtyRecordType, FingerprintType DEF DirtyRecord, CheckoutInv
  <2>4. CheckoutInv'
    BY <1>1, <1>2, <2>1, PushInv
  <2>5. Ends(s)
    BY <1>2, <2>2, <2>3, FailEnds DEF Ends
  <2> QED
    BY <1>1, <2>1, <2>3, <2>4, <2>5, EndsInv, NothingAbove
<1> QED
  BY <1>3, <1>4, <1>5, <1>6

LEMMA SucceededType ==
  ASSUME state \in AgentState, NEW r \in {"COMPLETED", "ITERATION_SUCCEEDED"}
  PROVE  /\ Succeeded(r) \in AgentState /\ Active(Succeeded(r)) /\ Succeeded(r).state = r
         /\ SameDelivery(state, Succeeded(r))
         /\ Succeeded(r).iteration_baseline = state.iteration_baseline
         /\ Succeeded(r).iteration_observed = state.iteration_observed
         /\ ~ Succeeded(r).pending_ci_fix
         /\ Succeeded(r).pending_ci_worktree_fingerprint = None
<1> DEFINE s == Cleared(state)
<1>1. /\ s \in AgentState /\ SameDelivery(state, s) /\ SameObservation(state, s)
      /\ ~ s.pending_ci_fix /\ s.pending_ci_worktree_fingerprint = None
  BY ClearedType
<1>2. Succeeded(r) = [s EXCEPT !.state = r, !.consecutive_failures = 0,
                               !.consecutive_no_progress = 0, !.execution_requested = FALSE]
  BY DEF Succeeded
<1> HIDE DEF s
<1>3. 0 \in 0..MaxFailures /\ 0 \in 0..MaxNoProgress /\ 0 < MaxFailures /\ 0 < MaxNoProgress
  BY DeliveryAssumption
<1>4. Succeeded(r) \in AgentState
  <2>1. r \in RunState /\ FALSE \in BOOLEAN
    BY RunStates
  <2> QED
    BY <1>1, <1>2, <1>3, <2>1, ZenonT(60) DEF AgentState
<1>5. Succeeded(r).consecutive_failures = 0 /\ Succeeded(r).consecutive_no_progress = 0
  BY <1>1, <1>2 DEF AgentState
<1>6. /\ Succeeded(r).state = r
      /\ Succeeded(r).branch_name = s.branch_name
      /\ Succeeded(r).last_commit_sha = s.last_commit_sha
      /\ Succeeded(r).iteration_baseline = s.iteration_baseline
      /\ Succeeded(r).iteration_observed = s.iteration_observed
      /\ ~ Succeeded(r).pending_ci_fix
      /\ Succeeded(r).pending_ci_worktree_fingerprint = None
  BY <1>1, <1>2 DEF AgentState
<1> QED
  BY <1>1, <1>3, <1>4, <1>5, <1>6 DEF Active, SameDelivery, SameObservation

LEMMA RemotePassesInv ==
  ASSUME ProcessInv, RemotePasses
  PROVE  ProcessInv'
<1>1. pc = "remote" /\ InIteration /\ UNCHANGED <<branch, local>>
  BY DEF RemotePasses, InIteration, checkout
<1>2. state \in AgentState /\ kind \in {"once", "loop"} /\ branch <= state.branch_name
  BY <1>1, AtWork
<1>3. CASE kind = "once"
  <2> DEFINE s == Succeeded("COMPLETED")
  <2>1. End(s)
    BY <1>3 DEF RemotePasses
  <2>2. s \in AgentState /\ Active(s) /\ s.branch_name = state.branch_name
    BY <1>2, SucceededType DEF SameDelivery
  <2> HIDE DEF s
  <2>3. ProcessTypeOK'
    BY <2>1, <2>2, DeliveryAssumption DEF End, ProcessTypeOK, Place
  <2>4. ControlInv' /\ CounterInv'
    BY <2>1, <2>2 DEF End, ControlInv, CounterInv, InIteration
  <2>5. BranchInv'
    BY <1>1, <1>2, <2>1, <2>2, NoStateAssumption
       DEF ProcessInv, BranchInv, End, InIteration
  <2> QED
    BY <2>3, <2>4, <2>5 DEF ProcessInv
<1>4. CASE kind = "loop"
  <2> DEFINE s == Succeeded("ITERATION_SUCCEEDED")
  <2>1. Go("delivered", s) /\ saved' = s
    BY <1>4 DEF RemotePasses, SaveAndGo
  <2>2. s \in AgentState /\ Active(s) /\ s.branch_name = state.branch_name
    BY <1>2, SucceededType DEF SameDelivery
  <2> HIDE DEF s
  <2> QED
    BY <1>1, <1>4, <2>1, <2>2, GoInv, NothingAbove DEF Place
<1> QED
  BY <1>2, <1>3, <1>4

------------------------------------------------------------------------------
(* The start of a run, and the conversation. *)
LEMMA PreparedType ==
  ASSUME ProcessInv, NEW s \in PrepareState
  PROVE  /\ s \in AgentState /\ Active(s) /\ s.state = "IDLE"
         /\ saved = None => s = NewState(1)
         /\ saved # None => /\ saved \in AgentState
                            /\ saved.branch_name <= s.branch_name
                            /\ SameObservation(saved, s)
                            /\ \/ SameRecovery(saved, s)
                               \/ /\ ~ s.pending_ci_fix
                                  /\ s.pending_ci_worktree_fingerprint = None
<1>1. 0 \in 0..MaxFailures /\ 0 \in 0..MaxNoProgress /\ 0 < MaxFailures /\ 0 < MaxNoProgress
      /\ 0 \in 0..MaxIterations /\ 0 \in 0..MaxRollovers /\ 1 \in 1..MaxRuns
  BY DeliveryAssumption, CheckoutAssumption
<1>2. "IDLE" \in RunState /\ FALSE \in BOOLEAN
  BY RunStates
<1>3. CASE saved = None
  <2>1. s = NewState(1)
    BY <1>3 DEF PrepareState
  <2>2. /\ s \in AgentState /\ s.state = "IDLE"
        /\ s.consecutive_failures = 0 /\ s.consecutive_no_progress = 0
    BY <1>1, <2>1, NewStateType
  <2> QED
    BY <1>1, <1>3, <2>1, <2>2 DEF Active
<1>4. CASE saved # None
  <2>1. saved \in AgentState /\ saved.branch_name \in Int
    BY <1>4 DEF ProcessInv, ProcessTypeOK, AgentState
  <2>2. CASE saved.state \in {"COMPLETED", "BLOCKED"}
    <3> DEFINE t == Cleared(saved)
    <3>1. PICK b \in 1..MaxRuns :
            /\ b = saved.branch_name + 1
            /\ s = [t EXCEPT !.state = "IDLE", !.branch_name = b, !.iteration = 0,
                      !.rollover_count = 0, !.consecutive_failures = 0,
                      !.consecutive_no_progress = 0, !.last_ci_ok = FALSE]
      BY <1>4, <2>2 DEF PrepareState
    <3>2. /\ t \in AgentState /\ SameObservation(saved, t)
          /\ ~ t.pending_ci_fix /\ t.pending_ci_worktree_fingerprint = None
      BY <2>1, ClearedType
    <3> HIDE DEF t
    <3>3. s \in AgentState
      BY <1>1, <1>2, <3>1, <3>2, ZenonT(60) DEF AgentState
    <3>4. s.consecutive_failures = 0 /\ s.consecutive_no_progress = 0 /\ s.state = "IDLE"
      BY <3>1, <3>2 DEF AgentState
    <3>5. s.branch_name = b /\ SameObservation(t, s)
      BY <3>1, <3>2 DEF AgentState, SameObservation
    <3>6. ~ s.pending_ci_fix /\ s.pending_ci_worktree_fingerprint = None
      BY <3>1, <3>2 DEF AgentState
    <3>7. SameObservation(saved, s)
      BY <3>2, <3>5 DEF SameObservation
    <3>8. saved.branch_name <= s.branch_name
      BY <2>1, <3>1, <3>5
    <3> QED
      BY <1>1, <1>4, <2>1, <3>3, <3>4, <3>6, <3>7, <3>8 DEF Active
  <2>3. CASE saved.state \in {"STOPPED", "ERROR"}
    <3>1. s = [saved EXCEPT !.state = "IDLE", !.consecutive_failures = 0,
                            !.consecutive_no_progress = 0]
      BY <1>4, <2>3 DEF PrepareState
    <3>2. s \in AgentState
      BY <1>1, <1>2, <2>1, <3>1 DEF AgentState
    <3>3. /\ s.consecutive_failures = 0 /\ s.consecutive_no_progress = 0 /\ s.state = "IDLE"
          /\ s.branch_name = saved.branch_name
      BY <2>1, <3>1 DEF AgentState
    <3>4. SameObservation(saved, s) /\ SameRecovery(saved, s)
      BY <2>1, <3>1 DEF AgentState, SameObservation, SameRecovery
    <3> QED
      BY <1>1, <1>4, <2>1, <3>2, <3>3, <3>4 DEF Active
  <2>4. CASE saved.state \notin {"COMPLETED", "BLOCKED", "STOPPED", "ERROR"}
    <3>1. s = To(saved, "IDLE")
      BY <1>4, <2>4 DEF PrepareState
    <3>2. Active(saved)
      BY <1>4, <2>4 DEF ProcessInv, CounterInv, Final
    <3>3. /\ s \in AgentState /\ Kept(saved, s) /\ s.state = "IDLE"
          /\ s.consecutive_failures = saved.consecutive_failures
          /\ s.consecutive_no_progress = saved.consecutive_no_progress
      BY <1>2, <2>1, <3>1, ToType
    <3> QED
      BY <1>4, <2>1, <3>2, <3>3 DEF Active, Kept, SameDelivery
  <2> QED
    BY <2>2, <2>3, <2>4
<1> QED
  BY <1>3, <1>4

\* What a run starts from says of the checkout what the prepared state says.
LEMMA StartIs ==
  ASSUME ProcessInv, NEW k \in {"once", "loop"}, Start(k)
  PROVE  \E s \in PrepareState :
           /\ Kept(s, state') /\ state' \in AgentState /\ Active(state')
           /\ ~ Successful(state')
           /\ IF k = "once" THEN pc' = "reconcile" /\ saved' = saved
              ELSE pc' = "attach" /\ saved' = state'
<1>1. PICK s \in PrepareState :
        \/ /\ k = "once" /\ pc' = "reconcile" /\ saved' = saved
           /\ state' \in {Begun(s), To(s, "STOPPED")}
        \/ /\ k = "loop" /\ pc' = "attach" /\ saved' = state' /\ state' = To(s, "STARTING")
  BY DEF Start
<1>2. s \in AgentState /\ Active(s)
  BY PreparedType
<1>3. /\ state' \in AgentState /\ Kept(s, state')
      /\ state'.consecutive_failures = s.consecutive_failures
      /\ state'.consecutive_no_progress = s.consecutive_no_progress
      /\ state'.state \in {"WORKING", "STOPPED", "STARTING"}
  BY <1>1, <1>2, BegunType, ToType, RunStates
<1> QED
  BY <1>1, <1>2, <1>3 DEF Active, Successful

LEMMA StartInv ==
  ASSUME ProcessInv, CheckoutInv, NEW k \in {"once", "loop"}, Start(k)
  PROVE  ProcessInv'
<1>1. PICK s \in PrepareState :
           /\ Kept(s, state') /\ state' \in AgentState /\ Active(state')
           /\ IF k = "once" THEN pc' = "reconcile" /\ saved' = saved
              ELSE pc' = "attach" /\ saved' = state'
  BY StartIs
<1>2. /\ pc = "idle" /\ kind' = k
      /\ UNCHANGED <<before, after, rounds, rollover, reference, branch, local>>
  BY DEF Start, checkout
<1>3. /\ s \in AgentState /\ state'.branch_name = s.branch_name
      /\ saved # None => saved.branch_name <= s.branch_name
  BY <1>1, PreparedType DEF Kept, SameDelivery
<1>4. state' # None /\ s.branch_name \in Int /\ s.branch_name >= 1
  BY <1>1, <1>3, NoStateAssumption DEF AgentState
<1>5. branch <= s.branch_name
  <2>1. saved = None => branch = 0
    BY DEF ProcessInv, BranchInv
  <2>2. saved # None => branch <= saved.branch_name /\ saved.branch_name \in Int
    BY DEF ProcessInv, BranchInv, ProcessTypeOK, AgentState
  <2>3. branch \in Int
    BY CheckoutAssumption DEF CheckoutInv, CheckoutTypeOK, Branch
  <2> QED
    BY <1>3, <1>4, <2>1, <2>2, <2>3
<1>6. ProcessTypeOK'
  BY <1>1, <1>2 DEF ProcessInv, ProcessTypeOK, Place
<1>7. ControlInv'
  BY <1>1, <1>2 DEF ControlInv, InIteration
<1>8. CounterInv'
  BY <1>1 DEF ProcessInv, CounterInv
<1>9. BranchInv'
  BY <1>1, <1>2, <1>3, <1>4, <1>5 DEF ProcessInv, BranchInv, InIteration
<1> QED
  BY <1>6, <1>7, <1>8, <1>9 DEF ProcessInv

\* What the fresh conversation leaves.
ResumedRecord ==
  IF Fingerprint' # reference THEN RecordDirty(state, reference, Fingerprint') ELSE state

LEMMA ResumeIs ==
  ASSUME ProcessInv, CheckoutInv, written \in 0..MaxChanges, Resume
  PROVE  /\ pc = "resume" /\ AgentMayWrite /\ CheckoutInv' /\ UNCHANGED <<branch, local>>
         /\ Fingerprint' \in Tree
         /\ ResumedRecord \in AgentState /\ Active(ResumedRecord)
         /\ SameObservation(state, ResumedRecord) /\ SameDelivery(state, ResumedRecord)
         /\ ResumedRecord.state = state.state
         /\ saved' = ResumedRecord
         /\ IF rollover = "attach" THEN Go("attach", ResumedRecord)
            ELSE NextIteration(ResumedRecord)
<1>1. pc = "resume" /\ AgentMayWrite
  BY DEF Resume
<1>2. CheckoutInv' /\ UNCHANGED <<branch, local>>
  BY <1>1, AgentWritesInv
<1>3. Fingerprint' \in Tree
  BY <1>2 DEF CheckoutInv, CheckoutTypeOK, Fingerprint, Tree
<1>4. state \in AgentState /\ Active(state) /\ reference \in Tree
  BY <1>1, AtWork DEF ProcessInv, ControlInv
<1>5. /\ ResumedRecord \in AgentState /\ SameRun(state, ResumedRecord)
      /\ SameObservation(state, ResumedRecord) /\ SameDelivery(state, ResumedRecord)
  BY <1>3, <1>4, RecordDirtyType, KeptByItself DEF ResumedRecord, Kept
<1>6. /\ saved' = ResumedRecord
      /\ IF rollover = "attach" THEN Go("attach", ResumedRecord)
         ELSE NextIteration(ResumedRecord)
  BY DEF Resume, SaveAndGo, SaveAndIterate, ResumedRecord
<1> QED
  BY <1>1, <1>2, <1>3, <1>4, <1>5, <1>6 DEF SameRun, Active

LEMMA ResumeInv ==
  ASSUME ProcessInv, CheckoutInv, written \in 0..MaxChanges, Resume
  PROVE  ProcessInv' /\ CheckoutInv'
<1> DEFINE s == ResumedRecord
<1>1. /\ pc = "resume" /\ CheckoutInv' /\ UNCHANGED <<branch, local>>
      /\ s \in AgentState /\ Active(s) /\ s.branch_name = state.branch_name
      /\ saved' = s
      /\ IF rollover = "attach" THEN Go("attach", s) ELSE NextIteration(s)
  BY ResumeIs DEF SameDelivery
<1> HIDE DEF s
<1>2. state \in AgentState /\ kind \in {"once", "loop"} /\ branch <= state.branch_name
  BY <1>1, AtWork
<1>3. CASE rollover # "attach"
  <2>1. kind = "loop"
    BY <1>1, <1>2, <1>3 DEF ProcessInv, ControlInv
  <2> QED
    BY <1>1, <1>3, <2>1, IterateInv
<1>4. CASE rollover = "attach"
  <2>1. /\ pc' = "attach" /\ state' = s
        /\ UNCHANGED <<kind, before, after, rounds, rollover, reference>>
    BY <1>1, <1>4 DEF Go
  <2>2. ProcessTypeOK'
    BY <1>1, <2>1 DEF ProcessInv, ProcessTypeOK, Place
  <2>3. InIteration' => InIteration
    BY <1>1, <2>1 DEF InIteration
  <2>4. ControlInv'
    BY <1>1, <1>2, <2>1, <2>3 DEF ProcessInv, ControlInv
  <2>5. CounterInv'
    BY <1>1, <2>1 DEF CounterInv
  <2>6. s.branch_name \in Int /\ state # None /\ s # None
    BY <1>1, <1>2, NoStateAssumption DEF AgentState
  <2>7. BranchInv'
    BY <1>1, <1>2, <2>1, <2>3, <2>6 DEF ProcessInv, BranchInv
  <2> QED
    BY <1>1, <2>2, <2>4, <2>5, <2>7 DEF ProcessInv
<1> QED
  BY <1>3, <1>4

\* The record that is kept when the fresh conversation does not answer.
LEMMA ResumeFailsIs ==
  ASSUME ProcessInv, CheckoutInv, written \in 0..MaxChanges, ResumeFails
  PROVE  /\ pc = "resume" /\ AgentMayWrite /\ CheckoutInv' /\ UNCHANGED <<branch, local>>
         /\ Fingerprint' \in Tree
         /\ \/ rollover = "attach" /\ Stopped(saved)
            \/ /\ rollover # "attach" /\ kind = "loop"
               /\ \E s \in {state} \cup
                           IF rollover = "iteration"
                           THEN {RecordDirty(state, before.tree, Fingerprint')} ELSE {} :
                    /\ s \in AgentState /\ SameDelivery(state, s)
                    /\ \/ Ends(s)
                       \/ /\ rollover \in {"iteration", "handler"}
                          /\ RollsOver(s, "handler", before.tree)
<1>1. /\ pc = "resume" /\ AgentMayWrite
      /\ CASE rollover = "attach"    -> OuterException
           [] rollover = "iteration" -> LoopException(Dirtied(Fingerprint'))
           [] rollover = "handler"   -> LoopException(state)
           [] rollover = "scheduled" -> End(To(state, "BLOCKED"))
  BY DEF ResumeFails
<1>2. CheckoutInv' /\ UNCHANGED <<branch, local>>
  BY <1>1, AgentWritesInv
<1>3. Fingerprint' \in Tree
  BY <1>2 DEF CheckoutInv, CheckoutTypeOK, Fingerprint, Tree
<1>4. /\ state \in AgentState /\ Active(state) /\ kind \in {"once", "loop"}
      /\ rollover \in {"attach", "iteration", "handler", "scheduled"}
      /\ rollover \in {"iteration", "handler"} => before \in Snapshots
      /\ rollover # "attach" => kind = "loop"
  BY <1>1, AtWork DEF ProcessInv, ControlInv
<1>5. SameDelivery(state, state)
  BY KeptByItself DEF Kept
<1>6. CASE rollover = "attach"
  BY <1>1, <1>2, <1>3, <1>6, OuterExceptionStops
<1>7. CASE rollover = "iteration"
  <2> DEFINE t == RecordDirty(state, before.tree, Fingerprint')
  <2>1. LoopException(Dirtied(Fingerprint'))
    BY <1>1, <1>7
  <2>2. Dirtied(Fingerprint') = state \/ Dirtied(Fingerprint') = t
    BY DEF Dirtied
  <2>3. before.tree \in Tree
    BY <1>4, <1>7 DEF Snapshots
  <2>4. t \in AgentState /\ SameDelivery(state, t) /\ Active(t)
    BY <1>3, <1>4, <2>3, RecordDirtyType DEF SameRun, Active
  <2>5. PICK s \in {state, t} : LoopException(s)
    BY <2>1, <2>2
  <2>6. s \in AgentState /\ SameDelivery(state, s) /\ Active(s)
    BY <1>4, <1>5, <2>4, <2>5
  <2>7. Ends(s) \/ RollsOver(s, "handler", before.tree)
    BY <1>4, <1>7, <2>5, <2>6, LoopExceptionEnds DEF Ends
  <2> QED
    BY <1>1, <1>2, <1>3, <1>4, <1>7, <2>5, <2>6, <2>7
<1>8. CASE rollover = "handler"
  <2>1. LoopException(state)
    BY <1>1, <1>8
  <2>2. Ends(state) \/ RollsOver(state, "handler", before.tree)
    BY <1>4, <1>8, <2>1, LoopExceptionEnds DEF Ends
  <2> QED
    BY <1>1, <1>2, <1>3, <1>4, <1>5, <1>8, <2>2
<1>9. CASE rollover = "scheduled"
  <2>1. End(To(state, "BLOCKED"))
    BY <1>1, <1>9
  <2>2. Ends(state)
    BY <1>4, <2>1, RecordedAs, EndStops DEF Ends
  <2> QED
    BY <1>1, <1>2, <1>3, <1>4, <1>5, <1>9, <2>2
<1> QED
  BY <1>4, <1>6, <1>7, <1>8, <1>9

LEMMA ResumeFailsInv ==
  ASSUME ProcessInv, CheckoutInv, written \in 0..MaxChanges, ResumeFails
  PROVE  ProcessInv' /\ CheckoutInv'
<1>1. /\ pc = "resume" /\ CheckoutInv' /\ UNCHANGED <<branch, local>> /\ NoneAbove
  BY ResumeFailsIs, NothingAbove
<1>2. CASE Stopped(saved)
  <2>1. saved' = saved \/ branch <= saved.branch_name
    BY <1>2, NoStateAssumption DEF ProcessInv, BranchInv, Stopped, Recorded
  <2> QED
    BY <1>1, <1>2, <2>1, StoppedInv
<1>3. CASE ~ Stopped(saved)
  <2>1. PICK s : /\ s.branch_name = state.branch_name /\ kind = "loop"
                 /\ \/ Ends(s)
                    \/ /\ rollover \in {"iteration", "handler"}
                       /\ RollsOver(s, "handler", before.tree)
    BY <1>3, ResumeFailsIs DEF SameDelivery
  <2>2. CASE Ends(s)
    BY <1>1, <2>1, <2>2, EndsInv
  <2>3. CASE rollover \in {"iteration", "handler"} /\ RollsOver(s, "handler", before.tree)
    <3>1. before \in Snapshots /\ before.tree \in Tree
      BY <1>1, <2>3 DEF ProcessInv, ControlInv, Snapshots
    <3> QED
      BY <1>1, <2>1, <2>3, <3>1, AtWork, RollsOverInv
  <2> QED
    BY <2>1, <2>2, <2>3
<1> QED
  BY <1>2, <1>3

------------------------------------------------------------------------------
(* Every step. *)
LEMMA MovingInv ==
  ASSUME ProcessInv, CheckoutInv, written \in 0..MaxChanges, MovingAction
  PROVE  ProcessInv' /\ CheckoutInv'
<1>1. CASE \/ Attach \/ BeginIteration \/ Reconcile \/ Revalidate \/ RecoverInterrupted
           \/ Observe \/ Done \/ (Verify /\ pc' = "ci") \/ CIFails \/ CIPasses
           \/ RemotePasses \/ KeepConversation
  <2>1. UNCHANGED checkout
    BY <1>1 DEF Attach, BeginIteration, Reconcile, Revalidate, RecoverInterrupted, Observe,
                Done, Verify, CIFails, CIPasses, RemotePasses, KeepConversation
  <2> QED
    BY <1>1, <2>1, CheckoutStays, AttachInv, BeginIterationInv, ReconcileInv, RevalidateInv,
       RecoverInterruptedInv, ObserveInv, DoneInv, VerifyInv, CIFailsInv, CIPassesInv,
       RemotePassesInv, KeepConversationInv
<1>2. CASE Resume \/ ResumeFails \/ Prepare \/ Execute \/ Commit \/ Push
  BY <1>2, ResumeInv, ResumeFailsInv, PrepareInv, ExecuteInv, CommitStepInv, PushStepInv
<1> QED
  BY <1>1, <1>2 DEF MovingAction

LEMMA ProcessStays ==
  ASSUME ProcessInv, UNCHANGED <<saved, process, branch, local>>
  PROVE  ProcessInv'
<1>1. UNCHANGED <<saved, pc, kind, state, before, after, rounds, rollover, reference,
                  branch, local>>
  BY DEF process
<1>2. ProcessTypeOK' /\ ControlInv'
  BY <1>1 DEF ProcessInv, ProcessTypeOK, ControlInv, InIteration
<1>3. CounterInv' /\ BranchInv'
  BY <1>1 DEF ProcessInv, CounterInv, BranchInv, InIteration, Active, Final
<1> QED
  BY <1>2, <1>3 DEF ProcessInv

LEMMA OperatorChangesIs ==
  ASSUME AuxiliaryTypeOK, OperatorChanges
  PROVE  /\ MaxChanges + ops + 1 \in Operator /\ MaxChanges + ops + 1 \in Change
         /\ ops' = ops + 1 /\ ops' \in 0..MaxOps
         /\ UNCHANGED <<saved, process, starts, written, validated>>
         /\ failed' = None /\ interrupted' = {}
         /\ \/ /\ Write(MaxChanges + ops + 1)
               /\ own' = (IF pc = "idle" THEN own \cup (files' \ files) ELSE own)
               /\ undone' = undone
            \/ Restore /\ undone' = undone \cup edits /\ own' = own
<1>1. ops < MaxOps /\ ops \in 0..MaxOps
  BY DEF OperatorChanges, AuxiliaryTypeOK
<1>2. MaxChanges + ops + 1 \in Operator /\ ops + 1 \in 0..MaxOps
  BY <1>1, CheckoutAssumption DEF Operator
<1> QED
  BY <1>2 DEF OperatorChanges, Change

LEMMA OperatorInv ==
  ASSUME TypeInv, OperatorChanges \/ OperatorMerges
  PROVE  ProcessInv' /\ CheckoutInv'
<1>1. CASE OperatorChanges
  <2>1. /\ UNCHANGED <<saved, process>>
        /\ MaxChanges + ops + 1 \in Change
        /\ Write(MaxChanges + ops + 1) \/ Restore
    BY <1>1, OperatorChangesIs DEF TypeInv
  <2>2. CheckoutInv' /\ UNCHANGED <<branch, local>>
    BY <2>1, WriteInv, RestoreInv DEF TypeInv, Write, Restore
  <2> QED
    BY <2>1, <2>2, ProcessStays DEF TypeInv
<1>2. CASE OperatorMerges
  <2>1. CheckoutInv' /\ UNCHANGED <<saved, process, branch, local>>
    BY <1>2, MergeInv DEF TypeInv, OperatorMerges, Merge
  <2> QED
    BY <2>1, ProcessStays DEF TypeInv
<1> QED
  BY <1>1, <1>2

LEMMA FailingInv ==
  ASSUME ProcessInv, CheckoutInv, FailingAction \/ Crash
  PROVE  ProcessInv' /\ CheckoutInv'
<1>1. FailingStep /\ (UNCHANGED checkout \/ FetchOnly)
  BY FailingActionFails, CrashStops DEF FailingStep, Crash
<1>2. CheckoutInv' /\ UNCHANGED <<branch, local>>
  BY <1>1, CheckoutStays, FetchInv DEF checkout, FetchOnly
<1> QED
  BY <1>1, <1>2, FailingStepInv

LEMMA StateInv ==
  ASSUME TypeInv, Next
  PROVE  ProcessInv' /\ CheckoutInv'
<1>1. CASE \E k \in {"once", "loop"} : Start(k)
  <2>1. UNCHANGED checkout
    BY <1>1 DEF Start
  <2> QED
    BY <1>1, <2>1, CheckoutStays, StartInv DEF TypeInv
<1>2. CASE ~ \E k \in {"once", "loop"} : Start(k)
  <2>1. written \in 0..MaxChanges
    BY DEF TypeInv, AuxiliaryTypeOK
  <2> QED
    BY <1>2, <2>1, StepsAre, FailingInv, MovingInv, OperatorInv DEF TypeInv
<1> QED
  BY <1>1, <1>2

(* What happened so far. *)
LEMMA AgentMayWriteIs ==
  ASSUME AuxiliaryTypeOK, CheckoutTypeOK, AgentMayWrite
  PROVE  /\ UNCHANGED <<starts, ops, own, undone, validated>>
         /\ \/ /\ UNCHANGED <<written, failed, interrupted, edits, files>>
            \/ /\ written' = written + 1 /\ failed' = None /\ interrupted' = {}
               /\ written' \in Agent /\ written' \in 0..MaxChanges
               /\ \/ edits' = edits \cup {written'} /\ files' = files
                  \/ files' = files \cup {written'} /\ edits' = edits
         /\ UNCHANGED <<branch, local, pushed, main, origin_main, content>>
<1>1. CASE AgentWrites
  <2>1. written + 1 \in Agent /\ written + 1 \in 0..MaxChanges
    BY <1>1, CheckoutAssumption DEF AgentWrites, AuxiliaryTypeOK, Agent
  <2> QED
    BY <1>1, <2>1 DEF AgentWrites, Write
<1>2. CASE UNCHANGED <<checkout, auxiliary>>
  BY <1>2 DEF checkout, auxiliary
<1> QED
  BY <1>1, <1>2 DEF AgentMayWrite

LEMMA AuxiliaryStays ==
  AuxiliaryTypeOK /\ UNCHANGED auxiliary => AuxiliaryTypeOK'
BY DEF AuxiliaryTypeOK, auxiliary

LEMMA AuxiliaryInv ==
  ASSUME TypeInv, Next
  PROVE  AuxiliaryTypeOK'
<1>1. /\ starts \in 0..MaxStarts /\ written \in 0..MaxChanges /\ ops \in 0..MaxOps
      /\ own \in SUBSET Operator /\ undone \in SUBSET Change /\ validated \in SUBSET Change
      /\ failed \in {"once", "loop", None} /\ interrupted \in SUBSET Agent
  BY DEF TypeInv, AuxiliaryTypeOK
<1>2. edits \in SUBSET Change /\ files \in SUBSET Change
  BY DEF TypeInv, CheckoutInv, CheckoutTypeOK
<1>3. CASE FailingAction
  BY <1>3, FailingActionFails, AuxiliaryStays DEF TypeInv
<1>4. CASE \E k \in {"once", "loop"} : Start(k)
  <2>1. starts' \in 0..MaxStarts
    BY <1>1, <1>4, DeliveryAssumption DEF Start
  <2> QED
    BY <1>1, <1>4, <2>1 DEF Start, AuxiliaryTypeOK
<1>5. CASE Crash
  <2>1. interrupted' \in SUBSET Agent
    BY <1>1, <1>5 DEF Crash
  <2> QED
    BY <1>1, <1>5, <2>1 DEF Crash, AuxiliaryTypeOK
<1>6. CASE OperatorChanges
  <2>1. own' \in SUBSET Operator
    BY <1>1, <1>6, OperatorChangesIs DEF TypeInv, Write
  <2>2. undone' \in SUBSET Change
    BY <1>1, <1>2, <1>6, OperatorChangesIs DEF TypeInv
  <2> QED
    BY <1>1, <1>6, <2>1, <2>2, OperatorChangesIs DEF TypeInv, AuxiliaryTypeOK
<1>7. CASE OperatorMerges
  BY <1>1, <1>7 DEF OperatorMerges, auxiliary, AuxiliaryTypeOK
<1>8. CASE Resume \/ ResumeFails \/ Execute
  <2>1. AgentMayWrite
    BY <1>8 DEF Resume, ResumeFails, Execute, AgentMayWrite
  <2> QED
    BY <1>1, <2>1, AgentMayWriteIs DEF TypeInv, CheckoutInv, AuxiliaryTypeOK
<1>9. CASE MovingAction /\ ~ (Resume \/ ResumeFails \/ Execute)
  <2>1. /\ UNCHANGED <<starts, written, ops, own, undone>>
        /\ validated' \in {validated, validated \cup edits \cup files}
        /\ failed' \in {failed, None, kind} /\ interrupted' \in {interrupted, {}}
    BY <1>9 DEF MovingAction, Attach, BeginIteration, Reconcile, Revalidate,
           RecoverInterrupted, Prepare, Observe, Done, Verify, CIFails, CIPasses, Commit, Push,
           RemotePasses, KeepConversation, auxiliary, LocalCIPassed
  <2>2. kind \in {"once", "loop", None}
    BY DEF TypeInv, ProcessInv, ProcessTypeOK
  <2> QED
    BY <1>1, <1>2, <2>1, <2>2 DEF AuxiliaryTypeOK
<1> QED
  BY <1>3, <1>4, <1>5, <1>6, <1>7, <1>8, <1>9, StepsAre

LEMMA TypesAre == TypeOK <=> CheckoutTypeOK /\ ProcessTypeOK /\ AuxiliaryTypeOK
BY DEF TypeOK, ProcessTypeOK, AuxiliaryTypeOK, Snapshots

LEMMA TypeInit == Init => TypeInv
<1> SUFFICES ASSUME Init PROVE TypeInv
  OBVIOUS
<1>1. CheckoutInv
  BY CheckoutInitInv DEF Init
<1>2. ProcessTypeOK
  BY DeliveryAssumption DEF Init, ProcessTypeOK, Place
<1>3. ControlInv /\ CounterInv
  BY DEF Init, ControlInv, CounterInv, InIteration
<1>4. BranchInv
  BY DEF Init, CheckoutInit, BranchInv, InIteration
<1>5. AuxiliaryTypeOK
  BY DeliveryAssumption, CheckoutAssumption DEF Init, AuxiliaryTypeOK
<1> QED
  BY <1>1, <1>2, <1>3, <1>4, <1>5 DEF TypeInv, ProcessInv

LEMMA TypeStep == TypeInv /\ [Next]_vars => TypeInv'
<1>1. TypeInv /\ Next => TypeInv'
  BY StateInv, AuxiliaryInv DEF TypeInv
<1>2. ASSUME TypeInv, UNCHANGED vars PROVE TypeInv'
  <2>1. /\ UNCHANGED checkout /\ UNCHANGED auxiliary
        /\ UNCHANGED <<saved, process, branch, local>>
    BY <1>2 DEF vars, checkout
  <2> QED
    BY <1>2, <2>1, CheckoutStays, ProcessStays, AuxiliaryStays DEF TypeInv
<1> QED
  BY <1>1, <1>2

LEMMA TypeInvariant == Spec => []TypeInv
BY TypeInit, TypeStep, PTL DEF Spec

(* The variables of the iteration loop keep their types: no counter, branch or commit
   number leaves its range, and every place finds the record, the snapshot and the
   reference it works with (loop.py, state.py). *)
THEOREM DeliveryTypeCorrect == Spec => []TypeOK
<1>1. TypeInv => TypeOK
  BY TypesAre DEF TypeInv, CheckoutInv, ProcessInv
<1> QED
  BY <1>1, TypeInvariant, PTL
====
