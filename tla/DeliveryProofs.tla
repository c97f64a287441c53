---------------------------- MODULE DeliveryProofs ----------------------------
(***************************************************************************)
(* What the iteration loop promises, for every number of runs, iterations, *)
(* changes and commits: nothing is lost, only validated changes reach      *)
(* GitHub, a success is there, the operator's files stay the operator's,   *)
(* and what failed or died is taken up again.                              *)
(***************************************************************************)
EXTENDS DeliveryTypes

(***************************************************************************)
(* The commits that some branch holds.                                     *)
(***************************************************************************)
Reachable ==
  {c \in 1..MaxCommits :
     \/ c \in main
     \/ \E b \in Branch : c \in local[b]
     \/ \E b \in Branch : pushed[b] # None /\ c \in pushed[b]}

LEMMA IsReachable ==
  ASSUME CheckoutTypeOK, NEW c
  PROVE  c \in Reachable <=>
           \/ c \in main
           \/ \E b \in Branch : c \in local[b]
           \/ \E b \in Branch : pushed[b] # None /\ c \in pushed[b]
<1>1. /\ \A d \in main : d \in 1..MaxCommits
      /\ \A b \in Branch : \A d \in local[b] : d \in 1..MaxCommits
      /\ \A b \in Branch : pushed[b] # None => \A d \in pushed[b] : d \in 1..MaxCommits
  BY DEF CheckoutTypeOK, History
<1> QED
  BY <1>1 DEF Reachable

LEMMA IsReachableNext ==
  ASSUME CheckoutTypeOK', NEW c
  PROVE  c \in Reachable' <=>
           \/ c \in main'
           \/ \E b \in Branch : c \in local'[b]
           \/ \E b \in Branch : pushed'[b] # None /\ c \in pushed'[b]
<1>1. /\ \A d \in main' : d \in 1..MaxCommits
      /\ \A b \in Branch : \A d \in local'[b] : d \in 1..MaxCommits
      /\ \A b \in Branch : pushed'[b] # None => \A d \in pushed'[b] : d \in 1..MaxCommits
  BY DEF CheckoutTypeOK, History
<1> QED
  BY <1>1 DEF Reachable

LEMMA ReachableIsMade ==
  ASSUME CheckoutInv, NEW c \in Reachable
  PROVE  c \in Made
<1>1. /\ \A d \in main : d \in Made
      /\ \A b \in Branch : \A d \in local[b] : d \in Made
      /\ \A b \in Branch : pushed[b] # None => \A d \in pushed[b] : d \in Made
  BY HistoriesAreMade
<1> QED
  BY <1>1 DEF Reachable

LEMMA InCommitted ==
  ASSUME NEW x, NEW h
  PROVE  x \in Committed(h) <=> \E c \in h : x \in Changes(content[c])
BY DEF Committed

LEMMA InEverywhere ==
  ASSUME NEW x
  PROVE  x \in Everywhere <=>
           \/ x \in Committed(main)
           \/ \E b \in Branch : x \in Committed(local[b])
           \/ \E b \in Branch : pushed[b] # None /\ x \in Committed(pushed[b])
<1> DEFINE here == UNION {Committed(local[b]) : b \in Branch}
           there == UNION {Committed(pushed[b]) : b \in {c \in Branch : pushed[c] # None}}
<1>1. x \in here <=> \E b \in Branch : x \in Committed(local[b])
  OBVIOUS
<1>2. x \in there <=> \E b \in Branch : pushed[b] # None /\ x \in Committed(pushed[b])
  OBVIOUS
<1>3. Everywhere = Committed(main) \cup here \cup there
  BY DEF Everywhere
<1> HIDE DEF here, there
<1> QED
  BY <1>1, <1>2, <1>3

LEMMA EverywhereIs ==
  ASSUME CheckoutTypeOK
  PROVE  Everywhere = Committed(Reachable)
<1>1. \A x : x \in Everywhere <=> x \in Committed(Reachable)
  BY InCommitted, InEverywhere, IsReachable
<1> QED
  BY <1>1

LEMMA ReachableStays ==
  ASSUME UNCHANGED <<main, local, pushed>>
  PROVE  Reachable' = Reachable
BY DEF Reachable

LEMMA PrepareReaches ==
  ASSUME ProcessInv, CheckoutInv, Prepare
  PROVE  Reachable' = Reachable
<1>1. /\ pc = "prepare" /\ Synchronize(state.branch_name)
      /\ state.branch_name \in Branch /\ branch <= state.branch_name
  <2>1. pc = "prepare" /\ Synchronize(state.branch_name)
    BY DEF Prepare
  <2> QED
    BY <2>1, AtWork, CheckoutAssumption DEF Branch
<1> DEFINE b == state.branch_name
<1>2. /\ local' = [local EXCEPT ![b] =
                     IF branch # b THEN main
                     ELSE IF pushed[b] # None /\ local[b] \subseteq pushed[b]
                          THEN pushed[b] ELSE local[b]]
      /\ UNCHANGED <<pushed, main>> /\ local \in [Branch -> History]
  BY <1>1 DEF Synchronize, CheckoutInv, CheckoutTypeOK
<1>3. branch # b => local[b] = {}
  BY <1>1, CheckoutAssumption DEF ProcessInv, BranchInv, Branch, CheckoutInv, CheckoutTypeOK
<1>4. /\ local[b] \subseteq local'[b]
      /\ \/ local'[b] = main
         \/ pushed[b] # None /\ local'[b] = pushed[b]
         \/ local'[b] = local[b]
      /\ \A a \in Branch : a # b => local'[a] = local[a]
  BY <1>1, <1>2, <1>3
<1> HIDE DEF b
<1>5. b \in Branch
  BY <1>1 DEF b
<1>6. CheckoutTypeOK /\ CheckoutTypeOK'
  BY PrepareInv DEF CheckoutInv
<1>7. \A c : c \in Reachable' <=> c \in Reachable
  BY <1>2, <1>4, <1>5, <1>6, IsReachable, IsReachableNext
<1> QED
  BY <1>7

LEMMA CommitReaches ==
  ASSUME ProcessInv, CheckoutInv, Commit
  PROVE  Reachable' = Reachable \cup {NextSha}
<1>1. /\ branch \in Branch /\ local \in [Branch -> History]
      /\ local' = [local EXCEPT ![branch] = @ \cup {NextSha}]
      /\ UNCHANGED <<pushed, main>>
  BY OnRunBranch DEF Commit, CommitAll, InIteration, CheckoutInv, CheckoutTypeOK
<1> HIDE DEF NextSha
<1>2. CheckoutTypeOK /\ CheckoutTypeOK'
  BY CommitStepInv DEF CheckoutInv
<1>3. \A c : c \in Reachable' <=> c \in Reachable \/ c = NextSha
  BY <1>1, <1>2, IsReachable, IsReachableNext
<1> QED
  BY <1>3

\* GitHub takes a push only when it keeps what it has.
LEMMA PushReaches ==
  ASSUME CheckoutInv, NEW b \in Branch, NEW accepted \in {CanPush(b), FALSE},
         pushed' = AfterPush(b, accepted)
  PROVE  /\ \A c \in Branch : pushed[c] # None => /\ pushed'[c] # None
                                                  /\ pushed[c] \subseteq pushed'[c]
         /\ \A c \in Branch : pushed'[c] # None => \/ pushed'[c] = local[c]
                                                   \/ pushed'[c] = pushed[c] /\ pushed[c] # None
<1>1. pushed \in [Branch -> History \cup {None}] /\ local[b] \in History
  BY DEF CheckoutInv, CheckoutTypeOK
<1>2. local[b] # None
  BY <1>1, NoneAssumption
<1>3. CASE accepted
  <2>1. /\ pushed' = [pushed EXCEPT ![b] = local[b]]
        /\ pushed[b] = None \/ pushed[b] \subseteq local[b]
    BY <1>3 DEF AfterPush, CanPush
  <2> QED
    BY <1>1, <1>2, <2>1
<1>4. CASE ~ accepted
  <2>1. pushed' = pushed
    BY <1>4 DEF AfterPush
  <2> QED
    BY <2>1
<1> QED
  BY <1>3, <1>4

Last == HeadOf(local[branch])

LEMMA PushStepReaches ==
  ASSUME ProcessInv, CheckoutInv, Push
  PROVE  /\ content' = content /\ Reachable' \subseteq Reachable
         /\ \/ Reachable \subseteq Reachable' /\ UNCHANGED <<edits, files>>
            \/ /\ Reachable \ {Last} \subseteq Reachable'
               /\ edits' = edits \cup content[Last].edits
               /\ files' = files \cup content[Last].files
         /\ \A c \in Branch : pushed[c] # None => /\ pushed'[c] # None
                                                  /\ pushed[c] \subseteq pushed'[c]
         /\ \E accepted \in {CanPush(branch), FALSE} : pushed' = AfterPush(branch, accepted)
<1>1. /\ branch = state.branch_name /\ branch \in Branch /\ local \in [Branch -> History]
      /\ UNCHANGED <<main, content>>
  BY OnRunBranch DEF Push, InIteration, CheckoutInv, CheckoutTypeOK
<1>2. PICK accepted \in {CanPush(branch), FALSE} :
        /\ pushed' = AfterPush(branch, accepted)
        /\ UNCHANGED <<edits, files, local>> \/ ResetMixed
  BY <1>1 DEF Push, PushDelivered, PushRolledBack, PushUnknown
<1>3. /\ \A c \in Branch : pushed[c] # None => /\ pushed'[c] # None
                                               /\ pushed[c] \subseteq pushed'[c]
      /\ \A c \in Branch : pushed'[c] # None => \/ pushed'[c] = local[c]
                                                \/ pushed'[c] = pushed[c] /\ pushed[c] # None
  BY <1>1, <1>2, PushReaches
<1> CheckoutTypeOK /\ CheckoutTypeOK'
  BY PushStepInv DEF CheckoutInv
<1>4. CASE UNCHANGED <<edits, files, local>>
  <2>1. \A c : c \in Reachable' <=> c \in Reachable
    BY <1>1, <1>3, <1>4, IsReachable, IsReachableNext
  <2> QED
    BY <1>1, <1>2, <1>3, <1>4, <2>1
<1>5. CASE ResetMixed
  <2>1. /\ local' = [local EXCEPT ![branch] = @ \ {Last}]
        /\ edits' = edits \cup content[Last].edits
        /\ files' = files \cup content[Last].files
    BY <1>5 DEF ResetMixed, Last
  <2>2. \A b \in Branch : local'[b] \subseteq local[b] /\ local[b] \ {Last} \subseteq local'[b]
    BY <1>1, <2>1
  <2>3. \A c : c \in Reachable' => c \in Reachable
    BY <1>1, <1>3, <2>2, IsReachable, IsReachableNext
  <2>4. \A c : c \in Reachable /\ c # Last => c \in Reachable'
    BY <1>1, <1>3, <2>2, IsReachable, IsReachableNext
  <2> QED
    BY <1>1, <1>2, <1>3, <2>1, <2>3, <2>4
<1> QED
  BY <1>2, <1>4, <1>5

LEMMA MergeReaches ==
  ASSUME CheckoutInv, Merge
  PROVE  Reachable' = Reachable
<1>1. PICK b \in Branch : pushed[b] # None /\ main \subseteq pushed[b] /\ main' = pushed[b]
  BY DEF Merge
<1>2. UNCHANGED <<local, pushed>>
  BY DEF Merge
<1>3. CheckoutTypeOK /\ CheckoutTypeOK'
  BY MergeInv DEF CheckoutInv
<1>4. \A c : c \in Reachable' <=> c \in Reachable
  BY <1>1, <1>2, <1>3, IsReachable, IsReachableNext
<1> QED
  BY <1>4

------------------------------------------------------------------------------
(* What a step does to the checkout and to the commits. *)
Quiet ==
  /\ UNCHANGED <<edits, files, content, pushed, written, undone, own, ops>>
  /\ Reachable' = Reachable
  /\ validated \subseteq validated'

LEMMA QuietSteps ==
  ASSUME TypeInv, Next,
         ~ (Execute \/ Resume \/ ResumeFails \/ OperatorChanges \/ Commit \/ Push)
  PROVE  Quiet
<1>1. CheckoutInv /\ ProcessInv
  BY DEF TypeInv
<1>2. CASE FailingAction
  BY <1>1, <1>2, FailingActionFails, ReachableStays
     DEF Quiet, FetchOnly, checkout, auxiliary
<1>3. CASE Prepare
  BY <1>1, <1>3, PrepareReaches DEF Prepare, Synchronize, Quiet
<1>4. CASE OperatorMerges
  <2>1. Merge /\ UNCHANGED auxiliary
    BY <1>4 DEF OperatorMerges
  <2> QED
    BY <1>1, <2>1, MergeReaches DEF Quiet, Merge, auxiliary
<1>5. CASE Crash \/ \E k \in {"once", "loop"} : Start(k)
  BY <1>5, ReachableStays DEF Crash, Start, Quiet, checkout
<1>6. CASE \/ Attach \/ BeginIteration \/ Reconcile \/ Revalidate \/ RecoverInterrupted
           \/ Observe \/ Done \/ (Verify /\ pc' = "ci") \/ CIFails \/ CIPasses
           \/ RemotePasses \/ KeepConversation
  <2>1. /\ UNCHANGED checkout
        /\ UNCHANGED <<written, undone, own, ops>>
        /\ validated' \in {validated, validated \cup edits \cup files}
    BY <1>6 DEF Attach, BeginIteration, Reconcile, Revalidate, RecoverInterrupted,
         Observe, Done, Verify, CIFails, CIPasses, RemotePasses, KeepConversation,
         LocalCIPassed, auxiliary
  <2> QED
    BY <2>1, ReachableStays DEF Quiet, checkout
<1> QED
  BY <1>2, <1>3, <1>4, <1>5, <1>6, StepsAre DEF MovingAction

LEMMA WritingSteps ==
  ASSUME TypeInv, Execute \/ Resume \/ ResumeFails
  PROVE  /\ UNCHANGED <<own, undone, validated, ops, content, pushed>>
         /\ Reachable' = Reachable
         /\ \/ UNCHANGED <<written, failed, interrupted, edits, files>>
            \/ /\ written' = written + 1 /\ failed' = None /\ interrupted' = {}
               /\ written' \in Agent
               /\ \/ edits' = edits \cup {written'} /\ files' = files
                  \/ files' = files \cup {written'} /\ edits' = edits
<1>1. AgentMayWrite
  BY DEF Execute, AgentMayWrite, Resume, ResumeFails
<1>2. AuxiliaryTypeOK /\ CheckoutTypeOK
  BY DEF TypeInv, CheckoutInv
<1> QED
  BY <1>1, <1>2, AgentMayWriteIs, ReachableStays

LEMMA OperatorSteps ==
  ASSUME TypeInv, OperatorChanges
  PROVE  /\ UNCHANGED <<content, pushed, written, validated>> /\ Reachable' = Reachable
         /\ failed' = None /\ interrupted' = {}
         /\ UNCHANGED <<saved, pc, kind, state, before, after, rounds, rollover, reference>>
         /\ \/ \E c \in Operator :
                 /\ c = MaxChanges + ops + 1
                 /\ \/ edits' = edits \cup {c} /\ files' = files
                    \/ files' = files \cup {c} /\ edits' = edits
                 /\ own' = (IF pc = "idle" THEN own \cup (files' \ files) ELSE own)
                 /\ undone' = undone
            \/ edits' = {} /\ files' = files /\ undone' = undone \cup edits /\ own' = own
<1>1. /\ MaxChanges + ops + 1 \in Operator
      /\ UNCHANGED <<saved, process, starts, written, validated>>
      /\ failed' = None /\ interrupted' = {}
      /\ \/ /\ Write(MaxChanges + ops + 1)
            /\ own' = (IF pc = "idle" THEN own \cup (files' \ files) ELSE own)
            /\ undone' = undone
         \/ Restore /\ undone' = undone \cup edits /\ own' = own
  BY OperatorChangesIs DEF TypeInv
<1>2. UNCHANGED <<local, pushed, main, content>>
  BY <1>1 DEF Write, Restore
<1>3. Reachable' = Reachable
  BY <1>2, ReachableStays
<1>4. UNCHANGED <<saved, pc, kind, state, before, after, rounds, rollover, reference>>
  BY <1>1 DEF process
<1>5. CASE /\ Write(MaxChanges + ops + 1)
           /\ own' = (IF pc = "idle" THEN own \cup (files' \ files) ELSE own)
           /\ undone' = undone
  <2>1. \/ edits' = edits \cup {MaxChanges + ops + 1} /\ files' = files
        \/ files' = files \cup {MaxChanges + ops + 1} /\ edits' = edits
    BY <1>5 DEF Write
  <2> QED
    BY <1>1, <1>2, <1>3, <1>4, <1>5, <2>1
<1>6. CASE Restore /\ undone' = undone \cup edits /\ own' = own
  BY <1>1, <1>2, <1>3, <1>4, <1>6 DEF Restore
<1> QED
  BY <1>1, <1>5, <1>6

LEMMA CommitIs ==
  ASSUME TypeInv, Commit
  PROVE  /\ NextSha \in 1..MaxCommits /\ NextSha \notin Reachable
         /\ Reachable' = Reachable \cup {NextSha}
         /\ content' = [content EXCEPT ![NextSha] = Staged(Baseline)]
         /\ content'[NextSha] = Staged(Baseline)
         /\ \A c \in Reachable : content'[c] = content[c]
         /\ edits' = {} /\ files' = files \cap Baseline
         /\ UNCHANGED <<pushed, written, undone, own, ops, validated, saved, interrupted>>
         /\ failed' = None /\ pc = "commit" /\ Go("push", state)
<1>1. CheckoutInv /\ ProcessInv
  BY DEF TypeInv
<1>2. /\ NextSha <= MaxCommits
      /\ content' = [content EXCEPT ![NextSha] = Staged(Baseline)]
      /\ edits' = {} /\ files' = files \cap Baseline
      /\ UNCHANGED <<pushed, written, undone, own, ops, validated, saved, interrupted>>
      /\ failed' = None /\ pc = "commit" /\ Go("push", state)
  BY DEF Commit, CommitAll
<1>3. NextSha \in Nat \ {0} /\ Made = 1..(NextSha - 1)
  BY <1>1, NextShaIsNew
<1>4. NextSha \in 1..MaxCommits /\ NextSha \notin Made
  BY <1>2, <1>3, CheckoutAssumption
<1>5. \A c \in Reachable : c \in Made /\ c \in 1..MaxCommits
  BY <1>1, ReachableIsMade DEF Made
<1>6. Reachable' = Reachable \cup {NextSha}
  BY <1>1, CommitReaches
<1>7. content \in [1..MaxCommits -> Tree]
  BY <1>1 DEF CheckoutInv, CheckoutTypeOK
<1> HIDE DEF NextSha
<1>8. content'[NextSha] = Staged(Baseline) /\ \A c \in Reachable : content'[c] = content[c]
  BY <1>2, <1>4, <1>5, <1>7
<1> QED
  BY <1>2, <1>4, <1>5, <1>6, <1>8

LEMMA StagedHolds ==
  ASSUME NEW baseline
  PROVE  Changes(Staged(baseline)) = edits \cup (files \ baseline)
BY DEF Changes, Staged

\* What the commits hold after a step that makes none.
LEMMA CommittedStays ==
  ASSUME content' = content, Reachable' = Reachable
  PROVE  Committed(Reachable)' = Committed(Reachable)
<1>1. \A x : x \in Committed(Reachable)' <=> \E c \in Reachable' : x \in Changes(content'[c])
  BY DEF Committed, Changes
<1>2. \A x : x \in Committed(Reachable) <=> \E c \in Reachable : x \in Changes(content[c])
  BY InCommitted
<1>3. \A x : x \in Committed(Reachable)' <=> x \in Committed(Reachable)
  BY <1>1, <1>2
<1> QED
  BY <1>3

LEMMA InCommittedNext ==
  ASSUME NEW x
  PROVE  x \in Committed(Reachable)' <=> \E c \in Reachable' : x \in Changes(content'[c])
BY DEF Committed, Changes

LEMMA CommitHolds ==
  ASSUME TypeInv, Commit, NEW x
  PROVE  x \in Committed(Reachable)' <=>
           x \in Committed(Reachable) \/ x \in edits \cup (files \ Baseline)
<1>1. /\ Reachable' = Reachable \cup {NextSha}
      /\ content'[NextSha] = Staged(Baseline)
      /\ \A c \in Reachable : content'[c] = content[c]
  BY CommitIs
<1> HIDE DEF NextSha
<1>2. x \in Changes(content'[NextSha]) <=> x \in edits \cup (files \ Baseline)
  BY <1>1, StagedHolds
<1>3. x \in Committed(Reachable)' <=>
        x \in Changes(content'[NextSha]) \/ \E c \in Reachable : x \in Changes(content[c])
  <2>1. \A c \in Reachable : x \in Changes(content'[c]) <=> x \in Changes(content[c])
    BY <1>1
  <2> QED
    BY <1>1, <2>1, InCommittedNext
<1> QED
  BY <1>2, <1>3, InCommitted

LEMMA PushHolds ==
  ASSUME TypeInv, Push, NEW x
  PROVE  /\ x \in Committed(Reachable)' => x \in Committed(Reachable)
         /\ x \in edits \cup files => x \in edits' \cup files'
         /\ x \in Committed(Reachable) => x \in Committed(Reachable)' \/ x \in edits' \cup files'
<1>1. CheckoutInv /\ ProcessInv
  BY DEF TypeInv
<1>2. /\ content' = content /\ Reachable' \subseteq Reachable
      /\ \/ Reachable \subseteq Reachable' /\ UNCHANGED <<edits, files>>
         \/ /\ Reachable \ {Last} \subseteq Reachable'
            /\ edits' = edits \cup content[Last].edits
            /\ files' = files \cup content[Last].files
  BY <1>1, PushStepReaches
<1> HIDE DEF Last
<1>3. x \in Committed(Reachable)' => x \in Committed(Reachable)
  BY <1>2, InCommitted, InCommittedNext
<1>4. x \in edits \cup files => x \in edits' \cup files'
  BY <1>2
<1>5. ASSUME x \in Committed(Reachable)
      PROVE  x \in Committed(Reachable)' \/ x \in edits' \cup files'
  <2>1. PICK c \in Reachable : x \in Changes(content[c])
    BY <1>5, InCommitted
  <2>2. CASE c \in Reachable'
    BY <1>2, <2>1, <2>2, InCommittedNext
  <2>3. CASE c \notin Reachable'
    BY <1>2, <2>1, <2>3 DEF Changes
  <2> QED
    BY <2>2, <2>3
<1> QED
  BY <1>3, <1>4, <1>5

------------------------------------------------------------------------------
(* Nothing the agent wrote is lost. *)
Held(x) == x \in edits \cup files \cup undone \/ x \in Committed(Reachable)

HeldInv == \A x \in 1..written : Held(x)

LEMMA HeldIs ==
  ASSUME CheckoutTypeOK
  PROVE  NothingIsLost <=> HeldInv
BY EverywhereIs DEF NothingIsLost, HeldInv, Held

LEMMA StillHeld ==
  ASSUME TypeInv, Next, NEW x, Held(x)
  PROVE  Held(x)'
<1>1. CASE Quiet
  BY <1>1, CommittedStays DEF Quiet, Held
<1>2. CASE Execute \/ Resume \/ ResumeFails
  <2>1. /\ content' = content /\ Reachable' = Reachable /\ undone' = undone
        /\ edits \subseteq edits' /\ files \subseteq files'
    BY <1>2, WritingSteps
  <2> QED
    BY <2>1, CommittedStays DEF Held
<1>3. CASE OperatorChanges
  <2>1. /\ content' = content /\ Reachable' = Reachable /\ undone \subseteq undone'
        /\ edits \subseteq edits' \cup undone' /\ files \subseteq files'
    BY <1>3, OperatorSteps
  <2> QED
    BY <2>1, CommittedStays DEF Held
<1>4. CASE Commit
  <2>1. undone' = undone /\ files' = files \cap Baseline
    BY <1>4, CommitIs
  <2> QED
    BY <1>4, <2>1, CommitHolds DEF Held
<1>5. CASE Push
  <2>1. undone' = undone
    BY <1>5 DEF Push, auxiliary
  <2> QED
    BY <1>5, <2>1, PushHolds DEF Held
<1> QED
  BY <1>1, <1>2, <1>3, <1>4, <1>5, QuietSteps

LEMMA HeldStep == TypeInv /\ HeldInv /\ [Next]_vars => HeldInv'
<1>1. ASSUME TypeInv, HeldInv, Next PROVE HeldInv'
  <2> SUFFICES ASSUME NEW x \in 1..written' PROVE Held(x)'
    BY DEF HeldInv
  <2>1. CASE x \in 1..written
    BY <1>1, <2>1, StillHeld DEF HeldInv
  <2>2. CASE x \notin 1..written
    <3>1. /\ written \in Nat
          /\ written' # written => written' = written + 1 /\ x = written'
      <4>1. written \in Nat
        BY <1>1 DEF TypeInv, AuxiliaryTypeOK
      <4>2. written' = written \/ written' = written + 1
        BY <1>1, QuietSteps, WritingSteps, OperatorSteps, CommitIs
           DEF Quiet, Push, auxiliary
      <4> QED
        BY <2>2, <4>1, <4>2
    <3>2. written' # written
      BY <2>2
    <3>3. Execute \/ Resume \/ ResumeFails
      BY <1>1, <3>2, QuietSteps, OperatorSteps, CommitIs DEF Quiet, Push, auxiliary
    <3>4. x \in edits' \cup files'
      BY <1>1, <3>1, <3>2, <3>3, WritingSteps
    <3> QED
      BY <3>4 DEF Held
  <2> QED
    BY <2>1, <2>2
<1>2. ASSUME HeldInv, UNCHANGED vars PROVE HeldInv'
  <2>1. UNCHANGED <<edits, files, undone, written, content, main, local, pushed>>
    BY <1>2 DEF vars, checkout, auxiliary
  <2>2. Committed(Reachable)' = Committed(Reachable)
    BY <2>1, ReachableStays, CommittedStays
  <2> QED
    BY <1>2, <2>1, <2>2 DEF HeldInv, Held
<1> QED
  BY <1>1, <1>2

(* What the agent wrote is in the checkout or in a commit, unless the operator restored
   it: a commit and the reset after a failed push (git_gate.py 516-531), a branch switch
   (git_gate.py 441-456), a recovery and a death lose no change. *)
THEOREM DeliveryLosesNothing == Spec => []NothingIsLost
<1>1. Init => HeldInv
  BY DEF Init, HeldInv
<1>2. Spec => []HeldInv
  BY <1>1, TypeInvariant, HeldStep, PTL DEF Spec
<1>3. TypeInv /\ HeldInv => NothingIsLost
  BY HeldIs DEF TypeInv, CheckoutInv
<1> QED
  BY <1>2, <1>3, TypeInvariant, PTL

------------------------------------------------------------------------------
(* Where the process goes. *)
LEMMA FailingPlaces == FailingStep => pc' \in {"idle", "iterate", "resume"}
BY DEF FailingStep, Ends, Stopped, GoesOn, RollsOver

LEMMA MovingPlaces ==
  ASSUME TypeInv
  PROVE  /\ Attach => pc = "attach" /\ pc' = IF kind = "loop" THEN "iterate" ELSE "ask"
         /\ Resume => /\ pc = "resume"
                      /\ pc' = IF rollover = "attach" THEN "attach" ELSE "iterate"
         /\ ResumeFails => pc = "resume" /\ pc' \in {"idle", "iterate", "resume"}
         /\ BeginIteration => pc = "iterate" /\ pc' = "reconcile"
         /\ Reconcile => /\ pc = "reconcile"
                         /\ pc' \in {"revalidate", AfterReconcile}
         /\ Revalidate => pc = "revalidate" /\ pc' = AfterReconcile
         /\ RecoverInterrupted => pc = "interrupted" /\ pc' = "prepare"
         /\ Prepare => pc = "prepare" /\ pc' = IF kind = "once" THEN "attach" ELSE "ask"
         /\ Execute => pc = "ask" /\ pc' = "observe"
         /\ Observe => pc = "observe" /\ pc' = "ask"
         /\ Done => pc = "ask" /\ pc' = "verify"
         /\ CIFails => pc = "ci" /\ pc' \in {"idle", "iterate"}
         /\ CIPasses => pc = "ci" /\ pc' = "commit"
         /\ Commit => pc = "commit" /\ pc' = "push"
         /\ Push => pc = "push" /\ pc' \in {"remote", "idle", "iterate"}
         /\ RemotePasses => pc = "remote" /\ pc' = IF kind = "once" THEN "idle" ELSE "delivered"
         /\ KeepConversation => pc = "delivered" /\ pc' = "iterate"
<1>1. /\ Attach => pc = "attach" /\ pc' = IF kind = "loop" THEN "iterate" ELSE "ask"
      /\ Resume => /\ pc = "resume"
                   /\ pc' = IF rollover = "attach" THEN "attach" ELSE "iterate"
      /\ BeginIteration => pc = "iterate" /\ pc' = "reconcile"
      /\ Reconcile => /\ pc = "reconcile"
                      /\ pc' \in {"revalidate", AfterReconcile}
      /\ Revalidate => pc = "revalidate" /\ pc' = AfterReconcile
      /\ RecoverInterrupted => pc = "interrupted" /\ pc' = "prepare"
  BY DEF Attach, Resume, BeginIteration, Reconcile, Revalidate, RecoverInterrupted, Go,
         NextIteration, SaveAndGo, SaveAndIterate
<1>2. /\ Prepare => pc = "prepare" /\ pc' = IF kind = "once" THEN "attach" ELSE "ask"
      /\ Execute => pc = "ask" /\ pc' = "observe"
      /\ Observe => pc = "observe" /\ pc' = "ask"
      /\ Done => pc = "ask" /\ pc' = "verify"
      /\ CIPasses => pc = "ci" /\ pc' = "commit"
      /\ Commit => pc = "commit" /\ pc' = "push"
      /\ RemotePasses => pc = "remote" /\ pc' = IF kind = "once" THEN "idle" ELSE "delivered"
      /\ KeepConversation => pc = "delivered" /\ pc' = "iterate"
  BY DEF Prepare, Execute, Observe, Done, CIPasses, Commit, RemotePasses, KeepConversation,
         Go, NextIteration, SaveAndGo, End
<1>3. ResumeFails => pc = "resume" /\ pc' \in {"idle", "iterate", "resume"}
  BY ResumeFailsIs DEF TypeInv, AuxiliaryTypeOK, Ends, Stopped, GoesOn, RollsOver
<1>4. /\ CIFails => pc = "ci" /\ pc' \in {"idle", "iterate"}
      /\ Push => pc = "push" /\ pc' \in {"remote", "idle", "iterate"}
  <2>1. \A s : Fail(s) => pc' \in {"idle", "iterate"}
    BY DEF Fail, FailLoop, End, SaveAndIterate, NextIteration
  <2> QED
    BY <2>1 DEF CIFails, Push, PushDelivered, PushRolledBack, PushUnknown,
                DeliveryException, Go
<1> QED
  BY <1>1, <1>2, <1>3, <1>4

LEMMA ComesFrom ==
  ASSUME TypeInv, Next
  PROVE  /\ pc' = "commit" => CIPasses \/ OperatorChanges \/ (OperatorMerges /\ pc = "commit")
         /\ pc' = "remote" => Push \/ OperatorChanges \/ (OperatorMerges /\ pc = "remote")
         /\ pc' = "push" => Commit \/ OperatorChanges \/ (OperatorMerges /\ pc = "push")
<1>1. FailingAction => pc' \in {"idle", "iterate", "resume"}
  BY FailingActionFails, FailingPlaces DEF TypeInv
<1>2. Crash => pc' = "idle"
  BY DEF Crash, End
<1>3. (\E k \in {"once", "loop"} : Start(k)) => pc' \in {"reconcile", "attach"}
  BY DEF Start
<1>4. OperatorMerges => pc' = pc
  BY DEF OperatorMerges, process
<1>5. MovingAction => /\ pc' = "commit" => CIPasses
                      /\ pc' = "remote" => Push
                      /\ pc' = "push" => Commit
  BY MovingPlaces DEF MovingAction, AfterReconcile
<1> QED
  BY <1>1, <1>2, <1>3, <1>4, <1>5, StepsAre

------------------------------------------------------------------------------
(* What reaches GitHub was in the checkout when local CI passed. *)
ValidatedInv ==
  \A x \in Agent :
    /\ x \in Committed(Reachable) => x \in validated
    /\ pc = "commit" /\ x \in edits \cup files => x \in validated

LEMMA ValidatedStep == TypeInv /\ ValidatedInv /\ [Next]_vars => ValidatedInv'
<1>1. ASSUME TypeInv, ValidatedInv, Next PROVE ValidatedInv'
  <2> SUFFICES ASSUME NEW x \in Agent
               PROVE  /\ x \in Committed(Reachable)' => x \in validated'
                      /\ pc' = "commit" /\ x \in edits' \cup files' => x \in validated'
    BY DEF ValidatedInv, Agent
  <2>1. /\ x \in Committed(Reachable) => x \in validated
        /\ pc = "commit" /\ x \in edits \cup files => x \in validated
    BY <1>1 DEF ValidatedInv
  <2>2. validated \subseteq validated'
    BY <1>1, QuietSteps, WritingSteps, OperatorSteps, CommitIs DEF Quiet, Push, auxiliary
  <2>3. x \in Committed(Reachable)' => x \in validated'
    <3>1. CASE Quiet
      BY <2>1, <2>2, <3>1, CommittedStays DEF Quiet
    <3>2. CASE Execute \/ Resume \/ ResumeFails \/ OperatorChanges
      <4>1. content' = content /\ Reachable' = Reachable
        BY <1>1, <3>2, WritingSteps, OperatorSteps
      <4> QED
        BY <2>1, <2>2, <4>1, CommittedStays
    <3>3. CASE Commit
      <4>1. pc = "commit"
        BY <1>1, <3>3, CommitIs
      <4> QED
        BY <1>1, <2>1, <2>2, <3>3, <4>1, CommitHolds
    <3>4. CASE Push
      BY <1>1, <2>1, <2>2, <3>4, PushHolds
    <3> QED
      BY <1>1, <3>1, <3>2, <3>3, <3>4, QuietSteps
  <2>4. pc' = "commit" /\ x \in edits' \cup files' => x \in validated'
    <3>1. CASE CIPasses
      BY <3>1 DEF CIPasses, LocalCIPassed, checkout
    <3>2. CASE OperatorChanges
      <4>1. pc' = pc
        BY <1>1, <3>2, OperatorSteps
      <4>2. x \notin Operator
        BY CheckoutAssumption DEF Agent, Operator
      <4>3. x \in edits' \cup files' => x \in edits \cup files
        BY <1>1, <3>2, <4>2, OperatorSteps
      <4> QED
        BY <2>1, <2>2, <4>1, <4>3
    <3>3. CASE OperatorMerges /\ pc = "commit"
      BY <2>1, <2>2, <3>3 DEF OperatorMerges, Merge
    <3> QED
      BY <1>1, <3>1, <3>2, <3>3, ComesFrom
  <2> QED
    BY <2>3, <2>4
<1>2. ASSUME ValidatedInv, UNCHANGED vars PROVE ValidatedInv'
  <2>1. UNCHANGED <<edits, files, pc, validated, content, main, local, pushed>>
    BY <1>2 DEF vars, checkout, auxiliary, process
  <2>2. Committed(Reachable)' = Committed(Reachable)
    BY <2>1, ReachableStays, CommittedStays
  <2> QED
    BY <1>2, <2>1, <2>2 DEF ValidatedInv, Agent
<1> QED
  BY <1>1, <1>2

LEMMA NothingCommitted ==
  ASSUME Init
  PROVE  Committed(Reachable) = {}
<1>1. Reachable = {}
  BY DEF Init, CheckoutInit, Reachable
<1> QED
  BY <1>1 DEF Committed

(* No change of the agent is on GitHub that was not in the checkout when local CI passed,
   whatever failures, deaths and recoveries brought it there (loop.py 530-570,
   recovery.py 58-102). *)
THEOREM DeliveryPushesValidated == Spec => []PushedIsValidated
<1>1. Init => ValidatedInv
  BY NothingCommitted DEF Init, ValidatedInv
<1>2. Spec => []ValidatedInv
  BY <1>1, TypeInvariant, ValidatedStep, PTL DEF Spec
<1>3. ASSUME TypeInv, ValidatedInv PROVE PushedIsValidated
  <2> SUFFICES ASSUME NEW b \in Branch, pushed[b] # None, NEW x \in Agent,
                      x \in Committed(pushed[b])
               PROVE  x \in validated
    BY DEF PushedIsValidated
  <2>1. PICK c \in pushed[b] : x \in Changes(content[c])
    BY InCommitted
  <2>2. c \in Reachable
    BY <1>3, IsReachable DEF TypeInv, CheckoutInv
  <2> QED
    BY <1>3, <2>1, <2>2, InCommitted DEF ValidatedInv
<1> QED
  BY <1>2, <1>3, TypeInvariant, PTL

------------------------------------------------------------------------------
(* What is recorded as a success is on GitHub. *)
OnGitHub(s) ==
  /\ s.last_commit_sha # None
  /\ pushed[s.branch_name] # None
  /\ s.last_commit_sha \in pushed[s.branch_name]

SuccessInv ==
  /\ saved # None /\ Successful(saved) => OnGitHub(saved)
  /\ state # None /\ Successful(state) => pc \in {"delivered", "iterate"} /\ OnGitHub(state)
  /\ pc = "remote" => OnGitHub(state)

\* GitHub forgets no commit of a branch.
LEMMA PushedGrows ==
  ASSUME TypeInv, Next
  PROVE  \A b \in Branch : pushed[b] # None => /\ pushed'[b] # None
                                               /\ pushed[b] \subseteq pushed'[b]
<1>1. CASE Push
  BY <1>1, PushStepReaches DEF TypeInv
<1>2. CASE ~ Push
  <2>1. pushed' = pushed
    BY <1>2, QuietSteps, WritingSteps, OperatorSteps, CommitIs DEF Quiet
  <2> QED
    BY <2>1
<1> QED
  BY <1>1, <1>2

LEMMA StaysOnGitHub ==
  ASSUME TypeInv, Next, NEW s \in AgentState, NEW t \in AgentState,
         SameDelivery(s, t), OnGitHub(s)
  PROVE  /\ t.last_commit_sha # None
         /\ pushed'[t.branch_name] # None
         /\ t.last_commit_sha \in pushed'[t.branch_name]
<1>1. s.branch_name \in Branch
  BY CheckoutAssumption DEF AgentState, Branch
<1> QED
  BY <1>1, PushedGrows DEF SameDelivery, OnGitHub

------------------------------------------------------------------------------
(* Where a record comes from: what the steps make of the recovery and of the observation  *)
(* that the record in memory holds.                                                       *)
Same(s, t) == SameRecovery(s, t) /\ SameObservation(s, t)

Clean(s, t) ==
  /\ SameObservation(s, t)
  /\ ~ t.pending_ci_fix /\ t.pending_ci_worktree_fingerprint = None

Dirty(s, t, baseline, tree) ==
  /\ SameObservation(s, t)
  /\ t.pending_ci_fix
  /\ t.pending_ci_baseline_untracked = baseline.files
  /\ t.pending_ci_worktree_fingerprint = tree

Refreshed(s, t) ==
  /\ SameObservation(s, t)
  /\ s.pending_ci_fix /\ s.pending_ci_worktree_fingerprint # Fingerprint
  /\ t.pending_ci_fix
  /\ t.pending_ci_baseline_untracked = s.pending_ci_baseline_untracked
  /\ files \subseteq t.pending_ci_baseline_untracked
  /\ t.pending_ci_worktree_fingerprint = Fingerprint

Opened(s, t) ==
  /\ SameRecovery(s, t)
  /\ t.iteration_baseline = IF kind = "once" THEN Fingerprint ELSE None
  /\ t.iteration_observed = None /\ ~ t.execution_requested

Watched(s, t) ==
  /\ SameRecovery(s, t)
  /\ t.iteration_baseline = s.iteration_baseline
  /\ t.iteration_observed = Fingerprint /\ t.execution_requested

Closed(s, t) ==
  /\ ~ t.pending_ci_fix /\ t.pending_ci_worktree_fingerprint = None
  /\ t.iteration_baseline = s.iteration_baseline
  /\ t.iteration_observed = s.iteration_observed

Recovers(t) ==
  \/ Same(state, t)
  \/ Clean(state, t)
  \/ pc = "reconcile" /\ Refreshed(state, t)
  \/ InIteration /\ Dirty(state, t, before.tree, Fingerprint')
  \/ pc = "resume" /\ rollover = "iteration" /\ Dirty(state, t, before.tree, Fingerprint')
  \/ pc = "commit" /\ Dirty(state, t, before.tree, EmptyTree)
  \/ CIFails /\ Dirty(state, t, before.tree, FailedTree)
  \/ pc = "resume" /\ Fingerprint' # reference /\ Dirty(state, t, reference, Fingerprint')
  \/ /\ pc = "interrupted" /\ Observed(state) /\ state.iteration_observed = Fingerprint
     /\ Dirty(state, t, state.iteration_baseline, Fingerprint)
  \/ Prepare /\ Opened(state, t)
  \/ Observe /\ Watched(state, t)
  \/ RemotePasses /\ Closed(state, t)

FromState(t) ==
  /\ pc # "idle" /\ Recovers(t)
  /\ SameDelivery(state, t) \/ Push
  /\ Successful(t) => Successful(state) \/ RemotePasses

FromSaved(t) ==
  /\ saved \in AgentState /\ Kept(saved, t)
  /\ Successful(t) => Successful(saved)

Started(t) ==
  /\ pc = "idle" /\ ~ Successful(t)
  /\ IF saved = None
     THEN /\ ~ t.pending_ci_fix /\ t.pending_ci_worktree_fingerprint = None
          /\ t.iteration_baseline = None /\ t.iteration_observed = None
     ELSE saved \in AgentState /\ (Same(saved, t) \/ Clean(saved, t))

StateComes == state' = None \/ FromState(state') \/ Started(state')

SavedComes ==
  saved' = saved \/ FromSaved(saved') \/ FromState(saved') \/ (saved' = state' /\ StateComes)

LEMMA RecoversSame ==
  ASSUME NEW s, NEW t, Recovers(s), Same(s, t)
  PROVE  Recovers(t)
BY DEF Recovers, Same, Clean, Dirty, Refreshed, Opened, Watched, Closed,
       SameRecovery, SameObservation

LEMMA FromStateKept ==
  ASSUME NEW s, NEW t, FromState(s), Kept(s, t), Successful(t) => Successful(s)
  PROVE  FromState(t)
<1>1. Recovers(t)
  BY RecoversSame DEF FromState, Kept, Same
<1>2. SameDelivery(state, s) => SameDelivery(state, t)
  BY DEF Kept, SameDelivery
<1> QED
  BY <1>1, <1>2 DEF FromState

LEMMA StateItself ==
  ASSUME pc # "idle"
  PROVE  FromState(state)
<1>1. Same(state, state) /\ SameDelivery(state, state)
  BY DEF Same, SameRecovery, SameObservation, SameDelivery
<1> QED
  BY <1>1 DEF FromState, Recovers

\* A recovery that is recorded or cleared.
LEMMA DirtyComes ==
  ASSUME pc # "idle", state \in AgentState, NEW baseline \in Tree, NEW tree \in Tree \cup {None},
         NEW s, s \in {state, Cleared(state)}
  PROVE  /\ Dirty(state, RecordDirty(s, baseline, tree), baseline, tree)
         /\ Recovers(RecordDirty(s, baseline, tree)) => FromState(RecordDirty(s, baseline, tree))
<1> DEFINE t == RecordDirty(s, baseline, tree)
<1>1. s \in AgentState /\ SameObservation(state, s) /\ SameDelivery(state, s) /\ SameRun(state, s)
  BY ClearedType, KeptByItself DEF Kept
<1>2. /\ SameObservation(s, t) /\ SameDelivery(s, t) /\ SameRun(s, t) /\ t.pending_ci_fix
      /\ t.pending_ci_baseline_untracked = baseline.files
      /\ t.pending_ci_worktree_fingerprint = tree
  BY <1>1, RecordDirtyType
<1> HIDE DEF t
<1>3. SameObservation(state, t) /\ SameDelivery(state, t) /\ t.state = state.state
  BY <1>1, <1>2 DEF SameObservation, SameDelivery, SameRun
<1>4. Dirty(state, t, baseline, tree)
  BY <1>2, <1>3 DEF Dirty
<1>5. Recovers(t) => FromState(t)
  BY <1>3 DEF FromState, Successful
<1> QED
  BY <1>4, <1>5 DEF t

LEMMA ClearedComes ==
  ASSUME pc # "idle", state \in AgentState
  PROVE  FromState(Cleared(state))
<1>1. Clean(state, Cleared(state)) /\ SameDelivery(state, Cleared(state))
      /\ Cleared(state).state = state.state
  BY ClearedType DEF Clean, SameRun
<1> QED
  BY <1>1 DEF FromState, Recovers, Successful

LEMMA EndsCome ==
  ASSUME NEW s, FromState(s), Ends(s)
  PROVE  SavedComes /\ StateComes
<1>1. CASE Stopped(s)
  <2>1. saved' = saved \/ FromState(saved')
    BY <1>1, FromStateKept DEF Stopped, Recorded
  <2> QED
    BY <1>1, <2>1 DEF SavedComes, StateComes, Stopped
<1>2. CASE GoesOn(s)
  <2>1. FromState(state') /\ saved' = state'
    BY <1>2, FromStateKept DEF GoesOn, Recorded
  <2> QED
    BY <2>1 DEF SavedComes, StateComes
<1> QED
  BY <1>1, <1>2 DEF Ends

LEMMA RollsOverComes ==
  ASSUME NEW s, FromState(s), NEW why, NEW baseline, RollsOver(s, why, baseline)
  PROVE  SavedComes /\ StateComes
<1>1. FromState(state') /\ saved' = saved
  BY FromStateKept DEF RollsOver, Recorded
<1> QED
  BY <1>1 DEF SavedComes, StateComes

LEMMA FailingComes ==
  ASSUME ProcessInv, CheckoutInv, FailingStep, UNCHANGED <<edits, files>>
  PROVE  SavedComes /\ StateComes
<1>1. CASE Stopped(saved)
  <2>1. saved' = saved \/ FromSaved(saved')
    BY <1>1 DEF Stopped, Recorded, FromSaved
  <2> QED
    BY <1>1, <2>1 DEF SavedComes, StateComes, Stopped
<1>2. CASE ~ Stopped(saved)
  <2>1. pc # "idle"
    BY <1>2 DEF FailingStep, InIteration, ProcessInv, ControlInv
  <2>2. state \in AgentState /\ Fingerprint \in Tree /\ Fingerprint' = Fingerprint
    BY <2>1, AtWork, FingerprintType DEF CheckoutInv, Fingerprint
  <2>3. FromState(state) /\ FromState(PushedDescendant(state))
    BY <2>1, <2>2, StateItself, ClearedComes, PushedDescendantType
  <2>4. InIteration => FromState(DirtyRecord)
    <3> SUFFICES ASSUME InIteration PROVE FromState(DirtyRecord)
      OBVIOUS
    <3>1. before.tree \in Tree
      BY InIterationFacts
    <3>2. Dirty(state, DirtyRecord, before.tree, Fingerprint')
      BY <2>1, <2>2, <3>1, DirtyComes DEF DirtyRecord
    <3> QED
      BY <2>1, <2>2, <3>1, <3>2, DirtyComes DEF DirtyRecord, Recovers
  <2>5. pc = "commit" => FromState(RecordDirty(state, before.tree, EmptyTree))
    <3> SUFFICES ASSUME pc = "commit" PROVE FromState(RecordDirty(state, before.tree, EmptyTree))
      OBVIOUS
    <3>1. before.tree \in Tree
      BY InIterationFacts DEF InIteration
    <3>2. Dirty(state, RecordDirty(state, before.tree, EmptyTree), before.tree, EmptyTree)
      BY <2>1, <2>2, <3>1, DirtyComes, EmptyTreeType
    <3> QED
      BY <2>1, <2>2, <3>1, <3>2, DirtyComes, EmptyTreeType DEF Recovers
  <2>6. pc \in {"ask", "observe"} => InIteration
    BY DEF InIteration
  <2> QED
    BY <1>2, <2>3, <2>4, <2>5, <2>6, EndsCome, RollsOverComes DEF FailingStep
<1> QED
  BY <1>1, <1>2

LEMMA GoesWith ==
  ASSUME pc # "idle", NEW s, FromState(s), state' = s, saved' = saved \/ saved' = s
  PROVE  SavedComes /\ StateComes
BY DEF SavedComes, StateComes

LEMMA SameComes ==
  ASSUME pc # "idle", NEW s, Same(state, s), SameDelivery(state, s), s.state = state.state
  PROVE  FromState(s)
BY DEF FromState, Recovers, Successful

LEMMA PlainMovesCome ==
  ASSUME TypeInv,
         \/ Attach \/ BeginIteration \/ Execute \/ Done \/ (Verify /\ pc' = "ci")
         \/ CIPasses \/ Commit \/ KeepConversation
  PROVE  SavedComes /\ StateComes
<1>1. saved' = saved /\ pc # "idle"
  BY DEF Attach, BeginIteration, Execute, Done, Verify, NoProgress, CIPasses, Commit,
         KeepConversation, SaveAndIterate, NextIteration, End
<1>2. state \in AgentState
  BY <1>1, AtWork DEF TypeInv
<1>3. CASE BeginIteration
  <2>1. state' = Begun(state)
    BY <1>3 DEF BeginIteration, Go
  <2>2. Kept(state, Begun(state)) /\ Begun(state).state = "WORKING"
    BY <1>2, BegunType
  <2>3. FromState(Begun(state))
    BY <1>1, <2>2, StateItself, FromStateKept DEF Successful
  <2> QED
    BY <1>1, <2>1, <2>3, GoesWith
<1>4. CASE CIPasses
  <2> DEFINE s == [state EXCEPT !.last_ci_ok = TRUE]
  <2>1. state' = s
    BY <1>4 DEF CIPasses, Go
  <2>2. Same(state, s) /\ SameDelivery(state, s) /\ s.state = state.state
    BY <1>2 DEF AgentState, Same, SameRecovery, SameObservation, SameDelivery
  <2> HIDE DEF s
  <2> QED
    BY <1>1, <2>1, <2>2, SameComes, GoesWith
<1>5. CASE ~ (BeginIteration \/ CIPasses)
  <2>1. state' = state
    BY <1>5 DEF Attach, Execute, Done, Verify, NoProgress, Commit, KeepConversation,
                SaveAndIterate, NextIteration, End, Go
  <2> QED
    BY <1>1, <2>1, StateItself, GoesWith
<1> QED
  BY <1>3, <1>4, <1>5

LEMMA RefreshedBy ==
  ASSUME CheckoutTypeOK, NEW s \in AgentState
  PROVE  Same(s, Migrated(s)) \/ Clean(s, Migrated(s)) \/ Refreshed(s, Migrated(s))
<1> DEFINE t == [s EXCEPT !.pending_ci_worktree_fingerprint = Fingerprint]
<1>1. Fingerprint # None
  BY FingerprintType, NoneAssumption
<1>2. /\ SameObservation(s, t) /\ t.pending_ci_fix = s.pending_ci_fix
      /\ t.pending_ci_baseline_untracked = s.pending_ci_baseline_untracked
      /\ t.pending_ci_worktree_fingerprint = Fingerprint
  BY DEF AgentState, SameObservation
<1>3. \/ Migrated(s) = s \/ Migrated(s) = Cleared(s)
      \/ /\ s.pending_ci_fix /\ s.pending_ci_worktree_fingerprint = None
         /\ files \subseteq s.pending_ci_baseline_untracked
         /\ Migrated(s) = t
  BY DEF Migrated
<1> HIDE DEF t
<1>4. CASE Migrated(s) = s
  BY <1>4, KeptByItself DEF Kept, Same
<1>5. CASE Migrated(s) = Cleared(s)
  BY <1>5, ClearedType DEF Clean
<1>6. CASE /\ s.pending_ci_fix /\ s.pending_ci_worktree_fingerprint = None
           /\ files \subseteq s.pending_ci_baseline_untracked
           /\ Migrated(s) = t
  BY <1>1, <1>2, <1>6 DEF Refreshed
<1> QED
  BY <1>3, <1>4, <1>5, <1>6

LEMMA ReconciliationComes ==
  ASSUME TypeInv, Reconcile \/ Revalidate \/ RecoverInterrupted
  PROVE  SavedComes /\ StateComes
<1>1. pc # "idle" /\ UNCHANGED <<edits, files>>
  BY DEF Reconcile, Revalidate, RecoverInterrupted, checkout
<1>2. state \in AgentState /\ CheckoutTypeOK /\ Fingerprint \in Tree
  BY <1>1, AtWork, FingerprintType DEF TypeInv, CheckoutInv
<1>3. CASE Reconcile
  <2> DEFINE s == Migrated(state)
  <2>1. pc = "reconcile" /\ saved' = saved /\ state' = s
    BY <1>3 DEF Reconcile, Go
  <2>2. s.state = state.state /\ SameDelivery(state, s)
    BY <1>2, MigratedType DEF SameRun, SameDelivery
  <2>3. Recovers(s)
    BY <1>2, <2>1, RefreshedBy DEF Recovers
  <2> HIDE DEF s
  <2>4. FromState(s)
    BY <1>1, <2>2, <2>3 DEF FromState, Successful
  <2> QED
    BY <1>1, <2>1, <2>4, GoesWith
<1>4. CASE Revalidate
  <2>1. PICK s \in {state, Cleared(state)}, ok \in BOOLEAN :
          state' = [s EXCEPT !.last_ci_ok = ok]
    BY <1>4 DEF Revalidate, Go
  <2>2. s \in AgentState /\ FromState(s)
    BY <1>1, <1>2, <2>1, StateItself, ClearedComes, ClearedType
  <2>3. Kept(s, state') /\ state'.state = s.state
    BY <2>1, <2>2 DEF AgentState, Kept, SameRecovery, SameObservation, SameDelivery
  <2>4. FromState(state')
    BY <2>2, <2>3, FromStateKept DEF Successful
  <2>5. saved' = saved
    BY <1>4 DEF Revalidate
  <2> QED
    BY <1>1, <2>4, <2>5, GoesWith
<1>5. CASE RecoverInterrupted
  <2> DEFINE s == PushedDescendant(state)
  <2>1. /\ pc = "interrupted" /\ s \in {state, Cleared(state)} /\ s \in AgentState
        /\ SameObservation(state, s)
    BY <1>2, <1>5, PushedDescendantType, ClearedType, KeptByItself
       DEF RecoverInterrupted, Kept
  <2>2. /\ saved' = saved \/ saved' = state'
        /\ \/ state' = s
           \/ /\ Observed(s) /\ s.iteration_observed = Fingerprint
              /\ state' = RecordDirty(s, s.iteration_baseline, Fingerprint)
    BY <1>5 DEF RecoverInterrupted, SaveAndGo, Go
  <2> HIDE DEF s
  <2>3. CASE state' = s
    BY <1>1, <1>2, <2>1, <2>2, <2>3, StateItself, ClearedComes, GoesWith
  <2>4. CASE /\ Observed(s) /\ s.iteration_observed = Fingerprint
             /\ state' = RecordDirty(s, s.iteration_baseline, Fingerprint)
    <3>1. /\ Observed(state) /\ state.iteration_observed = Fingerprint
          /\ s.iteration_baseline = state.iteration_baseline
          /\ state.iteration_baseline \in Tree
      BY <1>2, <2>1, <2>4 DEF SameObservation, Observed, AgentState
    <3>2. Dirty(state, state', state.iteration_baseline, Fingerprint)
          /\ (Recovers(state') => FromState(state'))
      BY <1>1, <1>2, <2>1, <2>4, <3>1, DirtyComes
    <3>3. FromState(state')
      BY <2>1, <3>1, <3>2 DEF Recovers
    <3> QED
      BY <1>1, <2>2, <3>3, GoesWith
  <2> QED
    BY <2>2, <2>3, <2>4
<1> QED
  BY <1>3, <1>4, <1>5

LEMMA IterationComes ==
  ASSUME TypeInv, Prepare \/ Observe \/ CIFails \/ RemotePasses
  PROVE  SavedComes /\ StateComes
<1>1. CheckoutInv /\ ProcessInv /\ pc # "idle"
  BY DEF TypeInv, Prepare, Observe, CIFails, RemotePasses
<1>2. state \in AgentState /\ kind \in {"once", "loop"} /\ Fingerprint \in Tree
  BY <1>1, AtWork, FingerprintType DEF CheckoutInv
<1>3. CASE Prepare
  <2> DEFINE baseline == IF kind = "once" THEN Fingerprint ELSE None
  <2>1. state' = StartIteration(state, baseline) /\ (saved' = saved \/ saved' = state')
    BY <1>3 DEF Prepare
  <2>2. CheckoutTypeOK' /\ baseline \in Tree \cup {None}
    BY <1>1, <1>2, <1>3, PrepareInv DEF CheckoutInv
  <2>3. /\ SameRecovery(state, state') /\ SameDelivery(state, state')
        /\ state'.state = state.state
        /\ state'.iteration_baseline = baseline /\ state'.iteration_observed = None
        /\ ~ state'.execution_requested
    BY <1>2, <2>1, <2>2, StartIterationType DEF SameRun
  <2>4. Recovers(state')
    BY <1>3, <2>3 DEF Opened, Recovers
  <2>5. FromState(state')
    BY <1>1, <2>3, <2>4 DEF FromState, Successful
  <2> QED
    BY <1>1, <2>1, <2>5, GoesWith
<1>4. CASE Observe
  <2> DEFINE s == [state EXCEPT !.execution_requested = TRUE, !.iteration_observed = Fingerprint]
  <2>1. state' = s /\ saved' = state'
    BY <1>4 DEF Observe
  <2>2. /\ SameRecovery(state, s) /\ SameDelivery(state, s) /\ s.state = state.state
        /\ s.iteration_baseline = state.iteration_baseline
        /\ s.iteration_observed = Fingerprint /\ s.execution_requested
    BY <1>2 DEF AgentState, SameRecovery, SameDelivery
  <2> HIDE DEF s
  <2>3. Recovers(s)
    BY <1>4, <2>2 DEF Watched, Recovers
  <2>4. FromState(s)
    BY <1>1, <2>2, <2>3 DEF FromState, Successful
  <2> QED
    BY <1>1, <2>1, <2>4, GoesWith
<1>5. CASE CIFails
  <2>1. pc = "ci" /\ Ends(CIRecord)
    BY <1>1, <1>5, CIFailsEnds
  <2>2. Dirty(state, CIRecord, before.tree, FailedTree)
        /\ SameDelivery(state, CIRecord) /\ CIRecord.state = state.state
    BY <1>1, <2>1, CIRecordType DEF Dirty
  <2>3. FromState(CIRecord)
    BY <1>1, <1>5, <2>2 DEF FromState, Recovers, Successful
  <2> QED
    BY <2>1, <2>3, EndsCome
<1>6. CASE RemotePasses
  <2>1. PICK r \in {"COMPLETED", "ITERATION_SUCCEEDED"} :
          saved' = Succeeded(r) /\ state' \in {None, Succeeded(r)}
    BY <1>6 DEF RemotePasses, End, SaveAndGo, Go
  <2>2. Closed(state, Succeeded(r)) /\ SameDelivery(state, Succeeded(r))
    BY <1>2, SucceededType DEF Closed
  <2>3. FromState(Succeeded(r))
    BY <1>1, <1>6, <2>2 DEF FromState, Recovers
  <2> QED
    BY <2>1, <2>3 DEF SavedComes, StateComes
<1> QED
  BY <1>3, <1>4, <1>5, <1>6

LEMMA PushComes ==
  ASSUME TypeInv, Push
  PROVE  SavedComes /\ StateComes
<1>1. CheckoutInv /\ ProcessInv /\ pc = "push" /\ InIteration
  BY DEF TypeInv, Push, InIteration
<1>2. /\ state \in AgentState /\ Active(state) /\ kind \in {"once", "loop"}
      /\ branch = state.branch_name /\ local[branch] \in History /\ before.tree \in Tree
  BY <1>1, AtWork, OnRunBranch, InIterationFacts
<1>3. Fingerprint' \in Tree
  BY <1>1, PushStepInv DEF CheckoutInv, CheckoutTypeOK, Fingerprint, Tree
<1>4. PICK accepted \in {CanPush(branch), FALSE}, answer \in {"answers", "silent", "raises"} :
        \/ PushDelivered(accepted, answer)
        \/ PushRolledBack(accepted, answer)
        \/ PushUnknown(accepted, answer)
  BY <1>2 DEF Push
<1>5. CASE PushDelivered(accepted, answer)
  <2> DEFINE s == [state EXCEPT !.last_commit_sha = HeadOf(local[branch])]
  <2>1. state' = s /\ saved' = saved
    BY <1>2, <1>5 DEF PushDelivered, Go
  <2>2. Same(state, s) /\ s.state = state.state
    BY <1>2 DEF AgentState, Same, SameRecovery, SameObservation
  <2> HIDE DEF s
  <2>3. FromState(s)
    BY <1>1, <2>2 DEF FromState, Recovers, Successful
  <2> QED
    BY <1>1, <2>1, <2>3, GoesWith
<1>6. CASE PushRolledBack(accepted, answer) \/ PushUnknown(accepted, answer)
  <2>1. PICK s \in {state, RecordDirty(state, before.tree, Fingerprint')} : Fail(s)
    <3>1. PushUnknown(accepted, answer) => Fingerprint' = Fingerprint
      BY DEF PushUnknown, Fingerprint
    <3> QED
      BY <1>6, <3>1, DirtiedIs DEF PushRolledBack, PushUnknown, DeliveryException
  <2>2. s \in AgentState /\ Active(s)
    BY <1>1, <1>2, <1>3, <2>1, DirtyRecordType
  <2>3. FromState(RecordDirty(state, before.tree, Fingerprint'))
    BY <1>1, <1>2, <1>3, DirtyComes DEF Recovers
  <2>4. FromState(s)
    BY <1>1, <2>1, <2>3, StateItself
  <2>5. Ends(s)
    BY <1>2, <2>1, <2>2, FailEnds DEF Ends
  <2> QED
    BY <2>4, <2>5, EndsCome
<1> QED
  BY <1>4, <1>5, <1>6

LEMMA ResumeComes ==
  ASSUME TypeInv, Resume \/ ResumeFails
  PROVE  SavedComes /\ StateComes
<1>1. CheckoutInv /\ ProcessInv /\ written \in 0..MaxChanges
  BY DEF TypeInv, AuxiliaryTypeOK
<1>2. CASE Resume
  <2>1. /\ pc = "resume" /\ Fingerprint' \in Tree /\ SameObservation(state, ResumedRecord)
        /\ SameDelivery(state, ResumedRecord) /\ ResumedRecord.state = state.state
        /\ saved' = ResumedRecord /\ state' = ResumedRecord
    BY <1>1, <1>2, ResumeIs DEF Go, NextIteration
  <2>2. state \in AgentState /\ reference \in Tree
    BY <1>1, <2>1, AtWork DEF ProcessInv, ControlInv
  <2>3. FromState(ResumedRecord)
    <3>1. CASE Fingerprint' # reference
      <4>1. ResumedRecord = RecordDirty(state, reference, Fingerprint')
        BY <3>1 DEF ResumedRecord
      <4> QED
        BY <2>1, <2>2, <3>1, <4>1, DirtyComes DEF Recovers
    <3>2. CASE Fingerprint' = reference
      BY <2>1, <3>2, StateItself DEF ResumedRecord
    <3> QED
      BY <3>1, <3>2
  <2> QED
    BY <2>1, <2>3, GoesWith
<1>3. CASE ResumeFails
  <2>1. /\ pc = "resume" /\ Fingerprint' \in Tree
        /\ \/ rollover = "attach" /\ Stopped(saved)
           \/ /\ rollover # "attach" /\ kind = "loop"
              /\ \E s \in {state} \cup
                          IF rollover = "iteration"
                          THEN {RecordDirty(state, before.tree, Fingerprint')} ELSE {} :
                   /\ s \in AgentState /\ SameDelivery(state, s)
                   /\ \/ Ends(s)
                      \/ /\ rollover \in {"iteration", "handler"}
                         /\ RollsOver(s, "handler", before.tree)
    BY <1>1, <1>3, ResumeFailsIs
  <2>2. CASE Stopped(saved)
    <3>1. saved' = saved \/ FromSaved(saved')
      BY <2>2 DEF Stopped, Recorded, FromSaved
    <3> QED
      BY <2>2, <3>1 DEF SavedComes, StateComes, Stopped
  <2>3. CASE ~ Stopped(saved)
    <3>1. PICK s \in {state} \cup
                     IF rollover = "iteration"
                     THEN {RecordDirty(state, before.tree, Fingerprint')} ELSE {} :
            Ends(s) \/ RollsOver(s, "handler", before.tree)
      BY <2>1, <2>3
    <3>2. FromState(state) /\ state \in AgentState
      BY <1>1, <2>1, StateItself, AtWork
    <3>3. rollover = "iteration" => FromState(RecordDirty(state, before.tree, Fingerprint'))
      <4> SUFFICES ASSUME rollover = "iteration"
                   PROVE  FromState(RecordDirty(state, before.tree, Fingerprint'))
        OBVIOUS
      <4>1. before.tree \in Tree
        BY <1>1, <2>1 DEF ProcessInv, ControlInv, Snapshots
      <4> QED
        BY <2>1, <3>2, <4>1, DirtyComes DEF Recovers
    <3>4. FromState(s)
      BY <3>1, <3>2, <3>3
    <3> QED
      BY <3>1, <3>4, EndsCome, RollsOverComes
  <2> QED
    BY <2>2, <2>3
<1> QED
  BY <1>2, <1>3

LEMMA StartComes ==
  ASSUME TypeInv, NEW k \in {"once", "loop"}, Start(k)
  PROVE  /\ Started(state')
         /\ saved' = saved \/ saved' = state'
         /\ pc' = IF k = "once" THEN "reconcile" ELSE "attach"
<1>1. ProcessInv /\ pc = "idle"
  BY DEF TypeInv, Start
<1>2. PICK s \in PrepareState :
           /\ Kept(s, state') /\ ~ Successful(state')
           /\ IF k = "once" THEN pc' = "reconcile" /\ saved' = saved
              ELSE pc' = "attach" /\ saved' = state'
  BY <1>1, StartIs
<1>3. CASE saved = None
  <2>1. /\ ~ s.pending_ci_fix /\ s.pending_ci_worktree_fingerprint = None
        /\ s.iteration_baseline = None /\ s.iteration_observed = None
    BY <1>1, <1>3, PreparedType, NewStateType, CheckoutAssumption
  <2> QED
    BY <1>1, <1>2, <1>3, <2>1 DEF Started, Kept, SameRecovery, SameObservation
<1>4. CASE saved # None
  <2>1. saved \in AgentState /\ (Same(saved, s) \/ Clean(saved, s))
    BY <1>1, <1>4, PreparedType DEF Same, Clean
  <2>2. Same(saved, state') \/ Clean(saved, state')
    BY <1>2, <2>1 DEF Kept, Same, Clean, SameRecovery, SameObservation
  <2> QED
    BY <1>1, <1>2, <1>4, <2>1, <2>2 DEF Started
<1> QED
  BY <1>3, <1>4

LEMMA RecordsCome ==
  ASSUME TypeInv, Next
  PROVE  SavedComes /\ StateComes
<1>1. CheckoutInv /\ ProcessInv
  BY DEF TypeInv
<1>2. CASE FailingAction \/ Crash
  <2>1. FailingStep /\ UNCHANGED <<edits, files>>
    BY <1>1, <1>2, FailingActionFails, CrashStops DEF FailingStep, Crash, checkout, FetchOnly
  <2> QED
    BY <1>1, <2>1, FailingComes
<1>3. CASE OperatorChanges \/ OperatorMerges
  <2>1. saved' = saved /\ state' = state
    BY <1>3, OperatorSteps DEF OperatorMerges, process
  <2>2. pc # "idle" => FromState(state)
    BY StateItself
  <2>3. pc = "idle" => state = None
    BY <1>1 DEF ProcessInv, ControlInv
  <2> QED
    BY <2>1, <2>2, <2>3 DEF SavedComes, StateComes
<1>4. CASE \E k \in {"once", "loop"} : Start(k)
  <2>1. PICK k \in {"once", "loop"} : Start(k)
    BY <1>4
  <2>2. Started(state') /\ (saved' = saved \/ saved' = state')
    BY <2>1, StartComes
  <2> QED
    BY <2>2 DEF SavedComes, StateComes
<1>5. CASE MovingAction
  BY <1>5, PlainMovesCome, ReconciliationComes, IterationComes, PushComes, ResumeComes
     DEF MovingAction
<1> QED
  BY <1>2, <1>3, <1>4, <1>5, StepsAre

------------------------------------------------------------------------------
(* Success. *)
LEMMA SuccessPlaces ==
  ASSUME TypeInv, Next, state' # None, Successful(state'),
         pc \in {"delivered", "iterate"} \/ RemotePasses
  PROVE  pc' \in {"delivered", "iterate"}
<1>1. CASE FailingAction
  <2>1. FailingStep
    BY <1>1, FailingActionFails DEF TypeInv
  <2> QED
    BY <1>1, <2>1 DEF FailingStep, Ends, Stopped, GoesOn, RollsOver
<1>2. CASE MovingAction
  <2>1. BeginIteration => ~ Successful(state')
    <3> SUFFICES ASSUME BeginIteration PROVE ~ Successful(state')
      OBVIOUS
    <3>1. state' = Begun(state) /\ state \in AgentState
      BY AtWork DEF BeginIteration, Go, TypeInv
    <3> QED
      BY <3>1, BegunType DEF Successful
  <2>2. RemotePasses /\ kind = "once" => state' = None
    BY DEF RemotePasses, End
  <2>3. CASE RemotePasses
    BY <2>2, <2>3, MovingPlaces
  <2>4. CASE ~ RemotePasses
    <3>1. BeginIteration \/ KeepConversation
      BY <1>2, <2>4, MovingPlaces DEF MovingAction, Verify
    <3> QED
      BY <2>1, <3>1, MovingPlaces
  <2> QED
    BY <2>3, <2>4
<1>3. CASE OperatorChanges \/ OperatorMerges
  <2>1. pc' = pc
    BY <1>3, OperatorSteps DEF OperatorMerges, process
  <2>2. ~ RemotePasses
    BY <1>3, OperatorChangesIs DEF TypeInv, OperatorChanges, OperatorMerges, RemotePasses,
                                  auxiliary, checkout, Merge
  <2> QED
    BY <2>1, <2>2
<1>4. CASE Crash
  BY <1>4 DEF Crash, End
<1>5. CASE \E k \in {"once", "loop"} : Start(k)
  BY <1>5 DEF Start, RemotePasses
<1> QED
  BY <1>1, <1>2, <1>3, <1>4, <1>5, StepsAre

LEMMA ConfirmedIsOnGitHub ==
  ASSUME TypeInv, Push, pc' = "remote"
  PROVE  OnGitHub(state)'
<1>1. CheckoutInv /\ ProcessInv /\ pc = "push" /\ InIteration
  BY DEF TypeInv, Push, InIteration
<1>2. /\ state \in AgentState /\ branch = state.branch_name
      /\ local[branch] \in History /\ local[branch] # {} /\ kind \in {"once", "loop"}
  BY <1>1, AtWork, OnRunBranch DEF ProcessInv, BranchInv
<1>3. PICK accepted, answer : PushDelivered(accepted, answer)
  <2>1. \A s : Fail(s) => pc' \in {"idle", "iterate"}
    BY DEF Fail, FailLoop, End, SaveAndIterate, NextIteration
  <2> QED
    BY <2>1 DEF Push, PushRolledBack, PushUnknown, DeliveryException
<1> DEFINE last == HeadOf(local[branch])
<1>4. /\ pushed'[branch] = local[branch]
      /\ state' = [state EXCEPT !.last_commit_sha = last]
  BY <1>2, <1>3 DEF PushDelivered, Confirmed, Go
<1>5. last \in local[branch] /\ last \in Sha
  BY <1>2, HeadOfHistory
<1> HIDE DEF last
<1>6. state'.last_commit_sha = last /\ state'.branch_name = branch
  BY <1>2, <1>4 DEF AgentState
<1>7. last # None
  BY <1>5, CheckoutAssumption DEF Sha
<1>8. pushed'[branch] # None
  BY <1>2, <1>4, NoneAssumption
<1> QED
  BY <1>4, <1>5, <1>6, <1>7, <1>8 DEF OnGitHub

LEMMA SuccessStep == TypeInv /\ SuccessInv /\ [Next]_vars => SuccessInv'
<1>1. ASSUME TypeInv, SuccessInv, Next PROVE SuccessInv'
  <2>1. ProcessInv /\ saved \in AgentState \cup {None} /\ state \in AgentState \cup {None}
    BY <1>1 DEF TypeInv, ProcessInv, ProcessTypeOK
  <2>2. saved' \in AgentState \cup {None} /\ state' \in AgentState \cup {None}
    BY <1>1, StateInv DEF ProcessInv, ProcessTypeOK
  <2>3. pc # "idle" => state \in AgentState /\ state # None
    BY <2>1, AtWork, NoStateAssumption
  <2>4. ASSUME NEW t \in AgentState, FromState(t), Successful(t)
        PROVE  /\ t.last_commit_sha # None
               /\ pushed'[t.branch_name] # None
               /\ t.last_commit_sha \in pushed'[t.branch_name]
               /\ pc \in {"delivered", "iterate"} \/ RemotePasses
    <3>1. /\ pc # "idle"
          /\ SameDelivery(state, t) \/ Push
          /\ Successful(state) \/ RemotePasses
      BY <2>4 DEF FromState
    <3>2. OnGitHub(state) /\ (pc \in {"delivered", "iterate"} \/ RemotePasses)
      BY <1>1, <2>3, <3>1 DEF SuccessInv, RemotePasses, FromState, Push
    <3>3. SameDelivery(state, t)
      BY <3>1, <3>2 DEF Push, RemotePasses
    <3>4. state \in AgentState
      BY <2>3, <2>4 DEF FromState
    <3> QED
      BY <1>1, <3>2, <3>3, <3>4, StaysOnGitHub
  <2>5. ASSUME state' # None, Successful(state')
        PROVE  pc' \in {"delivered", "iterate"} /\ OnGitHub(state)'
    <3>1. FromState(state') /\ state' \in AgentState
      BY <1>1, <2>2, <2>5, RecordsCome DEF StateComes, Started
    <3>2. OnGitHub(state)' /\ (pc \in {"delivered", "iterate"} \/ RemotePasses)
      BY <2>4, <2>5, <3>1 DEF OnGitHub
    <3> QED
      BY <1>1, <2>5, <3>2, SuccessPlaces
  <2>6. ASSUME saved' # None, Successful(saved')
        PROVE  OnGitHub(saved)'
    <3>1. saved' \in AgentState
      BY <2>2, <2>6
    <3>2. CASE saved' = saved \/ FromSaved(saved')
      <4>1. /\ saved \in AgentState /\ SameDelivery(saved, saved') /\ Successful(saved)
            /\ saved # None
        BY <2>6, <3>1, <3>2, KeptByItself, NoStateAssumption DEF FromSaved, Kept
      <4>2. OnGitHub(saved)
        BY <1>1, <4>1 DEF SuccessInv
      <4> QED
        BY <1>1, <3>1, <4>1, <4>2, StaysOnGitHub DEF OnGitHub
    <3>3. CASE FromState(saved')
      BY <2>4, <2>6, <3>1, <3>3 DEF OnGitHub
    <3>4. CASE saved' = state' /\ StateComes
      BY <2>5, <2>6, <3>4 DEF OnGitHub
    <3> QED
      BY <1>1, <3>2, <3>3, <3>4, RecordsCome DEF SavedComes
  <2>7. ASSUME pc' = "remote" PROVE OnGitHub(state)'
    <3>1. CASE Push
      BY <1>1, <2>7, <3>1, ConfirmedIsOnGitHub
    <3>2. CASE OperatorChanges \/ (OperatorMerges /\ pc = "remote")
      <4>1. pc = "remote" /\ state' = state
        BY <1>1, <2>7, <3>2, OperatorSteps DEF OperatorMerges, process
      <4>2. OnGitHub(state) /\ state \in AgentState /\ SameDelivery(state, state)
        BY <1>1, <2>3, <4>1 DEF SuccessInv, SameDelivery
      <4> QED
        BY <1>1, <4>1, <4>2, StaysOnGitHub DEF OnGitHub
    <3> QED
      BY <1>1, <2>7, <3>1, <3>2, ComesFrom
  <2> QED
    BY <2>5, <2>6, <2>7 DEF SuccessInv
<1>2. ASSUME SuccessInv, UNCHANGED vars PROVE SuccessInv'
  <2>1. UNCHANGED <<saved, state, pc, pushed>>
    BY <1>2 DEF vars, checkout, process
  <2> QED
    BY <1>2, <2>1 DEF SuccessInv, OnGitHub, Successful
<1> QED
  BY <1>1, <1>2

(* An iteration that is recorded as a success has its commit on GitHub: the record is made
   only after the push was confirmed (git_gate.py 516-531) and the run's branch keeps what
   it has (loop.py 571-600). *)
THEOREM DeliverySuccessIsOnGitHub == Spec => []SuccessIsOnGitHub
<1>1. Init => SuccessInv
  BY DEF Init, SuccessInv
<1>2. Spec => []SuccessInv
  BY <1>1, TypeInvariant, SuccessStep, PTL DEF Spec
<1>3. SuccessInv => SuccessIsOnGitHub
  BY DEF SuccessInv, SuccessIsOnGitHub, Successful, OnGitHub
<1> QED
  BY <1>2, <1>3, PTL

------------------------------------------------------------------------------
(* The operator numbers its changes in order: nothing holds a change that is still to come. *)
Known(c, k) == c \in Operator => c <= MaxChanges + k

Past(tree, k) == tree # None => \A c \in Changes(tree) : Known(c, k)

PastRecord(s, k) == Past(s.pending_ci_worktree_fingerprint, k) /\ Past(s.iteration_observed, k)

FutureInv ==
  /\ Past(Fingerprint, ops)
  /\ \A c \in own : Known(c, ops)
  /\ \A c \in 1..MaxCommits : Past(content[c], ops)
  /\ Past(after, ops)
  /\ saved # None => PastRecord(saved, ops)
  /\ state # None => PastRecord(state, ops)

LEMMA StillPast ==
  ASSUME NEW k \in Nat, NEW m \in Nat, k <= m
  PROVE  /\ \A c : Known(c, k) => Known(c, m)
         /\ \A tree : Past(tree, k) => Past(tree, m)
         /\ \A s : PastRecord(s, k) => PastRecord(s, m)
<1>1. \A c : c \in Operator => c \in Int
  BY CheckoutAssumption DEF Operator
<1>2. \A c : Known(c, k) => Known(c, m)
  BY <1>1, CheckoutAssumption DEF Known
<1>3. \A tree : Past(tree, k) => Past(tree, m)
  BY <1>2 DEF Past
<1> QED
  BY <1>2, <1>3 DEF PastRecord

LEMMA OpsGrow ==
  ASSUME TypeInv, Next
  PROVE  ops \in Nat /\ ops' \in Nat /\ ops <= ops'
<1>1. ops \in Nat /\ ops' \in Nat
  BY AuxiliaryInv, CheckoutAssumption DEF TypeInv, AuxiliaryTypeOK
<1>2. ops' = ops \/ ops' = ops + 1
  BY QuietSteps, WritingSteps, CommitIs, OperatorChangesIs DEF Quiet, Push, auxiliary, TypeInv
<1> QED
  BY <1>1, <1>2

LEMMA AfterComes ==
  ASSUME TypeInv, Next
  PROVE  after' \in {after, None, Fingerprint}
<1>1. CASE FailingAction
  <2>1. FailingStep
    BY <1>1, FailingActionFails DEF TypeInv
  <2> QED
    BY <2>1 DEF FailingStep, Ends, Stopped, GoesOn, RollsOver
<1>2. CASE MovingAction
  <2>1. CASE ResumeFails
    BY <2>1, ResumeFailsIs DEF TypeInv, AuxiliaryTypeOK, Ends, Stopped, GoesOn, RollsOver
  <2>2. CASE CIFails
    BY <2>2, CIFailsEnds DEF TypeInv, Ends, Stopped, GoesOn
  <2>3. CASE Push
    <3>1. \A s : Fail(s) => after' = None
      BY DEF Fail, FailLoop, End, SaveAndIterate, NextIteration
    <3> QED
      BY <2>3, <3>1 DEF Push, PushDelivered, PushRolledBack, PushUnknown,
                        DeliveryException, Go
  <2> QED
    BY <1>2, <2>1, <2>2, <2>3 DEF MovingAction, Attach, Resume, BeginIteration, Reconcile,
         Revalidate, RecoverInterrupted, Prepare, Execute, Observe, Done, Verify, NoProgress,
         CIPasses, Commit, RemotePasses, KeepConversation, Go, NextIteration, SaveAndGo,
         SaveAndIterate, End
<1>3. CASE OperatorChanges \/ OperatorMerges
  BY <1>3, OperatorSteps DEF OperatorMerges, process
<1>4. CASE Crash \/ \E k \in {"once", "loop"} : Start(k)
  BY <1>4 DEF Crash, End, Start
<1> QED
  BY <1>1, <1>2, <1>3, <1>4, StepsAre

LEMMA TreesCome ==
  ASSUME NEW t, Recovers(t)
  PROVE  /\ t.pending_ci_worktree_fingerprint \in
              {state.pending_ci_worktree_fingerprint, None, Fingerprint, Fingerprint', EmptyTree,
               after}
         /\ t.iteration_observed \in {state.iteration_observed, None, Fingerprint}
<1>1. FailedTree \in {after, state.pending_ci_worktree_fingerprint}
  BY DEF FailedTree
<1> QED
  BY <1>1 DEF Recovers, Same, Clean, Dirty, Refreshed, Opened, Watched, Closed,
              SameRecovery, SameObservation

\* The changes of the checkout and of the commits.
LEMMA CheckoutIsPast ==
  ASSUME TypeInv, FutureInv, Next
  PROVE  /\ \A c \in edits' \cup files' : Known(c, ops')
         /\ \A c \in own' : Known(c, ops')
         /\ \A c \in 1..MaxCommits : Past(content'[c], ops')
<1>1. /\ \A c : Known(c, ops) => Known(c, ops')
      /\ \A tree : Past(tree, ops) => Past(tree, ops')
  BY OpsGrow, StillPast
<1>2. \A c \in edits \cup files : Known(c, ops)
  <2>1. Fingerprint # None
    BY FingerprintType, NoneAssumption DEF TypeInv, CheckoutInv
  <2> QED
    BY <2>1 DEF FutureInv, Past, Fingerprint, Changes
<1>3. \A c \in own : Known(c, ops)
  BY DEF FutureInv
<1>4. \A c \in 1..MaxCommits : Past(content[c], ops)
  BY DEF FutureInv
<1>5. CASE Quiet
  BY <1>1, <1>2, <1>3, <1>4, <1>5 DEF Quiet
<1>6. CASE Execute \/ Resume \/ ResumeFails
  <2>1. \A c \in Agent : c \notin Operator
    BY CheckoutAssumption DEF Agent, Operator
  <2>2. own' = own /\ content' = content
    BY <1>6, WritingSteps
  <2>3. \A c \in edits' \cup files' : c \in edits \cup files \/ c \in Agent
    BY <1>6, WritingSteps
  <2> QED
    BY <1>1, <1>2, <1>3, <1>4, <2>1, <2>2, <2>3 DEF Known
<1>7. CASE OperatorChanges
  <2>1. Known(MaxChanges + ops + 1, ops')
    <3>1. ops' = ops + 1 /\ ops \in Nat
      BY <1>7, OperatorChangesIs, OpsGrow DEF TypeInv
    <3> QED
      BY <3>1, CheckoutAssumption DEF Known
  <2>2. /\ content' = content
        /\ \A c \in edits' \cup files' : c \in edits \cup files \/ c = MaxChanges + ops + 1
        /\ \A c \in own' : c \in own \cup edits' \cup files'
    BY <1>7, OperatorSteps
  <2> QED
    BY <1>1, <1>2, <1>3, <1>4, <2>1, <2>2
<1>8. CASE Commit
  <2>1. /\ content \in [1..MaxCommits -> Tree] /\ own' = own
        /\ edits' = {} /\ files' = files \cap Baseline
        /\ content' = [content EXCEPT ![NextSha] = Staged(Baseline)]
    BY <1>8, CommitIs DEF TypeInv, CheckoutInv, CheckoutTypeOK
  <2>2. Past(Staged(Baseline), ops)
    BY <1>2, StagedHolds DEF Past
  <2> HIDE DEF NextSha
  <2>3. \A c \in 1..MaxCommits : content'[c] \in {content[c], Staged(Baseline)}
    BY <2>1
  <2> QED
    BY <1>1, <1>2, <1>3, <1>4, <2>1, <2>2, <2>3
<1>9. CASE Push
  <2>1. CheckoutInv /\ ProcessInv /\ pc = "push" /\ InIteration
    BY <1>9 DEF TypeInv, Push, InIteration
  <2>2. Last \in 1..MaxCommits
    <3>1. local[branch] \in History /\ local[branch] # {}
      BY <2>1, OnRunBranch DEF ProcessInv, BranchInv
    <3> QED
      BY <3>1, HeadOfHistory DEF Last, History
  <2>3. /\ content' = content
        /\ edits' \subseteq edits \cup content[Last].edits
        /\ files' \subseteq files \cup content[Last].files
    BY <1>9, <2>1, PushStepReaches
  <2>4. own' = own
    BY <1>9 DEF Push, auxiliary
  <2>5. \A c \in Changes(content[Last]) : Known(c, ops)
    <3>1. content[Last] \in Tree
      BY <2>1, <2>2 DEF CheckoutInv, CheckoutTypeOK
    <3> QED
      BY <1>4, <2>2, <3>1, NoneAssumption DEF Past
  <2> HIDE DEF Last
  <2>6. \A c \in edits' \cup files' : c \in edits \cup files \/ c \in Changes(content[Last])
    BY <2>3 DEF Changes
  <2> QED
    BY <1>1, <1>2, <1>3, <1>4, <2>3, <2>4, <2>5, <2>6
<1> QED
  BY <1>5, <1>6, <1>7, <1>8, <1>9, QuietSteps

LEMMA FutureStep == TypeInv /\ FutureInv /\ [Next]_vars => FutureInv'
<1>1. ASSUME TypeInv, FutureInv, Next PROVE FutureInv'
  <2>1. /\ \A tree : Past(tree, ops) => Past(tree, ops')
        /\ \A s : PastRecord(s, ops) => PastRecord(s, ops')
    BY <1>1, OpsGrow, StillPast
  <2>2. Past(Fingerprint', ops')
    BY <1>1, CheckoutIsPast DEF Past, Fingerprint, Changes
  <2>3. Past(Fingerprint, ops') /\ Past(after, ops') /\ Past(None, ops') /\ Past(EmptyTree, ops')
    BY <1>1, <2>1, EmptyTreeType DEF FutureInv, Past
  <2>4. Past(after', ops')
    BY <1>1, <2>3, AfterComes
  <2>5. pc # "idle" => PastRecord(state, ops')
    <3>1. pc # "idle" => state # None
      BY <1>1, AtWork, NoStateAssumption DEF TypeInv
    <3> QED
      BY <1>1, <2>1, <3>1 DEF FutureInv
  <2>6. \A t : FromState(t) => PastRecord(t, ops')
    <3> SUFFICES ASSUME NEW t, FromState(t) PROVE PastRecord(t, ops')
      OBVIOUS
    <3>1. pc # "idle" /\ Recovers(t)
      BY DEF FromState
    <3> QED
      BY <2>2, <2>3, <2>5, <3>1, TreesCome DEF PastRecord
  <2>7. saved # None => PastRecord(saved, ops')
    BY <1>1, <2>1 DEF FutureInv
  <2>8. \A t : Started(t) => PastRecord(t, ops')
    <3> SUFFICES ASSUME NEW t, Started(t) PROVE PastRecord(t, ops')
      OBVIOUS
    <3> QED
      BY <2>3, <2>7 DEF Started, PastRecord, Same, Clean, SameRecovery, SameObservation
  <2>9. \A t : FromSaved(t) => PastRecord(t, ops')
    BY <2>7, NoStateAssumption
       DEF FromSaved, PastRecord, Kept, SameRecovery, SameObservation
  <2>10. state' # None => PastRecord(state', ops')
    BY <1>1, <2>6, <2>8, RecordsCome DEF StateComes
  <2>11. saved' # None => PastRecord(saved', ops')
    BY <1>1, <2>6, <2>7, <2>9, <2>10, RecordsCome DEF SavedComes
  <2> QED
    BY <1>1, <2>2, <2>4, <2>10, <2>11, CheckoutIsPast DEF FutureInv
<1>2. ASSUME FutureInv, UNCHANGED vars PROVE FutureInv'
  <2>1. UNCHANGED <<edits, files, content, own, ops, after, saved, state>>
    BY <1>2 DEF vars, checkout, auxiliary, process
  <2>2. Fingerprint' = Fingerprint
    BY <2>1 DEF Fingerprint
  <2> QED
    BY <1>2, <2>1, <2>2 DEF FutureInv
<1> QED
  BY <1>1, <1>2

LEMMA FutureInit == Init => FutureInv
<1> SUFFICES ASSUME Init PROVE FutureInv
  OBVIOUS
<1>1. Fingerprint = EmptyTree /\ \A c \in 1..MaxCommits : content[c] = EmptyTree
  BY DEF Init, CheckoutInit, Fingerprint, EmptyTree
<1>2. Past(EmptyTree, ops)
  BY EmptyTreeType DEF Past
<1> QED
  BY <1>1, <1>2 DEF Init, FutureInv, Past

------------------------------------------------------------------------------
(* Where the snapshot and the reference of an iteration come from. *)
HasSnapshot == InIteration \/ (pc = "resume" /\ rollover \in {"iteration", "handler"})

LEMMA SnapshotStays ==
  ASSUME TypeInv, Next, ~ Prepare
  PROVE  /\ HasSnapshot' => HasSnapshot /\ before' = before
         /\ InIteration' => InIteration /\ kind' = kind
<1>1. CASE FailingAction
  <2>1. FailingStep /\ ProcessInv
    BY <1>1, FailingActionFails DEF TypeInv
  <2>2. CASE pc' # "resume"
    BY <2>1, <2>2 DEF FailingStep, Ends, Stopped, GoesOn, RollsOver, HasSnapshot, InIteration
  <2>3. CASE pc' = "resume"
    <3>1. /\ UNCHANGED <<kind, before>>
          /\ \/ pc = "attach" /\ rollover' = "attach"
             \/ pc = "delivered" /\ rollover' = "scheduled"
             \/ pc \in {"ask", "observe"} /\ kind = "loop"
      BY <2>1, <2>3 DEF FailingStep, Ends, Stopped, GoesOn, RollsOver
    <3>2. pc = "delivered" => kind # "once"
      BY <2>1 DEF ProcessInv, ControlInv
    <3> QED
      BY <2>3, <3>1, <3>2 DEF HasSnapshot, InIteration
  <2> QED
    BY <2>2, <2>3
<1>2. CASE ResumeFails
  <2>1. /\ pc = "resume"
        /\ \/ rollover = "attach" /\ Stopped(saved)
           \/ /\ kind = "loop"
              /\ \E s : \/ Ends(s)
                        \/ /\ rollover \in {"iteration", "handler"}
                           /\ RollsOver(s, "handler", before.tree)
    BY <1>2, ResumeFailsIs DEF TypeInv, AuxiliaryTypeOK
  <2> QED
    BY <2>1 DEF Ends, Stopped, GoesOn, RollsOver, HasSnapshot, InIteration
<1>3. CASE CIFails \/ Push
  <2>1. InIteration /\ HasSnapshot
    BY <1>3 DEF CIFails, Push, InIteration, HasSnapshot
  <2>2. \A s : Fail(s) => pc' \in {"idle", "iterate"}
    BY DEF Fail, FailLoop, End, SaveAndIterate, NextIteration
  <2>3. pc' \in {"idle", "iterate"} \/ UNCHANGED <<kind, before>>
    BY <1>3, <2>2 DEF CIFails, Push, PushDelivered, PushRolledBack, PushUnknown,
                      DeliveryException, Go
  <2> QED
    BY <2>1, <2>3 DEF HasSnapshot, InIteration
<1>4. CASE Attach \/ Resume
  <2>1. /\ kind' = kind /\ pc' \in {"attach", "ask", "iterate"}
        /\ pc' # "iterate" => before' = before /\ pc \in {"attach", "resume"}
        /\ pc' = "ask" => kind # "loop"
    BY <1>4 DEF Attach, Resume, Go, SaveAndGo, SaveAndIterate, NextIteration
  <2>2. kind \in {"once", "loop"}
    BY <1>4, AtWork DEF TypeInv, Attach, Resume
  <2> QED
    BY <2>1, <2>2 DEF HasSnapshot, InIteration
<1>5. CASE \/ BeginIteration \/ Reconcile \/ Revalidate \/ RecoverInterrupted \/ Execute
           \/ Observe \/ Done \/ (Verify /\ pc' = "ci") \/ CIPasses \/ Commit
           \/ RemotePasses \/ KeepConversation
  <2>1. \/ pc' \in {"idle", "iterate", "delivered", "reconcile", "revalidate", "interrupted",
                    "prepare"}
        \/ InIteration /\ UNCHANGED <<kind, before>>
    BY <1>5 DEF BeginIteration, Reconcile, Revalidate, RecoverInterrupted, Execute, Observe,
         Done, Verify, NoProgress, CIPasses, Commit, RemotePasses, KeepConversation, Go,
         SaveAndGo, SaveAndIterate, NextIteration, End, AfterReconcile, InIteration
  <2> QED
    BY <2>1 DEF HasSnapshot, InIteration
<1>6. CASE OperatorChanges \/ OperatorMerges
  <2>1. UNCHANGED <<pc, kind, before, rollover>>
    BY <1>6, OperatorSteps DEF OperatorMerges, process
  <2> QED
    BY <2>1 DEF HasSnapshot, InIteration
<1>7. CASE Crash
  BY <1>7 DEF Crash, End, HasSnapshot, InIteration
<1>8. CASE \E k \in {"once", "loop"} : Start(k)
  BY <1>8 DEF Start, HasSnapshot, InIteration
<1> QED
  BY <1>1, <1>2, <1>3, <1>4, <1>5, <1>6, <1>7, <1>8, StepsAre DEF MovingAction

LEMMA ReferenceComes ==
  ASSUME TypeInv, Next, pc' = "resume"
  PROVE  \/ pc = "resume" /\ UNCHANGED <<reference, rollover>>
         \/ /\ pc \in {"attach", "delivered"} /\ reference' = Fingerprint
            /\ UNCHANGED <<edits, files>>
            /\ pc = "attach" => rollover' = "attach"
         \/ HasSnapshot /\ reference' = before.tree /\ pc \in {"ask", "observe", "resume"}
<1>1. CASE FailingAction
  <2>1. FailingStep /\ UNCHANGED <<edits, files>>
    BY <1>1, FailingActionFails DEF TypeInv, checkout, FetchOnly
  <2> QED
    BY <2>1 DEF FailingStep, Ends, Stopped, GoesOn, RollsOver, HasSnapshot, InIteration
<1>2. CASE MovingAction
  <2>1. ResumeFails
    BY <1>2, MovingPlaces DEF MovingAction, AfterReconcile
  <2>2. /\ pc = "resume"
        /\ \/ rollover = "attach" /\ Stopped(saved)
           \/ /\ kind = "loop"
              /\ \E s : \/ Ends(s)
                        \/ /\ rollover \in {"iteration", "handler"}
                           /\ RollsOver(s, "handler", before.tree)
    BY <2>1, ResumeFailsIs DEF TypeInv, AuxiliaryTypeOK
  <2> QED
    BY <2>2 DEF Ends, Stopped, GoesOn, RollsOver, HasSnapshot
<1>3. CASE OperatorChanges \/ OperatorMerges
  BY <1>3, OperatorSteps DEF OperatorMerges, process
<1>4. CASE Crash \/ \E k \in {"once", "loop"} : Start(k)
  BY <1>4 DEF Crash, End, Start
<1> QED
  BY <1>1, <1>2, <1>3, <1>4, StepsAre

------------------------------------------------------------------------------
(* The operator's files stay the operator's. *)
OwnRecord(s, o) ==
  /\ s.pending_ci_fix /\ s.pending_ci_worktree_fingerprint # None
       => o \cap s.pending_ci_worktree_fingerprint.files \subseteq s.pending_ci_baseline_untracked
  /\ s.iteration_baseline # None /\ s.iteration_observed # None
       => o \cap s.iteration_observed.files \subseteq s.iteration_baseline.files

OwnFilesInv ==
  /\ own \subseteq files /\ own \cap edits = {}
  /\ \A c \in 1..MaxCommits : own \cap Changes(content[c]) = {}

OwnRecordsInv ==
  /\ saved # None => OwnRecord(saved, own)
  /\ state # None => OwnRecord(state, own)

OwnPlacesInv ==
  /\ HasSnapshot => own \subseteq before.tree.files
  /\ pc = "resume" => own \subseteq reference.files
  /\ InIteration => state.iteration_baseline = IF kind = "once" THEN before.tree ELSE None
  /\ InIteration /\ state.pending_ci_fix => own \subseteq state.pending_ci_baseline_untracked

OwnInv == OwnFilesInv /\ OwnRecordsInv /\ OwnPlacesInv

LEMMA OwnGrows ==
  ASSUME TypeInv, Next
  PROVE  \/ own' = own
         \/ /\ OperatorChanges /\ pc = "idle" /\ pc' = "idle"
            /\ UNCHANGED <<saved, state, content, edits>>
            /\ files' = files \cup {MaxChanges + ops + 1}
            /\ own' = own \cup (files' \ files)
            /\ own' \subseteq own \cup {MaxChanges + ops + 1}
            /\ MaxChanges + ops + 1 \in Operator
<1>1. CASE OperatorChanges
  <2>1. CASE own' = own
    BY <2>1
  <2>2. CASE own' # own
    <3>1. /\ UNCHANGED <<content, saved, state, pc>>
          /\ pc = "idle" /\ own' = own \cup (files' \ files)
          /\ MaxChanges + ops + 1 \in Operator
          /\ \/ edits' = edits \cup {MaxChanges + ops + 1} /\ files' = files
             \/ files' = files \cup {MaxChanges + ops + 1} /\ edits' = edits
      BY <1>1, <2>2, OperatorSteps
    <3>2. files' # files
      BY <2>2, <3>1
    <3> QED
      BY <1>1, <3>1, <3>2
  <2> QED
    BY <2>1, <2>2
<1>2. CASE ~ OperatorChanges
  BY <1>2, QuietSteps, WritingSteps, CommitIs DEF Quiet, Push, auxiliary
<1> QED
  BY <1>1, <1>2

LEMMA NewIsUnknown ==
  ASSUME TypeInv, FutureInv, MaxChanges + ops + 1 \in Operator
  PROVE  /\ MaxChanges + ops + 1 \notin edits \cup files
         /\ MaxChanges + ops + 1 \notin own
         /\ \A c \in 1..MaxCommits : MaxChanges + ops + 1 \notin Changes(content[c])
         /\ saved # None =>
              /\ saved.pending_ci_worktree_fingerprint # None =>
                   MaxChanges + ops + 1 \notin Changes(saved.pending_ci_worktree_fingerprint)
              /\ saved.iteration_observed # None =>
                   MaxChanges + ops + 1 \notin Changes(saved.iteration_observed)
<1> DEFINE new == MaxChanges + ops + 1
<1>1. ~ Known(new, ops)
  <2>1. ops \in Nat /\ MaxChanges \in Nat
    BY CheckoutAssumption DEF TypeInv, AuxiliaryTypeOK
  <2> QED
    BY <2>1 DEF Known
<1>2. Fingerprint # None /\ content \in [1..MaxCommits -> Tree]
  BY FingerprintType, NoneAssumption DEF TypeInv, CheckoutInv, CheckoutTypeOK
<1>3. \A c \in 1..MaxCommits : content[c] # None
  BY <1>2, NoneAssumption
<1> HIDE DEF new
<1>4. new \notin Changes(Fingerprint)
  BY <1>1, <1>2 DEF FutureInv, Past
<1>5. new \notin edits \cup files
  BY <1>4 DEF Changes, Fingerprint
<1>6. new \notin own /\ \A c \in 1..MaxCommits : new \notin Changes(content[c])
  BY <1>1, <1>3 DEF FutureInv, Past
<1>7. saved # None =>
        /\ saved.pending_ci_worktree_fingerprint # None =>
             new \notin Changes(saved.pending_ci_worktree_fingerprint)
        /\ saved.iteration_observed # None => new \notin Changes(saved.iteration_observed)
  BY <1>1 DEF FutureInv, PastRecord, Past
<1> QED
  BY <1>5, <1>6, <1>7 DEF new

\* An iteration has a record and a snapshot of its own.
LEMMA OwnIsLeftOut ==
  ASSUME TypeInv, OwnInv, pc = "commit"
  PROVE  own \subseteq Baseline
<1>1. InIteration /\ HasSnapshot
  BY DEF InIteration, HasSnapshot
<1> QED
  BY <1>1 DEF OwnInv, OwnPlacesInv, Baseline

LEMMA OwnFilesStep ==
  ASSUME TypeInv, FutureInv, OwnInv, Next
  PROVE  OwnFilesInv'
<1>1. own \subseteq files /\ own \cap edits = {}
      /\ \A c \in 1..MaxCommits : own \cap Changes(content[c]) = {}
  BY DEF OwnInv, OwnFilesInv
<1> SUFFICES /\ own' \subseteq files' /\ own' \cap edits' = {}
             /\ \A c \in 1..MaxCommits : own' \cap Changes(content'[c]) = {}
  BY DEF OwnFilesInv, Changes
<1>2. CASE Quiet
  BY <1>1, <1>2 DEF Quiet
<1>3. CASE Execute \/ Resume \/ ResumeFails
  <2>1. own \subseteq Operator /\ Agent \cap Operator = {}
    BY CheckoutAssumption DEF TypeInv, AuxiliaryTypeOK, Agent, Operator
  <2>2. /\ own' = own /\ content' = content /\ files \subseteq files'
        /\ edits' \subseteq edits \cup Agent
    BY <1>3, WritingSteps
  <2> QED
    BY <1>1, <2>1, <2>2
<1>4. CASE OperatorChanges
  <2>1. CASE own' = own
    <3>1. content' = content /\ files \subseteq files'
      BY <1>4, OperatorSteps
    <3>2. edits' \subseteq edits \cup {MaxChanges + ops + 1}
          /\ MaxChanges + ops + 1 \in Operator
      BY <1>4, OperatorSteps, OperatorChangesIs DEF TypeInv
    <3> QED
      BY <1>1, <2>1, <3>1, <3>2, NewIsUnknown
  <2>2. CASE own' # own
    <3>1. /\ content' = content /\ edits' = edits
          /\ files' = files \cup {MaxChanges + ops + 1}
          /\ own' = own \cup (files' \ files)
          /\ MaxChanges + ops + 1 \in Operator
      BY <2>2, OwnGrows
    <3> QED
      BY <1>1, <3>1, NewIsUnknown
  <2> QED
    BY <2>1, <2>2
<1>5. CASE Commit
  <2>1. /\ content \in [1..MaxCommits -> Tree] /\ own' = own /\ pc = "commit"
        /\ edits' = {} /\ files' = files \cap Baseline
        /\ content' = [content EXCEPT ![NextSha] = Staged(Baseline)]
    BY <1>5, CommitIs DEF TypeInv, CheckoutInv, CheckoutTypeOK
  <2>2. own \subseteq Baseline
    BY <2>1, OwnIsLeftOut
  <2>3. own \cap Changes(Staged(Baseline)) = {}
    BY <1>1, <2>2, StagedHolds
  <2> HIDE DEF NextSha
  <2>4. \A c \in 1..MaxCommits : content'[c] \in {content[c], Staged(Baseline)}
    BY <2>1
  <2> QED
    BY <1>1, <2>1, <2>2, <2>3, <2>4
<1>6. CASE Push
  <2>1. CheckoutInv /\ ProcessInv /\ pc = "push" /\ InIteration
    BY <1>6 DEF TypeInv, Push, InIteration
  <2>2. Last \in 1..MaxCommits
    <3>1. local[branch] \in History /\ local[branch] # {}
      BY <2>1, OnRunBranch DEF ProcessInv, BranchInv
    <3> QED
      BY <3>1, HeadOfHistory DEF Last, History
  <2>3. /\ content' = content /\ files \subseteq files'
        /\ edits' \subseteq edits \cup content[Last].edits
    BY <1>6, <2>1, PushStepReaches
  <2>4. own' = own
    BY <1>6 DEF Push, auxiliary
  <2> HIDE DEF Last
  <2>5. own \cap content[Last].edits = {}
    BY <1>1, <2>2 DEF Changes
  <2> QED
    BY <1>1, <2>3, <2>4, <2>5
<1> QED
  BY <1>2, <1>3, <1>4, <1>5, <1>6, QuietSteps

\* What a record that was derived says of the operator's files.
LEMMA OwnRecovers ==
  ASSUME TypeInv, OwnInv, NEW t, FromState(t)
  PROVE  OwnRecord(t, own)
<1>1. pc # "idle" /\ Recovers(t)
  BY DEF FromState
<1>2. state \in AgentState /\ kind \in {"once", "loop"} /\ state # None
  BY <1>1, AtWork, NoStateAssumption DEF TypeInv
<1>3. OwnRecord(state, own)
  BY <1>2 DEF OwnInv, OwnRecordsInv
<1>4. HasSnapshot => own \subseteq before.tree.files
  BY DEF OwnInv, OwnPlacesInv
<1>5. CASE Same(state, t) \/ Clean(state, t)
  BY <1>3, <1>5 DEF OwnRecord, Same, Clean, SameRecovery, SameObservation
<1>6. ASSUME SameObservation(state, t), own \subseteq t.pending_ci_baseline_untracked
      PROVE  OwnRecord(t, own)
  BY <1>3, <1>6 DEF OwnRecord, SameObservation
<1>7. CASE \E tree : HasSnapshot /\ Dirty(state, t, before.tree, tree)
  BY <1>4, <1>6, <1>7 DEF Dirty
<1>8. CASE pc = "resume" /\ Dirty(state, t, reference, Fingerprint')
  BY <1>6, <1>8 DEF Dirty, OwnInv, OwnPlacesInv
<1>9. CASE Refreshed(state, t)
  <2>1. own \subseteq files
    BY DEF OwnInv, OwnFilesInv
  <2> QED
    BY <1>6, <1>9, <2>1 DEF Refreshed
<1>10. CASE /\ Observed(state) /\ state.iteration_observed = Fingerprint
            /\ Dirty(state, t, state.iteration_baseline, Fingerprint)
  BY <1>3, <1>10 DEF OwnRecord, Observed, Dirty, SameObservation
<1>11. CASE Opened(state, t)
  BY <1>3, <1>11 DEF OwnRecord, Opened, SameRecovery
<1>12. CASE Observe /\ Watched(state, t)
  <2>1. InIteration /\ HasSnapshot
    BY <1>12 DEF Observe, InIteration, HasSnapshot
  <2>2. /\ t.iteration_observed = Fingerprint
        /\ t.iteration_baseline # None => own \subseteq t.iteration_baseline.files
    BY <1>2, <1>4, <1>12, <2>1 DEF Watched, OwnInv, OwnPlacesInv
  <2> QED
    BY <1>3, <1>12, <2>2 DEF OwnRecord, Watched, SameRecovery
<1>13. CASE Closed(state, t)
  BY <1>3, <1>13 DEF OwnRecord, Closed
<1>14. /\ InIteration => HasSnapshot
       /\ pc = "resume" /\ rollover = "iteration" => HasSnapshot
       /\ pc = "commit" => HasSnapshot
       /\ CIFails => HasSnapshot
  BY DEF InIteration, HasSnapshot, CIFails
<1> QED
  BY <1>1, <1>5, <1>7, <1>8, <1>9, <1>10, <1>11, <1>12, <1>13, <1>14 DEF Recovers

LEMMA OwnRecordsStep ==
  ASSUME TypeInv, FutureInv, OwnInv, Next
  PROVE  OwnRecordsInv'
<1>1. saved # None => OwnRecord(saved, own)
  BY DEF OwnInv, OwnRecordsInv
<1>2. CASE own' = own
  <2>1. \A t : FromState(t) => OwnRecord(t, own)
    BY OwnRecovers
  <2>2. \A t : Started(t) => OwnRecord(t, own)
    <3> SUFFICES ASSUME NEW t, Started(t) PROVE OwnRecord(t, own)
      OBVIOUS
    <3> QED
      BY <1>1 DEF Started, OwnRecord, Same, Clean, SameRecovery, SameObservation
  <2>3. \A t : FromSaved(t) => OwnRecord(t, own)
    <3> SUFFICES ASSUME NEW t, FromSaved(t) PROVE OwnRecord(t, own)
      OBVIOUS
    <3>1. OwnRecord(saved, own) /\ Kept(saved, t)
      BY <1>1, NoStateAssumption DEF FromSaved
    <3> QED
      BY <3>1 DEF OwnRecord, Kept, SameRecovery, SameObservation
  <2>4. state' # None => OwnRecord(state', own)
    BY <2>1, <2>2, RecordsCome DEF StateComes
  <2>5. saved' # None => OwnRecord(saved', own)
    BY <1>1, <2>1, <2>3, <2>4, RecordsCome DEF SavedComes
  <2> QED
    BY <1>2, <2>4, <2>5 DEF OwnRecordsInv, OwnRecord
<1>3. CASE own' # own
  <2> DEFINE new == MaxChanges + ops + 1
  <2>1. /\ pc = "idle" /\ saved' = saved /\ state' = state
        /\ \A x \in own' : x \in own \/ x = new
        /\ new \in Operator
    BY <1>3, OwnGrows
  <2>2. state = None
    BY <2>1 DEF TypeInv, ProcessInv, ControlInv
  <2>3. saved # None =>
          /\ saved.pending_ci_worktree_fingerprint # None =>
               new \notin saved.pending_ci_worktree_fingerprint.files
          /\ saved.iteration_observed # None => new \notin saved.iteration_observed.files
    BY <2>1, NewIsUnknown DEF Changes
  <2> HIDE DEF new
  <2>4. saved # None => OwnRecord(saved, own')
    BY <1>1, <2>1, <2>3 DEF OwnRecord
  <2> QED
    BY <2>1, <2>2, <2>4 DEF OwnRecordsInv, OwnRecord
<1> QED
  BY <1>2, <1>3

\* The record with which an iteration begins.
LEMMA OwnBegins ==
  ASSUME TypeInv, OwnInv, Prepare
  PROVE  /\ own \subseteq before'.tree.files
         /\ state'.iteration_baseline = IF kind = "once" THEN before'.tree ELSE None
         /\ state'.pending_ci_fix => own \subseteq state'.pending_ci_baseline_untracked
<1>1. CheckoutInv /\ ProcessInv /\ pc = "prepare" /\ Accepted
  BY DEF TypeInv, Prepare
<1>2. state \in AgentState /\ state # None /\ Fingerprint \in Tree
  BY <1>1, AtWork, NoStateAssumption, FingerprintType DEF CheckoutInv
<1>3. before'.tree = Fingerprint
  <2>1. before' = Snapshot' /\ edits' = edits /\ files' = files
    BY DEF Prepare, Synchronize
  <2> QED
    BY <2>1 DEF Snapshot, Fingerprint
<1>4. own \subseteq Fingerprint.files
  BY DEF OwnInv, OwnFilesInv, Fingerprint
<1> DEFINE baseline == IF kind = "once" THEN Fingerprint ELSE None
<1>5. state' = StartIteration(state, baseline)
  BY DEF Prepare
<1>6. CheckoutTypeOK' /\ baseline \in Tree \cup {None}
  BY <1>1, <1>2, PrepareInv DEF CheckoutInv
<1>7. SameRecovery(state, state') /\ state'.iteration_baseline = baseline
  BY <1>2, <1>5, <1>6, StartIterationType
<1>8. state.pending_ci_fix => own \subseteq state.pending_ci_baseline_untracked
  <2> SUFFICES ASSUME state.pending_ci_fix
               PROVE  own \subseteq state.pending_ci_baseline_untracked
    OBVIOUS
  <2>1. /\ state.pending_ci_worktree_fingerprint = Fingerprint
        /\ state.pending_ci_worktree_fingerprint # None
    BY <1>1 DEF Accepted, RecoveryMismatch
  <2>2. OwnRecord(state, own)
    BY <1>2 DEF OwnInv, OwnRecordsInv
  <2> QED
    BY <1>4, <2>1, <2>2 DEF OwnRecord
<1> QED
  BY <1>3, <1>4, <1>7, <1>8 DEF SameRecovery

LEMMA OwnPlacesStep ==
  ASSUME TypeInv, FutureInv, OwnInv, Next
  PROVE  OwnPlacesInv'
<1>1. CASE own' # own
  BY <1>1, OwnGrows DEF OwnPlacesInv, HasSnapshot, InIteration
<1>2. CASE own' = own /\ Prepare
  <2>1. kind' = kind /\ pc' \in {"ask", "attach"}
    BY <1>2 DEF Prepare
  <2> QED
    BY <1>2, <2>1, OwnBegins DEF OwnPlacesInv
<1>3. CASE own' = own /\ ~ Prepare
  <2>1. /\ HasSnapshot => own \subseteq before.tree.files
        /\ pc = "resume" => own \subseteq reference.files
        /\ InIteration => state.iteration_baseline = IF kind = "once" THEN before.tree ELSE None
        /\ InIteration /\ state.pending_ci_fix => own \subseteq state.pending_ci_baseline_untracked
    BY DEF OwnInv, OwnPlacesInv
  <2>2. /\ HasSnapshot' => HasSnapshot /\ before' = before
        /\ InIteration' => InIteration /\ kind' = kind /\ HasSnapshot /\ before' = before
    BY <1>3, SnapshotStays DEF HasSnapshot
  <2>3. pc' = "resume" => own \subseteq reference'.files
    <3>1. own \subseteq Fingerprint.files
      BY DEF OwnInv, OwnFilesInv, Fingerprint
    <3> QED
      BY <2>1, <3>1, ReferenceComes
  <2>4. InIteration' => Recovers(state')
    <3> SUFFICES ASSUME InIteration' PROVE Recovers(state')
      OBVIOUS
    <3>1. InIteration /\ pc # "idle"
      BY <2>2, InIterationFacts DEF TypeInv
    <3>2. state' # None
      <4>1. ProcessInv'
        BY StateInv
      <4>2. pc' # "idle"
        BY DEF InIteration
      <4>3. state' \in AgentState
        BY <4>1, <4>2 DEF ProcessInv, ControlInv
      <4> QED
        BY <4>3, NoStateAssumption
    <3> QED
      BY <3>1, <3>2, RecordsCome DEF StateComes, FromState, Started
  <2>5. InIteration' => state'.iteration_baseline = state.iteration_baseline
    BY <1>3, <2>4 DEF Recovers, Same, Clean, Dirty, Refreshed, Watched, Closed, SameObservation
  <2>6. InIteration' /\ state'.pending_ci_fix => own \subseteq state'.pending_ci_baseline_untracked
    <3> SUFFICES ASSUME InIteration', state'.pending_ci_fix
                 PROVE  own \subseteq state'.pending_ci_baseline_untracked
      OBVIOUS
    <3>1. InIteration /\ HasSnapshot /\ pc \notin {"interrupted", "reconcile"}
      BY <2>2 DEF InIteration
    <3>2. Recovers(state')
      BY <2>4
    <3> QED
      BY <1>3, <2>1, <3>1, <3>2 DEF Recovers, Same, Clean, Dirty, Watched, Closed, SameRecovery
  <2> QED
    BY <1>3, <2>1, <2>2, <2>3, <2>5, <2>6 DEF OwnPlacesInv
<1> QED
  BY <1>1, <1>2, <1>3

LEMMA OwnStep == TypeInv /\ FutureInv /\ OwnInv /\ [Next]_vars => OwnInv'
<1>1. ASSUME TypeInv, FutureInv, OwnInv, Next PROVE OwnInv'
  BY <1>1, OwnFilesStep, OwnRecordsStep, OwnPlacesStep DEF OwnInv
<1>2. ASSUME OwnInv, UNCHANGED vars PROVE OwnInv'
  <2>1. /\ UNCHANGED <<edits, files, content, own, saved, state, before, reference>>
        /\ UNCHANGED <<pc, kind, rollover>>
    BY <1>2 DEF vars, checkout, auxiliary, process
  <2>2. OwnFilesInv'
    BY <1>2, <2>1 DEF OwnInv, OwnFilesInv
  <2>3. OwnRecordsInv'
    BY <1>2, <2>1 DEF OwnInv, OwnRecordsInv, OwnRecord
  <2>4. OwnPlacesInv'
    BY <1>2, <2>1 DEF OwnInv, OwnPlacesInv, HasSnapshot, InIteration
  <2> QED
    BY <2>2, <2>3, <2>4 DEF OwnInv
<1> QED
  BY <1>1, <1>2

LEMMA OwnInit == Init => OwnInv
<1> SUFFICES ASSUME Init PROVE OwnInv
  OBVIOUS
<1>1. own = {} /\ edits = {} /\ saved = None /\ state = None /\ pc = "idle"
  BY DEF Init, CheckoutInit
<1> QED
  BY <1>1 DEF OwnInv, OwnFilesInv, OwnRecordsInv, OwnPlacesInv, HasSnapshot, InIteration

(* A file the operator left in the checkout while no controller ran is never committed,
   whatever failures, restarts and recoveries follow: every record of a recovery keeps the
   files the iteration began with, and a commit leaves those out (recovery.py 37, 49, 84, 162;
   git_gate.py 496). *)
THEOREM DeliveryKeepsOperatorFiles == Spec => []OperatorFilesStay
<1>1. Spec => []FutureInv
  BY FutureInit, FutureStep, TypeInvariant, PTL DEF Spec
<1>2. Spec => []OwnInv
  BY <1>1, OwnInit, OwnStep, TypeInvariant, PTL DEF Spec
<1>3. TypeInv /\ OwnInv => OperatorFilesStay
  <2> SUFFICES ASSUME TypeInv, OwnInv PROVE OperatorFilesStay
    OBVIOUS
  <2>1. Everywhere = Committed(Reachable)
    BY EverywhereIs DEF TypeInv, CheckoutInv
  <2>2. \A c \in Reachable : c \in 1..MaxCommits
    BY DEF Reachable
  <2>3. \A c \in 1..MaxCommits : own \cap Changes(content[c]) = {}
    BY DEF OwnInv, OwnFilesInv
  <2>4. \A x \in own : x \notin Committed(Reachable)
    BY <2>2, <2>3, InCommitted
  <2> QED
    BY <2>1, <2>4 DEF OperatorFilesStay
<1> QED
  BY <1>2, <1>3, TypeInvariant, PTL

------------------------------------------------------------------------------
(* What run_once records when local CI fails. *)
FailureRecord(s, tree) == s.pending_ci_fix => s.pending_ci_worktree_fingerprint = tree

FailureInv ==
  /\ pc \in {"commit", "push"} => failed # "once"
  /\ failed = "once" => /\ Fingerprint # EmptyTree
                        /\ saved # None => FailureRecord(saved, Fingerprint)
                        /\ state # None => FailureRecord(state, Fingerprint)

LEMMA FailureComes ==
  ASSUME TypeInv, FailureInv, Next, failed' = "once", ~ CIFails
  PROVE  failed = "once" /\ UNCHANGED <<edits, files>>
<1>1. CASE Quiet
  <2>1. CASE FailingAction
    BY <1>1, <2>1, FailingActionFails DEF TypeInv, Quiet, auxiliary
  <2>2. CASE OperatorMerges \/ \E k \in {"once", "loop"} : Start(k)
    BY <1>1, <2>2 DEF Quiet, OperatorMerges, Start, auxiliary
  <2>3. CASE Crash \/ Prepare
    BY <1>1, <2>3, NoStateAssumption DEF Quiet, Crash, Prepare
  <2>4. CASE \/ Attach \/ BeginIteration \/ Reconcile \/ Revalidate \/ RecoverInterrupted
             \/ Observe \/ Done \/ (Verify /\ pc' = "ci") \/ CIPasses
             \/ RemotePasses \/ KeepConversation
    BY <1>1, <2>4, NoStateAssumption DEF Quiet, Attach, BeginIteration, Reconcile, Revalidate,
         RecoverInterrupted, Observe, Done, Verify, CIPasses, RemotePasses,
         KeepConversation, auxiliary
  <2>5. CASE Commit \/ OperatorChanges
    BY <2>5, CommitIs, OperatorSteps, NoStateAssumption
  <2>6. CASE Push
    BY <1>1, <2>6 DEF Push, auxiliary, Quiet
  <2>7. CASE Execute \/ Resume \/ ResumeFails
    BY <1>1, <2>7, WritingSteps, NoStateAssumption DEF Quiet
  <2> QED
    BY <2>1, <2>2, <2>3, <2>4, <2>5, <2>6, <2>7, StepsAre DEF MovingAction
<1>2. CASE Execute \/ Resume \/ ResumeFails
  BY <1>2, WritingSteps, NoStateAssumption
<1>3. CASE OperatorChanges \/ Commit
  BY <1>3, OperatorSteps, CommitIs, NoStateAssumption
<1>4. CASE Push
  <2>1. failed' = failed /\ pc = "push"
    BY <1>4 DEF Push, auxiliary
  <2> QED
    BY <2>1 DEF FailureInv
<1> QED
  BY <1>1, <1>2, <1>3, <1>4, QuietSteps

\* The failure itself.
LEMMA FailureIsRecorded ==
  ASSUME TypeInv, CIFails, failed' = "once"
  PROVE  FailureInv'
<1>1. CheckoutInv /\ ProcessInv /\ pc = "ci" /\ UNCHANGED <<edits, files>>
  BY DEF TypeInv, CIFails, checkout
<1>2. kind = "once" /\ Fingerprint = after /\ after # EmptyTree
  BY NoStateAssumption DEF CIFails
<1>3. End(MarkFailure(CIRecord))
  BY <1>2 DEF CIFails, Fail, CIRecord, FailedTree
<1>4. CIRecord \in AgentState /\ CIRecord.consecutive_failures < MaxFailures
      /\ CIRecord.pending_ci_worktree_fingerprint = Fingerprint
  BY <1>1, <1>2, CIRecordType DEF Active, FailedTree
<1>5. MarkFailure(CIRecord).pending_ci_worktree_fingerprint = Fingerprint
  BY <1>4, MarkFailureType DEF Kept, SameRecovery
<1>6. Fingerprint' = Fingerprint
  BY <1>1 DEF Fingerprint
<1>7. saved'.pending_ci_worktree_fingerprint = Fingerprint' /\ state' = None /\ pc' = "idle"
  BY <1>3, <1>5, <1>6 DEF End
<1> QED
  BY <1>2, <1>6, <1>7 DEF FailureInv, FailureRecord

\* Until somebody changes the checkout, what is derived from the record agrees with it.
LEMMA FailureRecovers ==
  ASSUME FailureInv, failed = "once", ~ CIFails, UNCHANGED <<edits, files>>,
         state # None, NEW t, FromState(t)
  PROVE  FailureRecord(t, Fingerprint)
<1>1. FailureRecord(state, Fingerprint) /\ pc # "commit" /\ Recovers(t)
  BY DEF FailureInv, FromState
<1>2. Fingerprint' = Fingerprint
  BY DEF Fingerprint
<1> QED
  BY <1>1, <1>2 DEF Recovers, FailureRecord, Same, Clean, Dirty, Refreshed, Opened, Watched,
                    Closed, SameRecovery

LEMMA FailureStays ==
  ASSUME TypeInv, FailureInv, Next, failed' = "once", ~ CIFails
  PROVE  /\ Fingerprint' # EmptyTree
         /\ saved' # None => FailureRecord(saved', Fingerprint')
         /\ state' # None => FailureRecord(state', Fingerprint')
<1>1. failed = "once" /\ UNCHANGED <<edits, files>> /\ Fingerprint' = Fingerprint
  BY FailureComes DEF Fingerprint
<1>2. saved # None => FailureRecord(saved, Fingerprint)
  BY <1>1 DEF FailureInv
<1>3. \A t : FromState(t) => FailureRecord(t, Fingerprint)
  <2>1. pc # "idle" => state # None
    BY AtWork, NoStateAssumption DEF TypeInv
  <2> QED
    BY <1>1, <2>1, FailureRecovers DEF FromState
<1>4. \A t : Started(t) => FailureRecord(t, Fingerprint)
  BY <1>2 DEF Started, FailureRecord, Same, Clean, SameRecovery
<1>5. \A t : FromSaved(t) => FailureRecord(t, Fingerprint)
  BY <1>2, NoStateAssumption DEF FromSaved, FailureRecord, Kept, SameRecovery
<1>6. state' # None => FailureRecord(state', Fingerprint)
  BY <1>3, <1>4, RecordsCome DEF StateComes
<1>7. saved' # None => FailureRecord(saved', Fingerprint)
  BY <1>2, <1>3, <1>5, <1>6, RecordsCome DEF SavedComes
<1>8. Fingerprint # EmptyTree
  BY <1>1 DEF FailureInv
<1> QED
  BY <1>1, <1>6, <1>7, <1>8

LEMMA DeliveryPlaces ==
  ASSUME TypeInv, Next, pc' \in {"commit", "push"}
  PROVE  pc' = pc \/ failed' = None
<1>1. CASE FailingAction
  BY <1>1, FailingActionFails, FailingPlaces DEF TypeInv
<1>2. CASE MovingAction
  <2>1. CIPasses \/ Commit
    BY <1>2, MovingPlaces DEF MovingAction, AfterReconcile
  <2> QED
    BY <2>1 DEF CIPasses, Commit
<1>3. CASE OperatorChanges \/ OperatorMerges
  BY <1>3, OperatorSteps DEF OperatorMerges, process
<1>4. CASE Crash \/ \E k \in {"once", "loop"} : Start(k)
  BY <1>4 DEF Crash, End, Start
<1> QED
  BY <1>1, <1>2, <1>3, <1>4, StepsAre

LEMMA FailureStep == TypeInv /\ FailureInv /\ [Next]_vars => FailureInv'
<1>1. ASSUME TypeInv, FailureInv, Next PROVE FailureInv'
  <2>1. CASE failed' = "once" /\ CIFails
    BY <1>1, <2>1, FailureIsRecorded
  <2>2. CASE failed' = "once" /\ ~ CIFails
    <3>1. failed = "once"
      BY <1>1, <2>2, FailureComes
    <3>2. pc' \in {"commit", "push"} => pc' = pc
      BY <1>1, <2>2, DeliveryPlaces, NoStateAssumption
    <3>3. pc' \notin {"commit", "push"}
      BY <1>1, <3>1, <3>2 DEF FailureInv
    <3> QED
      BY <1>1, <2>2, <3>3, FailureStays DEF FailureInv
  <2> QED
    BY <2>1, <2>2 DEF FailureInv
<1>2. ASSUME FailureInv, UNCHANGED vars PROVE FailureInv'
  <2>1. UNCHANGED <<edits, files, pc, failed, saved, state>>
    BY <1>2 DEF vars, checkout, process, auxiliary
  <2>2. Fingerprint' = Fingerprint
    BY <2>1 DEF Fingerprint
  <2> QED
    BY <1>2, <2>1, <2>2 DEF FailureInv, FailureRecord
<1> QED
  BY <1>1, <1>2

(* After local CI failed in run_once and nobody touched the checkout since, no later run finds
   that it was "changed outside LabOS": the verified tree is what was recorded, and every record
   made of it since holds the tree of the checkout (git_gate.py 420-427, loop.py 554-560). *)
THEOREM DeliveryOnceFailureIsResumable == Spec => []OnceFailureIsResumable
<1>1. Init => FailureInv
  BY NoStateAssumption DEF Init, FailureInv
<1>2. Spec => []FailureInv
  BY <1>1, TypeInvariant, FailureStep, PTL DEF Spec
<1>3. TypeInv /\ FailureInv => OnceFailureIsResumable
  <2> SUFFICES ASSUME TypeInv, FailureInv, pc = "prepare", failed = "once", state.pending_ci_fix
               PROVE  ~ RecoveryMismatch(state.pending_ci_worktree_fingerprint)
    BY DEF OnceFailureIsResumable
  <2>1. state # None
    BY AtWork, NoStateAssumption DEF TypeInv
  <2>2. Fingerprint # None
    BY FingerprintType, NoneAssumption DEF TypeInv, CheckoutInv
  <2> QED
    BY <2>1, <2>2 DEF FailureInv, FailureRecord, RecoveryMismatch
<1> QED
  BY <1>2, <1>3, TypeInvariant, PTL

------------------------------------------------------------------------------
(* What is known of an iteration that died. *)
\* The places at which no round of the iteration was executed yet.
Unstarted ==
  pc \in {"idle", "iterate", "reconcile", "revalidate", "interrupted", "prepare"}

\* The iteration of run_once and what it saved.
OnceInv ==
  /\ Unstarted => rounds = 0
  /\ kind = "once" /\ InIteration =>
       /\ saved.iteration_baseline = before.tree
       /\ rounds > 0 => saved.execution_requested /\ state.execution_requested

\* The iteration that died is known as it was observed, and a recovery that was recorded of it
\* covers what it wrote.
InterruptedRecord(s) ==
  /\ Observed(s)
  /\ s.iteration_observed = Fingerprint
  /\ interrupted \subseteq edits \cup (files \ s.iteration_baseline.files)
  /\ interrupted \cap Changes(s.iteration_baseline) = {}
  /\ s.pending_ci_fix =>
       /\ s.pending_ci_worktree_fingerprint = Fingerprint
       /\ interrupted \subseteq edits \cup (files \ s.pending_ci_baseline_untracked)

InterruptedInv ==
  interrupted # {} =>
    /\ ~ InIteration /\ pc # "delivered"
    /\ pc = "resume" => rollover = "attach" /\ reference = Fingerprint
    /\ saved # None /\ InterruptedRecord(saved)
    /\ state # None => InterruptedRecord(state)
    /\ pc = "prepare" /\ kind = "once" => state.pending_ci_fix

LEMMA RoundsStay ==
  ASSUME TypeInv, OnceInv, Next
  PROVE  /\ Unstarted' => rounds' = 0
         /\ InIteration' /\ ~ Prepare => rounds' = rounds \/ Observe
<1>1. CASE FailingAction
  <2>1. FailingStep /\ TypeInv
    BY <1>1, FailingActionFails DEF TypeInv
  <2> QED
    BY <2>1 DEF FailingStep, Ends, Stopped, GoesOn, RollsOver, Unstarted, InIteration
<1>2. CASE CIFails \/ Push
  <2>1. \A s : Fail(s) => pc' \in {"idle", "iterate"} /\ rounds' = 0
    BY DEF Fail, FailLoop, End, SaveAndIterate, NextIteration
  <2>2. \/ pc' \in {"idle", "iterate"} /\ rounds' = 0
        \/ pc' = "remote" /\ rounds' = rounds
    BY <1>2, <2>1 DEF CIFails, Push, PushDelivered, PushRolledBack, PushUnknown,
                      DeliveryException, Go
  <2> QED
    BY <2>2 DEF Unstarted, InIteration
<1>3. CASE ResumeFails
  <2>1. \/ pc' \in {"idle", "iterate"} /\ rounds' = 0
        \/ pc' = "resume" /\ rounds' = rounds
    BY <1>3, ResumeFailsIs
       DEF TypeInv, AuxiliaryTypeOK, Ends, Stopped, GoesOn, RollsOver
  <2> QED
    BY <2>1 DEF Unstarted, InIteration
<1>4. CASE \/ Attach \/ Resume \/ BeginIteration \/ Reconcile \/ Revalidate
           \/ RecoverInterrupted \/ Prepare \/ Execute \/ Done \/ (Verify /\ pc' = "ci")
           \/ CIPasses \/ Commit \/ RemotePasses \/ KeepConversation
  <2>1. \/ pc' \in {"idle", "iterate"} /\ rounds' = 0
        \/ /\ rounds' = rounds
           /\ \/ Unstarted
              \/ ~ Unstarted'
    BY <1>4 DEF Attach, Resume, BeginIteration, Reconcile, Revalidate, RecoverInterrupted,
         Prepare, Execute, Done, Verify, NoProgress, CIPasses, Commit, RemotePasses,
         KeepConversation, Go, SaveAndGo, SaveAndIterate, NextIteration, End, Unstarted
  <2> QED
    BY <2>1 DEF OnceInv, InIteration
<1>5. CASE Observe
  BY <1>5 DEF Observe, Unstarted
<1>6. CASE OperatorChanges \/ OperatorMerges
  <2>1. UNCHANGED <<pc, rounds>>
    BY <1>6, OperatorSteps DEF OperatorMerges, process
  <2> QED
    BY <2>1 DEF OnceInv, Unstarted
<1>7. CASE Crash
  BY <1>7 DEF Crash, End, InIteration
<1>8. CASE \E k \in {"once", "loop"} : Start(k)
  BY <1>8 DEF Start, OnceInv, Unstarted
<1> QED
  BY <1>1, <1>2, <1>3, <1>4, <1>5, <1>6, <1>7, <1>8, StepsAre DEF MovingAction

LEMMA OnceStep == TypeInv /\ OwnInv /\ OnceInv /\ [Next]_vars => OnceInv'
<1>1. ASSUME TypeInv, OwnInv, OnceInv, Next PROVE OnceInv'
  <2> SUFFICES ASSUME kind' = "once", InIteration'
               PROVE  /\ saved'.iteration_baseline = before'.tree
                      /\ rounds' > 0 => saved'.execution_requested /\ state'.execution_requested
    BY <1>1, RoundsStay DEF OnceInv
  <2>1. CASE Prepare
    <3>1. kind = "once" /\ saved' = state' /\ rounds' = rounds /\ pc = "prepare" /\ pc' = "attach"
      BY <2>1 DEF Prepare
    <3>2. rounds = 0
      BY <1>1, <3>1 DEF OnceInv, Unstarted
    <3> QED
      BY <1>1, <2>1, <3>1, <3>2, OwnBegins
  <2>2. CASE Observe
    <3>1. pc = "observe" /\ kind = "once" /\ before' = before /\ saved' = state' /\ pc' = "ask"
      BY <2>2 DEF Observe
    <3>2. InIteration
      BY <3>1 DEF InIteration
    <3>3. state.iteration_baseline = before.tree /\ state \in AgentState
      BY <1>1, <3>1, <3>2, AtWork DEF OwnInv, OwnPlacesInv, TypeInv
    <3>4. state'.execution_requested /\ state'.iteration_baseline = state.iteration_baseline
      BY <2>2, <3>3 DEF Observe, AgentState
    <3> QED
      BY <3>1, <3>3, <3>4
  <2>3. CASE ~ Prepare /\ ~ Observe
    <3>1. InIteration /\ kind = "once" /\ before' = before /\ rounds' = rounds
      BY <1>1, <2>3, SnapshotStays, RoundsStay DEF HasSnapshot
    <3>2. /\ saved.iteration_baseline = before.tree
          /\ state.iteration_baseline = before.tree
          /\ rounds > 0 => saved.execution_requested /\ state.execution_requested
      BY <1>1, <3>1 DEF OnceInv, OwnInv, OwnPlacesInv
    <3>3. \A t : FromState(t) =>
            /\ t.iteration_baseline = before.tree
            /\ rounds > 0 => t.execution_requested
      <4>1. ~ RemotePasses
        BY DEF RemotePasses, End, SaveAndGo, Go, InIteration
      <4> QED
        BY <2>3, <3>2, <4>1 DEF FromState, Recovers, Same, Clean, Dirty, Refreshed, SameObservation
    <3>4. \A t : FromSaved(t) =>
            /\ t.iteration_baseline = before.tree
            /\ rounds > 0 => t.execution_requested
      BY <3>2 DEF FromSaved, Kept, SameObservation
    <3>5. ~ Started(state') /\ state' # None
      <4>1. pc # "idle" /\ pc' # "idle"
        BY <3>1 DEF InIteration
      <4>2. state' \in AgentState
        BY <1>1, <4>1, StateInv DEF ProcessInv, ControlInv
      <4> QED
        BY <4>1, <4>2, NoStateAssumption DEF Started
    <3>6. FromState(state')
      BY <1>1, <3>5, RecordsCome DEF StateComes
    <3>7. /\ saved'.iteration_baseline = before.tree
          /\ rounds > 0 => saved'.execution_requested
      BY <1>1, <3>2, <3>3, <3>4, <3>6, RecordsCome DEF SavedComes
    <3> QED
      BY <3>1, <3>3, <3>6, <3>7
  <2> QED
    BY <2>1, <2>2, <2>3
<1>2. ASSUME OnceInv, UNCHANGED vars PROVE OnceInv'
  <2>1. UNCHANGED <<pc, kind, rounds, before, saved, state>>
    BY <1>2 DEF vars, process
  <2> QED
    BY <1>2, <2>1 DEF OnceInv, Unstarted, InIteration
<1> QED
  BY <1>1, <1>2

\* An iteration of run_once finds what it saved.
LEMMA SavedInIteration ==
  ASSUME ProcessInv, InIteration
  PROVE  saved # None
<1>1. branch = state.branch_name /\ state.branch_name \in 1..MaxRuns
  BY InIterationFacts, AtWork
<1> QED
  BY <1>1, CheckoutAssumption DEF ProcessInv, BranchInv

LEMMA SavedStays ==
  ASSUME TypeInv, Next, ~ InIteration, saved # None
  PROVE  saved' # None
<1>1. saved \in AgentState /\ ProcessInv /\ ProcessInv'
  BY StateInv DEF TypeInv, ProcessInv, ProcessTypeOK
<1>2. \A s, t : Recorded(s, t) => t # None
  BY NoStateAssumption DEF Recorded
<1>3. CASE FailingAction
  <2>1. FailingStep
    BY <1>3, FailingActionFails DEF TypeInv
  <2> QED
    BY <1>2, <2>1 DEF FailingStep, Ends, Stopped, GoesOn, RollsOver
<1>4. CASE ResumeFails
  <2>1. \/ Stopped(saved)
        \/ \E s : Ends(s) \/ RollsOver(s, "handler", before.tree)
    BY <1>4, ResumeFailsIs DEF TypeInv, AuxiliaryTypeOK
  <2> QED
    BY <1>2, <2>1 DEF Ends, Stopped, GoesOn, RollsOver
<1>5. CASE \/ Attach \/ Resume \/ BeginIteration \/ Reconcile \/ Revalidate
           \/ RecoverInterrupted \/ Prepare \/ KeepConversation
  <2>1. pc' # "idle" /\ (saved' = saved \/ saved' = state')
    BY <1>5, MovingPlaces
       DEF Attach, Resume, BeginIteration, Reconcile, Revalidate, RecoverInterrupted,
           Prepare, KeepConversation, SaveAndGo, SaveAndIterate, Go, NextIteration,
           AfterReconcile
  <2>2. state' \in AgentState
    BY <1>1, <2>1 DEF ProcessInv, ControlInv
  <2> QED
    BY <2>1, <2>2, NoStateAssumption
<1>6. CASE Crash \/ OperatorChanges \/ OperatorMerges
  BY <1>6, OperatorSteps DEF Crash, End, OperatorMerges
<1>7. CASE \E k \in {"once", "loop"} : Start(k)
  <2>1. PICK k \in {"once", "loop"} : Start(k)
    BY <1>7
  <2>2. saved' = saved \/ (saved' = state' /\ pc' \in {"reconcile", "attach"})
    BY <2>1, StartComes
  <2>3. pc' \in {"reconcile", "attach"} => state' \in AgentState
    BY <1>1 DEF ProcessInv, ControlInv
  <2> QED
    BY <2>2, <2>3, NoStateAssumption
<1>8. CASE \/ Execute \/ Observe \/ Done \/ (Verify /\ pc' = "ci") \/ CIFails \/ CIPasses
           \/ Commit \/ Push \/ RemotePasses
  BY <1>8 DEF Execute, Observe, Done, Verify, CIFails, CIPasses, Commit, Push,
              RemotePasses, InIteration
<1> QED
  BY <1>3, <1>4, <1>5, <1>6, <1>7, <1>8, StepsAre DEF MovingAction

LEMMA InterruptionComes ==
  ASSUME TypeInv, InterruptedInv, Next, interrupted' # {}, ~ Crash
  PROVE  /\ interrupted' = interrupted /\ UNCHANGED <<edits, files>>
         /\ ~ Prepare /\ ~ InIteration /\ pc # "delivered"
<1>1. ~ Prepare
  BY DEF Prepare
<1>2. interrupted' = interrupted
  <2>1. CASE FailingAction
    BY <2>1, FailingActionFails DEF TypeInv, auxiliary
  <2>2. CASE \/ OperatorMerges \/ Attach \/ BeginIteration \/ Reconcile
             \/ RecoverInterrupted \/ Observe \/ Done \/ (Verify /\ pc' = "ci")
             \/ RemotePasses \/ KeepConversation \/ Push
    BY <2>2 DEF OperatorMerges, Attach, BeginIteration, Reconcile, RecoverInterrupted,
                Observe, Done, Verify, RemotePasses, KeepConversation, Push, auxiliary
  <2>3. CASE Revalidate \/ CIPasses
    BY <2>3 DEF Revalidate, CIPasses, LocalCIPassed, auxiliary
  <2>4. CASE CIFails \/ \E k \in {"once", "loop"} : Start(k)
    BY <2>4 DEF CIFails, Start
  <2>5. CASE Commit \/ OperatorChanges \/ Execute \/ Resume \/ ResumeFails
    BY <2>5, CommitIs, OperatorSteps, WritingSteps
  <2> QED
    BY <1>1, <2>1, <2>2, <2>3, <2>4, <2>5, StepsAre DEF MovingAction
<1>3. ~ InIteration /\ pc # "delivered"
  BY <1>2 DEF InterruptedInv
<1>4. UNCHANGED <<edits, files>>
  <2>1. ~ Commit /\ ~ Push
    BY <1>3 DEF Commit, Push, InIteration
  <2> QED
    BY <2>1, OperatorSteps, WritingSteps, QuietSteps DEF Quiet
<1> QED
  BY <1>1, <1>2, <1>3, <1>4

\* What is derived from the record still knows the iteration that died.
LEMMA InterruptionRecovers ==
  ASSUME TypeInv, InterruptedInv, Next, interrupted # {}, ~ Prepare,
         UNCHANGED <<edits, files>>, NEW t, FromState(t)
  PROVE  InterruptedRecord(t)
<1>1. /\ ~ InIteration /\ pc # "delivered" /\ pc # "idle" /\ Recovers(t)
      /\ pc = "resume" => rollover = "attach" /\ reference = Fingerprint
  BY DEF InterruptedInv, FromState
<1>2. state # None
  BY <1>1, AtWork, NoStateAssumption DEF TypeInv
<1>3. InterruptedRecord(state)
  BY <1>2 DEF InterruptedInv
<1>4. Fingerprint' = Fingerprint
  BY DEF Fingerprint
<1>5. /\ ~ CIFails /\ ~ Observe /\ ~ RemotePasses
      /\ pc # "commit" /\ ~ (pc = "resume" /\ rollover = "iteration")
      /\ ~ (pc = "resume" /\ Fingerprint' # reference)
  BY <1>1, <1>4 DEF CIFails, Observe, RemotePasses, InIteration
<1>6. CASE Same(state, t) \/ Clean(state, t)
  BY <1>3, <1>6 DEF InterruptedRecord, Observed, Same, Clean, SameRecovery, SameObservation
<1>7. ~ Refreshed(state, t)
  BY <1>3 DEF InterruptedRecord, Refreshed
<1>8. CASE Dirty(state, t, state.iteration_baseline, Fingerprint)
  BY <1>3, <1>8 DEF InterruptedRecord, Observed, Dirty, SameObservation
<1>9. state.execution_requested
  BY <1>3 DEF InterruptedRecord, Observed
<1> QED
  BY <1>1, <1>5, <1>6, <1>7, <1>8, <1>9 DEF Recovers

\* The records after a step.
LEMMA InterruptionStays ==
  ASSUME TypeInv, InterruptedInv, Next, interrupted' # {}, ~ Crash
  PROVE  /\ saved' # None /\ InterruptedRecord(saved')
         /\ state' # None => InterruptedRecord(state')
<1>1. /\ interrupted # {} /\ UNCHANGED <<edits, files>> /\ ~ Prepare /\ ~ InIteration
  BY InterruptionComes
<1>2. saved # None /\ InterruptedRecord(saved)
  BY <1>1 DEF InterruptedInv
<1>3. \A t : FromState(t) => InterruptedRecord(t)
  BY <1>1, InterruptionRecovers
<1>4. \A t : FromSaved(t) => InterruptedRecord(t)
  BY <1>2 DEF FromSaved, Kept, InterruptedRecord, Observed, SameRecovery, SameObservation
<1>5. \A t : Started(t) => InterruptedRecord(t)
  BY <1>2 DEF Started, Same, Clean, InterruptedRecord, Observed, SameRecovery, SameObservation
<1>6. state' # None => InterruptedRecord(state')
  BY <1>3, <1>5, RecordsCome DEF StateComes
<1>7. saved' # None
  BY <1>1, <1>2, SavedStays
<1>8. InterruptedRecord(saved')
  BY <1>2, <1>3, <1>4, <1>6, <1>7, RecordsCome DEF SavedComes
<1> QED
  BY <1>6, <1>7, <1>8

\* run_once takes the iteration up before it prepares the checkout.
LEMMA InterruptionIsPending ==
  ASSUME TypeInv, InterruptedInv, Next, interrupted' # {}, ~ Crash,
         pc' = "prepare", kind' = "once"
  PROVE  state'.pending_ci_fix
<1>1. interrupted # {}
  BY InterruptionComes
<1>2. CASE FailingAction
  BY <1>2, FailingActionFails, FailingPlaces DEF TypeInv
<1>3. CASE MovingAction
  <2>1. CASE Reconcile \/ Revalidate
    <3>1. kind' = kind /\ pc' = "prepare" => kind # "once"
      BY <2>1, MovingPlaces DEF Reconcile, Revalidate, Go, AfterReconcile
    <3>2. kind' = kind
      BY <2>1 DEF Reconcile, Revalidate, Go
    <3> QED
      BY <3>1, <3>2
  <2>2. CASE RecoverInterrupted
    <3> DEFINE s == PushedDescendant(state)
    <3>1. pc = "interrupted" /\ state \in AgentState /\ state # None
      BY <2>2, AtWork, NoStateAssumption DEF TypeInv, RecoverInterrupted
    <3>2. InterruptedRecord(state)
      BY <1>1, <3>1 DEF InterruptedInv
    <3>3. SameObservation(state, s) /\ s \in AgentState
      BY <3>1, PushedDescendantType, ClearedType, KeptByItself DEF Kept
    <3>4. Observed(s) /\ s.iteration_baseline = state.iteration_baseline
          /\ s.iteration_baseline \in Tree
      BY <3>1, <3>2, <3>3 DEF InterruptedRecord, Observed, SameObservation, AgentState
    <3>5. Fingerprint # s.iteration_baseline
      <4>1. PICK x : x \in interrupted
        BY <1>1
      <4>2. x \in Changes(Fingerprint) /\ x \notin Changes(s.iteration_baseline)
        BY <3>2, <3>4, <4>1 DEF InterruptedRecord, Changes, Fingerprint
      <4> QED
        BY <4>2
    <3>6. \/ state' = s /\ s.pending_ci_fix
          \/ state' = RecordDirty(s, s.iteration_baseline, Fingerprint)
      BY <2>2, <3>4, <3>5 DEF RecoverInterrupted, SaveAndGo, Go
    <3>7. Fingerprint \in Tree
      BY FingerprintType DEF TypeInv, CheckoutInv
    <3> HIDE DEF s
    <3> QED
      BY <3>3, <3>4, <3>6, <3>7, RecordDirtyType
  <2> QED
    BY <1>3, <2>1, <2>2, MovingPlaces DEF MovingAction
<1>4. CASE OperatorChanges \/ OperatorMerges
  <2>1. UNCHANGED <<pc, kind, state>>
    BY <1>4, OperatorSteps DEF OperatorMerges, process
  <2> QED
    BY <1>1, <2>1 DEF InterruptedInv
<1>5. CASE \E k \in {"once", "loop"} : Start(k)
  BY <1>5 DEF Start
<1> QED
  BY <1>2, <1>3, <1>4, <1>5, StepsAre

LEMMA InterruptionPlaces ==
  ASSUME TypeInv, InterruptedInv, Next, interrupted' # {}, ~ Crash
  PROVE  /\ ~ InIteration' /\ pc' # "delivered"
         /\ pc' = "resume" => rollover' = "attach" /\ reference' = Fingerprint'
<1>1. /\ interrupted # {} /\ UNCHANGED <<edits, files>>
      /\ ~ Prepare /\ ~ InIteration /\ pc # "delivered"
      /\ pc = "resume" => rollover = "attach" /\ reference = Fingerprint
  BY InterruptionComes DEF InterruptedInv
<1>2. ~ InIteration'
  BY <1>1, SnapshotStays
<1>3. ~ HasSnapshot /\ pc \notin {"ask", "observe"}
  BY <1>1 DEF HasSnapshot, InIteration
<1>4. pc' = "resume" => rollover' = "attach" /\ reference' = Fingerprint'
  BY <1>1, <1>3, ReferenceComes DEF Fingerprint
<1>5. pc' # "delivered"
  <2>1. CASE FailingAction
    BY <2>1, FailingActionFails, FailingPlaces DEF TypeInv
  <2>2. CASE MovingAction
    <3>1. ~ RemotePasses
      BY <1>1 DEF RemotePasses, InIteration
    <3> QED
      BY <2>2, <3>1, MovingPlaces DEF MovingAction, AfterReconcile
  <2>3. CASE OperatorChanges \/ OperatorMerges
    BY <1>1, <2>3, OperatorSteps DEF OperatorMerges, process
  <2>4. CASE \E k \in {"once", "loop"} : Start(k)
    BY <2>4 DEF Start
  <2> QED
    BY <2>1, <2>2, <2>3, <2>4, StepsAre
<1> QED
  BY <1>2, <1>4, <1>5

\* The death of run_once after an observation.
LEMMA InterruptionIsKnown ==
  ASSUME TypeInv, OnceInv, InterruptedInv, Crash, interrupted' # {}
  PROVE  InterruptedInv'
<1>1. /\ saved' = saved /\ pc' = "idle" /\ kind' = None /\ state' = None
      /\ UNCHANGED <<edits, files>>
  BY DEF Crash, End, checkout
<1>2. Fingerprint' = Fingerprint
  BY <1>1 DEF Fingerprint
<1> SUFFICES saved # None /\ InterruptedRecord(saved)'
  BY <1>1 DEF InterruptedInv, InIteration, InterruptedRecord, Observed
<1>3. CASE interrupted' = interrupted
  <2>1. saved # None /\ InterruptedRecord(saved)
    BY <1>3 DEF InterruptedInv
  <2> QED
    BY <1>1, <1>2, <1>3, <2>1 DEF InterruptedRecord, Observed, Changes
<1>4. CASE interrupted' # interrupted
  <2>1. /\ kind = "once" /\ InIteration /\ rounds > 0
        /\ ~ saved.pending_ci_fix /\ saved.iteration_observed = Fingerprint
        /\ interrupted' = (Agent \cap Changes(Fingerprint)) \ Changes(before.tree)
    BY <1>4 DEF Crash, InIteration
  <2>2. saved # None /\ before.tree \in Tree /\ Fingerprint \in Tree
    BY <2>1, SavedInIteration, InIterationFacts, FingerprintType DEF TypeInv, CheckoutInv
  <2>3. saved.iteration_baseline = before.tree /\ saved.execution_requested
    BY <2>1 DEF OnceInv
  <2>4. Observed(saved)
    BY <2>1, <2>2, <2>3, NoneAssumption DEF Observed
  <2>5. /\ interrupted' \subseteq edits \cup (files \ saved.iteration_baseline.files)
        /\ interrupted' \cap Changes(saved.iteration_baseline) = {}
    BY <2>1, <2>3 DEF Changes, Fingerprint
  <2> QED
    BY <1>1, <1>2, <2>1, <2>2, <2>4, <2>5 DEF InterruptedRecord, Observed, Changes
<1> QED
  BY <1>3, <1>4

LEMMA InterruptedStep ==
  TypeInv /\ OnceInv /\ InterruptedInv /\ [Next]_vars => InterruptedInv'
<1>1. ASSUME TypeInv, OnceInv, InterruptedInv, Next PROVE InterruptedInv'
  <2>1. CASE interrupted' = {}
    BY <2>1 DEF InterruptedInv
  <2>2. CASE interrupted' # {} /\ Crash
    BY <1>1, <2>2, InterruptionIsKnown
  <2>3. CASE interrupted' # {} /\ ~ Crash
    <3>1. interrupted' = interrupted /\ UNCHANGED <<edits, files>> /\ Fingerprint' = Fingerprint
      BY <1>1, <2>3, InterruptionComes DEF Fingerprint
    <3>2. /\ saved' # None /\ InterruptedRecord(saved)'
          /\ state' # None => InterruptedRecord(state)'
      <4>1. /\ saved' # None /\ InterruptedRecord(saved')
            /\ state' # None => InterruptedRecord(state')
        BY <1>1, <2>3, InterruptionStays
      <4> QED
        BY <3>1, <4>1 DEF InterruptedRecord, Observed, Changes
    <3> QED
      BY <1>1, <2>3, <3>2, InterruptionPlaces, InterruptionIsPending DEF InterruptedInv
  <2> QED
    BY <2>1, <2>2, <2>3
<1>2. ASSUME InterruptedInv, UNCHANGED vars PROVE InterruptedInv'
  <2>1. /\ UNCHANGED <<edits, files, saved, state, interrupted, pc, kind, rollover, reference>>
    BY <1>2 DEF vars, checkout, process, auxiliary
  <2>2. Fingerprint' = Fingerprint
    BY <2>1 DEF Fingerprint
  <2> QED
    BY <1>2, <2>1, <2>2 DEF InterruptedInv, InIteration, InterruptedRecord, Observed, Changes
<1> QED
  BY <1>1, <1>2

(* What an iteration had written and observed when it died is taken up by the next run_once, if
   nothing was written since, and will be committed with it: the observation that was saved
   before the death is still that of the checkout, and the recovery recorded of it leaves out
   only the files that were there when the iteration began (README.md 94, recovery.py 58-80). *)
THEOREM DeliveryResumesInterruption == Spec => []InterruptionIsResumed
<1>1. Init => OwnInv /\ FutureInv /\ OnceInv /\ InterruptedInv
  BY OwnInit, FutureInit, NoStateAssumption DEF Init, OnceInv, InterruptedInv, InIteration
<1>2. Spec => [](OwnInv /\ FutureInv /\ OnceInv /\ InterruptedInv)
  BY <1>1, TypeInvariant, OwnStep, FutureStep, OnceStep, InterruptedStep, PTL DEF Spec
<1>3. TypeInv /\ InterruptedInv => InterruptionIsResumed
  <2> SUFFICES ASSUME TypeInv, InterruptedInv, pc = "prepare", kind = "once", interrupted # {}
               PROVE  /\ state.pending_ci_fix
                      /\ state.pending_ci_worktree_fingerprint = Fingerprint
                      /\ interrupted \subseteq edits \cup
                                               (files \ state.pending_ci_baseline_untracked)
    BY DEF InterruptionIsResumed
  <2>1. state # None
    BY AtWork, NoStateAssumption DEF TypeInv
  <2> QED
    BY <2>1 DEF InterruptedInv, InterruptedRecord
<1> QED
  BY <1>2, <1>3, TypeInvariant, PTL

------------------------------------------------------------------------------
(* Each change of the agent is in one place. *)
IsPushed(c) == \E b \in Branch : pushed[b] # None /\ c \in pushed[b]

\* Only what is on GitHub is on two branches.
UnsharedInv ==
  /\ \A c \in main : IsPushed(c)
  /\ \A a, b \in Branch : \A c \in local[a] \cap local[b] : a = b \/ IsPushed(c)

\* Until it is delivered, a change is in the checkout, as one kind of change, or in one
\* commit, or was taken back.
InOnePlace(x) ==
  /\ x \notin edits \cap files
  /\ x \in edits \cup files \cup undone => x \notin Committed(Reachable)
  /\ x \in undone => x \notin edits \cup files
  /\ \A c \in Reachable : x \notin content[c].edits \cap content[c].files
  /\ \A c, d \in Reachable : x \in Changes(content[c]) \cap Changes(content[d]) => c = d

OnePlaceInv == \A x \in Agent : IsDelivered(x) \/ InOnePlace(x)

\* Nothing holds a change that the agent has not written.
UnwrittenInv ==
  \A x \in Agent \ 1..written :
    x \notin edits \cup files \cup undone \cup validated /\ x \notin Committed(Reachable)

\* What a step makes of the branches.
LEMMA BranchesMove ==
  ASSUME TypeInv, Next
  PROVE  /\ main' = main \/ \E b \in Branch : pushed[b] # None /\ main' = pushed[b]
         /\ \A b \in Branch :
              \/ local'[b] \subseteq local[b]
              \/ local'[b] = main
              \/ pushed[b] # None /\ local'[b] = pushed[b]
              \/ Commit /\ b = branch /\ local'[b] = local[b] \cup {NextSha}
<1>1. CheckoutInv /\ ProcessInv /\ local \in [Branch -> History]
  BY DEF TypeInv, CheckoutInv, CheckoutTypeOK
<1>2. CASE UNCHANGED <<main, local>>
  BY <1>2
<1>3. CASE FailingAction
  BY <1>1, <1>2, <1>3, FailingActionFails DEF FetchOnly, checkout
<1>4. CASE Prepare
  <2>1. PICK b : /\ UNCHANGED main
                 /\ local' = [local EXCEPT ![b] =
                      IF branch # b THEN main
                      ELSE IF pushed[b] # None /\ local[b] \subseteq pushed[b]
                           THEN pushed[b] ELSE local[b]]
    BY <1>4 DEF Prepare, Synchronize
  <2> QED
    BY <1>1, <2>1
<1>5. CASE OperatorMerges
  BY <1>5 DEF OperatorMerges, Merge
<1>6. CASE Commit
  <2>1. /\ UNCHANGED main /\ local' = [local EXCEPT ![branch] = @ \cup {NextSha}]
    BY <1>6 DEF Commit, CommitAll
  <2> HIDE DEF NextSha
  <2> QED
    BY <1>1, <1>6, <2>1
<1>7. CASE Push
  <2>1. UNCHANGED main /\ (UNCHANGED local \/ ResetMixed)
    BY <1>7 DEF Push, PushDelivered, PushRolledBack, PushUnknown
  <2>2. CASE ResetMixed
    <3>1. local' = [local EXCEPT ![branch] = @ \ {Last}]
      BY <2>2 DEF ResetMixed, Last
    <3> HIDE DEF Last
    <3> QED
      BY <1>1, <2>1, <3>1
  <2> QED
    BY <1>2, <2>1, <2>2
<1>8. CASE Execute \/ Resume \/ ResumeFails \/ OperatorChanges
  BY <1>2, <1>8 DEF Execute, Resume, ResumeFails, AgentMayWrite, AgentWrites, OperatorChanges,
                    Write, Restore, checkout
<1>9. CASE Crash \/ \E k \in {"once", "loop"} : Start(k)
  BY <1>2, <1>9 DEF Crash, Start, checkout
<1>10. CASE \/ Attach \/ BeginIteration \/ Reconcile \/ Revalidate \/ RecoverInterrupted
            \/ Observe \/ Done \/ (Verify /\ pc' = "ci") \/ CIFails \/ CIPasses
            \/ RemotePasses \/ KeepConversation
  BY <1>2, <1>10 DEF Attach, BeginIteration, Reconcile, Revalidate, RecoverInterrupted,
     Observe, Done, Verify, CIFails, CIPasses, RemotePasses, KeepConversation, checkout
<1> QED
  BY <1>3, <1>4, <1>5, <1>6, <1>7, <1>8, <1>9, <1>10, StepsAre DEF MovingAction

LEMMA PushedStays ==
  ASSUME TypeInv, Next, NEW c, IsPushed(c)
  PROVE  IsPushed(c)'
<1>1. PICK b \in Branch : pushed[b] # None /\ c \in pushed[b]
  BY DEF IsPushed
<1>2. pushed'[b] # None /\ c \in pushed'[b]
  BY <1>1, PushedGrows
<1> QED
  BY <1>2 DEF IsPushed

LEMMA UnsharedStep == TypeInv /\ UnsharedInv /\ [Next]_vars => UnsharedInv'
<1>1. ASSUME TypeInv, UnsharedInv, Next PROVE UnsharedInv'
  <2>0. CheckoutTypeOK
    BY <1>1 DEF TypeInv, CheckoutInv
  <2>1. ASSUME NEW c \in main' PROVE IsPushed(c)'
    <3>1. IsPushed(c)
      BY <1>1, <2>1, BranchesMove DEF UnsharedInv, IsPushed
    <3> QED
      BY <1>1, <3>1, PushedStays
  \* A commit comes to a branch from main, from GitHub, or is made there.
  <2>2. ASSUME NEW b \in Branch, NEW c \in local'[b], c \notin local[b]
        PROVE  IsPushed(c) \/ (Commit /\ b = branch /\ c = NextSha)
    BY <1>1, <2>2, BranchesMove DEF UnsharedInv, IsPushed
  <2>3. ASSUME NEW a \in Branch, NEW b \in Branch, NEW c \in local'[a] \cap local'[b], a # b
        PROVE  IsPushed(c)'
    <3>1. CASE IsPushed(c)
      BY <1>1, <3>1, PushedStays
    <3>2. CASE ~ IsPushed(c)
      <4>1. CASE c \in local[a] /\ c \in local[b]
        BY <1>1, <2>3, <3>2, <4>1 DEF UnsharedInv
      <4>2. ASSUME NEW d \in {a, b}, c \notin local[d] PROVE FALSE
        <5>1. Commit /\ d = branch /\ c = NextSha
          BY <2>2, <2>3, <3>2, <4>2
        <5>2. PICK e \in {a, b} : e # d
          BY <2>3
        <5>3. c \in local[e]
          BY <2>2, <2>3, <3>2, <5>1, <5>2
        <5>4. c \in Reachable
          BY <2>0, <5>3, IsReachable
        <5> QED
          BY <1>1, <5>1, <5>4, CommitIs
      <4> QED
        BY <4>1, <4>2
    <3> QED
      BY <3>1, <3>2
  <2> QED
    BY <2>1, <2>3 DEF UnsharedInv, IsPushed
<1>2. ASSUME UnsharedInv, UNCHANGED vars PROVE UnsharedInv'
  BY <1>2 DEF UnsharedInv, IsPushed, vars, checkout
<1> QED
  BY <1>1, <1>2

\* Local CI validates what is in the checkout.
LEMMA ValidatedMoves ==
  ASSUME TypeInv, Next
  PROVE  \/ validated' = validated
         \/ /\ CIPasses \/ Revalidate
            /\ validated' = validated \cup edits \cup files
<1>1. CASE FailingAction
  BY <1>1, FailingActionFails DEF TypeInv, auxiliary
<1>2. CASE CIPasses \/ Revalidate
  BY <1>2 DEF CIPasses, Revalidate, LocalCIPassed, auxiliary
<1>3. CASE Execute \/ Resume \/ ResumeFails \/ OperatorChanges \/ Commit \/ Push
  BY <1>3, WritingSteps, OperatorSteps, CommitIs DEF Push, auxiliary
<1>4. CASE Crash \/ OperatorMerges \/ \E k \in {"once", "loop"} : Start(k)
  BY <1>4 DEF Crash, OperatorMerges, Start, auxiliary
<1>5. CASE \/ Attach \/ BeginIteration \/ Reconcile \/ RecoverInterrupted \/ Prepare
           \/ Observe \/ Done \/ (Verify /\ pc' = "ci") \/ CIFails
           \/ RemotePasses \/ KeepConversation
  BY <1>5 DEF Attach, BeginIteration, Reconcile, RecoverInterrupted, Prepare,
     Observe, Done, Verify, CIFails, RemotePasses, KeepConversation, auxiliary
<1> QED
  BY <1>1, <1>2, <1>3, <1>4, <1>5, StepsAre DEF MovingAction

LEMMA LastIsReachable ==
  ASSUME TypeInv, Push
  PROVE  Last \in local[branch] /\ Last \in Reachable /\ branch \in Branch
<1>1. InIteration /\ pc = "push" /\ ProcessInv /\ CheckoutInv
  BY DEF Push, InIteration, TypeInv
<1>2. local[branch] # {} /\ local[branch] \in History /\ branch \in Branch
  BY <1>1, OnRunBranch DEF ProcessInv, BranchInv
<1>3. Last \in local[branch]
  BY <1>2, HeadOfHistory DEF Last
<1> HIDE DEF Last
<1> QED
  BY <1>1, <1>2, <1>3, IsReachable DEF CheckoutInv

LEMMA UnwrittenStep == TypeInv /\ UnwrittenInv /\ [Next]_vars => UnwrittenInv'
<1>1. ASSUME TypeInv, UnwrittenInv, Next PROVE UnwrittenInv'
  <2> SUFFICES ASSUME NEW x \in Agent \ 1..written'
               PROVE  /\ x \notin edits' \cup files' \cup undone' \cup validated'
                      /\ x \notin Committed(Reachable)'
    BY DEF UnwrittenInv, Agent
  <2>0. /\ written \in Nat /\ (written' = written \/ written' = written + 1)
        /\ x \in Nat /\ x >= 1
    <3>1. written \in Nat /\ x \in 1..MaxChanges
      BY <1>1, CheckoutAssumption DEF TypeInv, AuxiliaryTypeOK, Agent
    <3>2. written' = written \/ written' = written + 1
      BY <1>1, QuietSteps, WritingSteps, OperatorSteps, CommitIs DEF Quiet, Push, auxiliary
    <3> QED
      BY <3>1, <3>2
  <2>1. /\ x \in Agent \ 1..written /\ x # written'
        /\ written' = written + 1 => x # written + 1
    BY <2>0
  <2>2. x \notin edits \cup files \cup undone \cup validated /\ x \notin Committed(Reachable)
    BY <1>1, <2>1 DEF UnwrittenInv
  <2>3. x \notin validated'
    BY <1>1, <2>2, ValidatedMoves
  <2>4. CASE Quiet
    BY <2>2, <2>3, <2>4, CommittedStays DEF Quiet
  <2>5. CASE Execute \/ Resume \/ ResumeFails
    <3>1. /\ content' = content /\ Reachable' = Reachable /\ undone' = undone
          /\ edits' \subseteq edits \cup {written'} /\ files' \subseteq files \cup {written'}
      BY <1>1, <2>5, WritingSteps
    <3>2. Committed(Reachable)' = Committed(Reachable)
      BY <3>1, CommittedStays
    <3> QED
      BY <2>1, <2>2, <2>3, <3>1, <3>2
  <2>6. CASE OperatorChanges
    <3>1. x \notin Operator
      BY CheckoutAssumption DEF Agent, Operator
    <3> QED
      BY <1>1, <2>2, <2>3, <2>6, <3>1, OperatorSteps, CommittedStays
  <2>7. CASE Commit
    <3>1. edits' = {} /\ files' = files \cap Baseline /\ undone' = undone
      BY <1>1, <2>7, CommitIs
    <3> QED
      BY <1>1, <2>2, <2>3, <2>7, <3>1, CommitHolds
  <2>8. CASE Push
    <3>1. /\ Reachable' \subseteq Reachable /\ undone' = undone
          /\ x \notin edits' \cup files'
      <4>1. undone' = undone
        BY <2>8 DEF Push, auxiliary
      <4>2. /\ Reachable' \subseteq Reachable
            /\ \/ UNCHANGED <<edits, files>>
               \/ /\ edits' = edits \cup content[Last].edits
                  /\ files' = files \cup content[Last].files
        BY <1>1, <2>8, PushStepReaches DEF TypeInv
      <4>3. x \notin Changes(content[Last])
        <5>1. Last \in Reachable
          BY <1>1, <2>8, LastIsReachable
        <5> QED
          BY <2>2, <5>1, InCommitted
      <4> HIDE DEF Last
      <4> QED
        BY <2>2, <4>1, <4>2, <4>3 DEF Changes
    <3>2. x \notin Committed(Reachable)'
      BY <1>1, <2>2, <2>8, PushHolds
    <3> QED
      BY <2>2, <2>3, <3>1, <3>2
  <2> QED
    BY <1>1, <2>4, <2>5, <2>6, <2>7, <2>8, QuietSteps
<1>2. ASSUME UnwrittenInv, UNCHANGED vars PROVE UnwrittenInv'
  <2>1. UNCHANGED <<edits, files, undone, validated, written, content, main, local, pushed>>
    BY <1>2 DEF vars, checkout, auxiliary
  <2>2. Committed(Reachable)' = Committed(Reachable)
    BY <2>1, ReachableStays, CommittedStays
  <2> QED
    BY <1>2, <2>1, <2>2 DEF UnwrittenInv, Agent
<1> QED
  BY <1>1, <1>2

\* A failed push gives back what its commit held.
LEMMA PushTakesBack ==
  ASSUME TypeInv, Push
  PROVE  \/ UNCHANGED <<edits, files>>
         \/ /\ edits' = edits \cup content[Last].edits
            /\ files' = files \cup content[Last].files
            /\ Last \notin local'[branch] /\ UNCHANGED main
            /\ \A b \in Branch : local'[b] \subseteq local[b]
<1>1. UNCHANGED <<edits, files>> \/ (ResetMixed /\ UNCHANGED main)
  BY DEF Push, PushDelivered, PushRolledBack, PushUnknown
<1>2. CASE ResetMixed /\ UNCHANGED main
  <2>1. /\ edits' = edits \cup content[Last].edits
        /\ files' = files \cup content[Last].files
        /\ local' = [local EXCEPT ![branch] = @ \ {Last}]
    BY <1>2 DEF ResetMixed, Last
  <2>2. local \in [Branch -> History] /\ branch \in Branch
    BY DEF TypeInv, CheckoutInv, CheckoutTypeOK
  <2> HIDE DEF Last
  <2> QED
    BY <1>2, <2>1, <2>2
<1> QED
  BY <1>1, <1>2

LEMMA DeliveredIs ==
  ASSUME NEW x
  PROVE  /\ IsDelivered(x) <=> \E c : IsPushed(c) /\ x \in Changes(content[c])
         /\ IsDelivered(x)' <=> \E c : IsPushed(c)' /\ x \in Changes(content'[c])
<1>1. IsDelivered(x) <=> \E c : IsPushed(c) /\ x \in Changes(content[c])
  BY InCommitted DEF IsDelivered, IsPushed
<1>2. IsDelivered(x)' <=>
        \E b \in Branch : pushed'[b] # None /\ \E c \in pushed'[b] : x \in Changes(content'[c])
  BY DEF IsDelivered, Committed, Changes
<1>3. IsDelivered(x)' <=> \E c : IsPushed(c)' /\ x \in Changes(content'[c])
  BY <1>2 DEF IsPushed
<1> QED
  BY <1>1, <1>3

LEMMA PushedIsReachable ==
  ASSUME CheckoutTypeOK, NEW c, IsPushed(c)
  PROVE  c \in Reachable
BY IsReachable DEF IsPushed

\* What a commit that some branch holds contains does not change.
LEMMA ContentStays ==
  ASSUME TypeInv, Next, NEW c \in Reachable
  PROVE  content'[c] = content[c]
BY QuietSteps, WritingSteps, OperatorSteps, CommitIs, PushStepReaches DEF Quiet, TypeInv

LEMMA DeliveredStays ==
  ASSUME TypeInv, Next, NEW x, IsDelivered(x)
  PROVE  IsDelivered(x)'
<1>1. PICK c : IsPushed(c) /\ x \in Changes(content[c])
  BY DeliveredIs
<1>2. IsPushed(c)'
  BY <1>1, PushedStays
<1>3. content'[c] = content[c]
  BY <1>1, PushedIsReachable, ContentStays DEF TypeInv, CheckoutInv
<1> QED
  BY <1>1, <1>2, <1>3, DeliveredIs

LEMMA InOnePlaceNext ==
  ASSUME NEW x
  PROVE  InOnePlace(x)' <=>
           /\ x \notin edits' \cap files'
           /\ x \in edits' \cup files' \cup undone' => x \notin Committed(Reachable)'
           /\ x \in undone' => x \notin edits' \cup files'
           /\ \A c \in Reachable' : x \notin content'[c].edits \cap content'[c].files
           /\ \A c, d \in Reachable' :
                x \in Changes(content'[c]) \cap Changes(content'[d]) => c = d
BY DEF InOnePlace, Changes

LEMMA OnePlaceCommit ==
  ASSUME TypeInv, Commit, NEW x, InOnePlace(x)
  PROVE  InOnePlace(x)'
<1>1. /\ Reachable' = Reachable \cup {NextSha}
      /\ content'[NextSha] = Staged(Baseline)
      /\ \A c \in Reachable : content'[c] = content[c]
      /\ edits' = {} /\ files' = files \cap Baseline /\ undone' = undone
  BY CommitIs
<1>2. /\ x \notin edits \cap files
      /\ x \in edits \cup files \cup undone => x \notin Committed(Reachable)
      /\ x \in undone => x \notin edits \cup files
      /\ \A c \in Reachable : x \notin content[c].edits \cap content[c].files
      /\ \A c, d \in Reachable : x \in Changes(content[c]) \cap Changes(content[d]) => c = d
  BY DEF InOnePlace
<1>3. x \in Committed(Reachable)' <=>
        x \in Committed(Reachable) \/ x \in edits \cup (files \ Baseline)
  BY CommitHolds
<1>4. /\ x \notin content'[NextSha].edits \cap content'[NextSha].files
      /\ x \in Changes(content'[NextSha]) <=> x \in edits \cup (files \ Baseline)
  <2>1. /\ content'[NextSha].edits = edits
        /\ content'[NextSha].files = files \ Baseline
    BY <1>1 DEF Staged
  <2> HIDE DEF NextSha, Baseline
  <2> QED
    BY <1>2, <2>1 DEF Changes
<1> HIDE DEF NextSha, Baseline
<1>5. \A c \in Reachable' : x \notin content'[c].edits \cap content'[c].files
  BY <1>1, <1>2, <1>4
<1>6. ASSUME NEW c \in Reachable', NEW d \in Reachable',
             x \in Changes(content'[c]) \cap Changes(content'[d])
      PROVE  c = d
  <2>1. \A e \in Reachable : x \in Changes(content'[e]) =>
          x \in Changes(content[e]) /\ x \in Committed(Reachable)
    BY <1>1, InCommitted
  <2> QED
    BY <1>1, <1>2, <1>4, <1>6, <2>1
<1> QED
  BY <1>1, <1>2, <1>3, <1>5, <1>6, InOnePlaceNext

\* What goes back to the checkout is in no commit any more, unless GitHub has it.
LEMMA OnePlacePush ==
  ASSUME TypeInv, UnsharedInv, Next, Push, NEW x, InOnePlace(x), ~ IsDelivered(x)'
  PROVE  InOnePlace(x)'
<1>0. /\ CheckoutTypeOK /\ CheckoutTypeOK'
  BY PushStepInv DEF TypeInv, CheckoutInv
<1>1. /\ content' = content /\ Reachable' \subseteq Reachable /\ undone' = undone
  BY PushStepReaches DEF TypeInv, Push, auxiliary
<1>2. /\ x \notin edits \cap files
      /\ x \in edits \cup files \cup undone => x \notin Committed(Reachable)
      /\ x \in undone => x \notin edits \cup files
      /\ \A c \in Reachable : x \notin content[c].edits \cap content[c].files
      /\ \A c, d \in Reachable : x \in Changes(content[c]) \cap Changes(content[d]) => c = d
  BY DEF InOnePlace
<1>3. x \in Committed(Reachable)' => x \in Committed(Reachable)
  BY PushHolds
<1>4. Last \in local[branch] /\ Last \in Reachable /\ branch \in Branch
  BY LastIsReachable
<1>5. UnsharedInv'
  BY UnsharedStep
<1>6. PICK last : last = Last
  OBVIOUS
<1> HIDE DEF Last
<1>7. /\ \A c \in Reachable' : x \notin content'[c].edits \cap content'[c].files
      /\ \A c, d \in Reachable' :
           x \in Changes(content'[c]) \cap Changes(content'[d]) => c = d
  BY <1>1, <1>2
<1>8. CASE x \notin Changes(content[Last]) \/ UNCHANGED <<edits, files>>
  <2>1. (x \in edits' <=> x \in edits) /\ (x \in files' <=> x \in files)
    BY <1>8, PushTakesBack DEF Changes
  <2> QED
    BY <1>1, <1>2, <1>3, <1>7, <2>1, InOnePlaceNext
<1>9. CASE x \in Changes(content[last]) /\ ~ UNCHANGED <<edits, files>>
  <2>1. /\ edits' = edits \cup content[last].edits
        /\ files' = files \cup content[last].files
        /\ last \notin local'[branch] /\ UNCHANGED main
        /\ \A b \in Branch : local'[b] \subseteq local[b]
    BY <1>6, <1>9, PushTakesBack
  <2>2. ~ IsPushed(last)'
    BY <1>1, <1>9, DeliveredIs
  <2>3. last \notin Reachable'
    <3>1. ~ IsPushed(last)
      BY <2>2, PushedStays
    <3>2. last \notin main'
      BY <1>5, <2>2 DEF UnsharedInv, IsPushed
    <3>3. \A b \in Branch : last \notin local'[b]
      BY <1>4, <1>6, <2>1, <3>1 DEF UnsharedInv
    <3>4. \A b \in Branch : ~ (pushed'[b] # None /\ last \in pushed'[b])
      BY <2>2 DEF IsPushed
    <3> QED
      BY <1>0, <3>2, <3>3, <3>4, IsReachableNext
  <2>4. x \in Committed(Reachable)
    BY <1>4, <1>6, <1>9, InCommitted
  <2>5. x \notin Committed(Reachable)'
    BY <1>1, <1>2, <1>4, <1>6, <1>9, <2>3, InCommittedNext
  <2> QED
    BY <1>1, <1>2, <1>4, <1>6, <1>7, <2>1, <2>4, <2>5, InOnePlaceNext
<1> QED
  BY <1>6, <1>8, <1>9

LEMMA OnePlaceStep ==
  TypeInv /\ UnsharedInv /\ UnwrittenInv /\ OnePlaceInv /\ [Next]_vars => OnePlaceInv'
<1>1. ASSUME TypeInv, UnsharedInv, UnwrittenInv, OnePlaceInv, Next PROVE OnePlaceInv'
  <2> SUFFICES ASSUME NEW x \in Agent, ~ IsDelivered(x)' PROVE InOnePlace(x)'
    BY DEF OnePlaceInv, Agent
  <2>1. InOnePlace(x)
    BY <1>1, DeliveredStays DEF OnePlaceInv
  <2>2. /\ x \notin edits \cap files
        /\ x \in edits \cup files \cup undone => x \notin Committed(Reachable)
        /\ x \in undone => x \notin edits \cup files
    BY <2>1 DEF InOnePlace
  <2>3. CASE content' = content /\ Reachable' = Reachable
             /\ x \notin edits' \cap files'
             /\ (x \in undone' => x \notin edits' \cup files')
             /\ (x \in edits' \cup files' \cup undone' => x \notin Committed(Reachable))
    BY <2>1, <2>3, InOnePlaceNext, CommittedStays DEF InOnePlace
  <2>4. CASE Quiet
    BY <2>2, <2>3, <2>4 DEF Quiet
  <2>5. CASE Execute \/ Resume \/ ResumeFails
    <3>1. /\ content' = content /\ Reachable' = Reachable /\ undone' = undone
          /\ \/ UNCHANGED <<edits, files>>
             \/ /\ written' = written + 1
                /\ \/ edits' = edits \cup {written'} /\ files' = files
                   \/ files' = files \cup {written'} /\ edits' = edits
      BY <1>1, <2>5, WritingSteps
    <3>2. CASE x = written'
      <4>1. written \in Nat
        BY <1>1 DEF TypeInv, AuxiliaryTypeOK
      <4>2. written' = written + 1 => x \in Agent \ 1..written
        BY <3>2, <4>1
      <4>3. written' = written + 1 =>
              x \notin edits \cup files \cup undone /\ x \notin Committed(Reachable)
        BY <1>1, <4>2 DEF UnwrittenInv
      <4> QED
        BY <2>2, <2>3, <3>1, <4>3
    <3>3. CASE x # written'
      BY <2>2, <2>3, <3>1, <3>3
    <3> QED
      BY <3>2, <3>3
  <2>6. CASE OperatorChanges
    <3>1. x \notin Operator
      BY CheckoutAssumption DEF Agent, Operator
    <3>2. /\ content' = content /\ Reachable' = Reachable
          /\ \/ /\ x \in edits' <=> x \in edits
                /\ x \in files' <=> x \in files
                /\ undone' = undone
             \/ edits' = {} /\ files' = files /\ undone' = undone \cup edits
      BY <1>1, <2>6, <3>1, OperatorSteps
    <3> QED
      BY <2>2, <2>3, <3>2
  <2> QED
    BY <1>1, <2>1, <2>4, <2>5, <2>6, OnePlaceCommit, OnePlacePush, QuietSteps
<1>2. ASSUME OnePlaceInv, UNCHANGED vars PROVE OnePlaceInv'
  <2>1. UNCHANGED <<edits, files, undone, content, main, local, pushed>>
    BY <1>2 DEF vars, checkout, auxiliary
  <2>2. Committed(Reachable)' = Committed(Reachable) /\ Reachable' = Reachable
    BY <2>1, ReachableStays, CommittedStays
  <2>3. \A x : /\ InOnePlace(x) => InOnePlace(x)'
               /\ IsDelivered(x) => IsDelivered(x)'
    BY <2>1, <2>2, InOnePlaceNext, DeliveredIs DEF InOnePlace, IsPushed
  <2> QED
    BY <1>2, <2>3 DEF OnePlaceInv, Agent
<1> QED
  BY <1>1, <1>2

------------------------------------------------------------------------------
(* Each step takes the changes their way. *)
LifeInv == TypeInv /\ ValidatedInv /\ UnsharedInv /\ UnwrittenInv /\ OnePlaceInv

Stages == [x \in Agent |-> StageOf(x)]

LEMMA Moves ==
  ASSUME NEW some \in SUBSET Agent, NEW from, NEW to,
         \A x \in some : StageOf(x) \in from /\ StageOf(x)' = to,
         \A x \in Agent \ some : StageOf(x)' = StageOf(x)
  PROVE  Promise!Move(some, from, to)
BY DEF Promise!Move, Agent

LEMMA NothingMoves ==
  ASSUME \A x \in Agent : StageOf(x)' = StageOf(x)
  PROVE  Stages' = Stages
BY DEF Stages, Agent

LEMMA DeliveredByPush ==
  ASSUME TypeInv, Next, pushed' = pushed, NEW x
  PROVE  IsDelivered(x)' <=> IsDelivered(x)
<1>1. ASSUME IsDelivered(x)' PROVE IsDelivered(x)
  <2>1. PICK c : IsPushed(c)' /\ x \in Changes(content'[c])
    BY <1>1, DeliveredIs
  <2>2. IsPushed(c)
    BY <2>1 DEF IsPushed
  <2>3. content'[c] = content[c]
    BY <2>2, PushedIsReachable, ContentStays DEF TypeInv, CheckoutInv
  <2> QED
    BY <2>1, <2>2, <2>3, DeliveredIs
<1> QED
  BY <1>1, DeliveredStays

LEMMA QuietStage ==
  ASSUME LifeInv, Next, Quiet
  PROVE  Promise!Validate \/ Stages' = Stages
<1>1. /\ UNCHANGED <<written, undone>>
      /\ \A x : IsDelivered(x)' <=> IsDelivered(x)
  BY DeliveredByPush DEF Quiet, LifeInv
<1>2. CASE validated' = validated
  <2>1. \A x \in Agent : StageOf(x)' = StageOf(x)
    BY <1>1, <1>2 DEF StageOf
  <2> QED
    BY <2>1, NothingMoves
<1>3. CASE validated' = validated \cup edits \cup files
  <2> DEFINE some == {x \in Agent : StageOf(x) = "written" /\ x \in edits \cup files}
  <2>1. ASSUME NEW x \in some PROVE StageOf(x) \in {"written"} /\ StageOf(x)' = "validated"
    BY <1>1, <1>3, <2>1 DEF StageOf
  <2>2. ASSUME NEW x \in Agent \ some PROVE StageOf(x)' = StageOf(x)
    <3>1. x \in edits \cup files => x \in 1..written
      BY DEF LifeInv, UnwrittenInv
    <3> QED
      BY <1>1, <1>3, <2>2, <3>1 DEF StageOf
  <2> HIDE DEF some
  <2>3. some \in SUBSET Agent
    BY DEF some
  <2>4. Promise!Move(some, {"written"}, "validated")
    BY <2>1, <2>2, <2>3, Moves
  <2> QED
    BY <2>3, <2>4 DEF Promise!Validate
<1> QED
  BY <1>2, <1>3, ValidatedMoves DEF LifeInv

LEMMA WritingStage ==
  ASSUME LifeInv, Next, Execute \/ Resume \/ ResumeFails
  PROVE  Promise!Write \/ Stages' = Stages
<1>1. /\ UNCHANGED <<undone, validated>>
      /\ \A x : IsDelivered(x)' <=> IsDelivered(x)
      /\ written' = written \/ (written' = written + 1 /\ written' \in Agent)
  BY WritingSteps, DeliveredByPush DEF LifeInv
<1>2. CASE written' = written
  <2>1. \A x \in Agent : StageOf(x)' = StageOf(x)
    BY <1>1, <1>2 DEF StageOf
  <2> QED
    BY <2>1, NothingMoves
<1>3. CASE written' = written + 1 /\ written' \in Agent
  <2>1. PICK new \in Agent : new = written'
    BY <1>3
  <2>2. /\ written \in Nat /\ Agent \subseteq Nat
    BY CheckoutAssumption DEF LifeInv, TypeInv, AuxiliaryTypeOK, Agent
  <2>3. /\ new \notin undone \cup validated /\ ~ IsDelivered(new)
    <3>1. new \in Agent \ 1..written
      BY <1>3, <2>1, <2>2
    <3>2. new \notin undone \cup validated /\ new \notin Committed(Reachable)
      BY <3>1 DEF LifeInv, UnwrittenInv
    <3>3. ~ IsDelivered(new)
      BY <3>2, DeliveredIs, PushedIsReachable, InCommitted DEF LifeInv, TypeInv, CheckoutInv
    <3> QED
      BY <3>2, <3>3
  <2>4. new \notin 1..written /\ new \in 1..written'
    BY <1>3, <2>1, <2>2, CheckoutAssumption DEF Agent
  <2>5. \A x \in {new} : StageOf(x) \in {"unwritten"} /\ StageOf(x)' = "written"
    BY <1>1, <2>3, <2>4 DEF StageOf
  <2>6. ASSUME NEW x \in Agent \ {new} PROVE StageOf(x)' = StageOf(x)
    <3>1. x \in 1..written' <=> x \in 1..written
      BY <1>3, <2>1, <2>2, <2>6
    <3> QED
      BY <1>1, <3>1 DEF StageOf
  <2>7. Promise!Move({new}, {"unwritten"}, "written")
    BY <2>5, <2>6, Moves
  <2> QED
    BY <2>7 DEF Promise!Write
<1> QED
  BY <1>1, <1>2, <1>3

LEMMA OperatorStage ==
  ASSUME LifeInv, Next, OperatorChanges
  PROVE  Promise!Restore \/ Stages' = Stages
<1>1. /\ UNCHANGED <<written, validated>>
      /\ \A x : IsDelivered(x)' <=> IsDelivered(x)
      /\ undone' = undone \/ undone' = undone \cup edits
  BY OperatorSteps, DeliveredByPush DEF LifeInv
<1>2. CASE undone' = undone
  <2>1. \A x \in Agent : StageOf(x)' = StageOf(x)
    BY <1>1, <1>2 DEF StageOf
  <2> QED
    BY <2>1, NothingMoves
<1>3. CASE undone' = undone \cup edits
  <2> DEFINE some == {x \in Agent : x \in edits /\ x \notin undone /\ ~ IsDelivered(x)}
  <2>1. ASSUME NEW x \in some
        PROVE  StageOf(x) \in {"written", "validated"} /\ StageOf(x)' = "restored"
    <3>1. x \in 1..written
      BY <2>1 DEF LifeInv, UnwrittenInv
    <3> QED
      BY <1>1, <1>3, <2>1, <3>1 DEF StageOf
  <2>2. ASSUME NEW x \in Agent \ some PROVE StageOf(x)' = StageOf(x)
    BY <1>1, <1>3, <2>2 DEF StageOf
  <2> HIDE DEF some
  <2>3. some \in SUBSET Agent
    BY DEF some
  <2>4. Promise!Move(some, {"written", "validated"}, "restored")
    BY <2>1, <2>2, <2>3, Moves
  <2> QED
    BY <2>3, <2>4 DEF Promise!Restore
<1> QED
  BY <1>1, <1>2, <1>3

LEMMA CommitStage ==
  ASSUME LifeInv, Next, Commit
  PROVE  Stages' = Stages
<1>1. /\ UNCHANGED <<written, undone, validated>>
      /\ \A x : IsDelivered(x)' <=> IsDelivered(x)
  BY CommitIs, DeliveredByPush DEF LifeInv
<1>2. \A x \in Agent : StageOf(x)' = StageOf(x)
  BY <1>1 DEF StageOf
<1> QED
  BY <1>2, NothingMoves

\* What a push brings to GitHub was in a commit that some branch held.
LEMMA PushStage ==
  ASSUME LifeInv, Next, Push
  PROVE  Promise!Deliver
<1>1. UNCHANGED <<written, undone, validated>>
  BY DEF Push, auxiliary
<1>2. \A x : IsDelivered(x) => IsDelivered(x)'
  BY DeliveredStays DEF LifeInv
<1> DEFINE some == {x \in Agent : IsDelivered(x)' /\ ~ IsDelivered(x)}
<1>3. ASSUME NEW x \in some PROVE StageOf(x) \in {"validated"} /\ StageOf(x)' = "delivered"
  <2>1. PICK c : IsPushed(c)' /\ x \in Changes(content'[c])
    BY <1>3, DeliveredIs
  <2>2. c \in Reachable'
    <3>1. CheckoutTypeOK'
      BY PushStepInv DEF LifeInv, TypeInv, CheckoutInv
    <3> QED
      BY <2>1, <3>1, IsReachableNext DEF IsPushed
  <2>3. x \in Committed(Reachable)
    <3>1. x \in Committed(Reachable)'
      BY <2>1, <2>2, InCommittedNext
    <3> QED
      BY <3>1, PushHolds DEF LifeInv
  <2>4. x \in validated
    BY <1>3, <2>3 DEF LifeInv, ValidatedInv
  <2>5. x \notin undone
    BY <1>3, <2>3 DEF LifeInv, OnePlaceInv, InOnePlace
  <2> QED
    BY <1>3, <2>4, <2>5 DEF StageOf
<1>4. ASSUME NEW x \in Agent \ some PROVE StageOf(x)' = StageOf(x)
  BY <1>1, <1>2, <1>4 DEF StageOf
<1> HIDE DEF some
<1>5. some \in SUBSET Agent
  BY DEF some
<1>6. Promise!Move(some, {"validated"}, "delivered")
  BY <1>3, <1>4, <1>5, Moves
<1> QED
  BY <1>5, <1>6 DEF Promise!Deliver

LEMMA LifeInit == Init => LifeInv /\ Promise!Init
<1> SUFFICES ASSUME Init PROVE LifeInv /\ Promise!Init
  OBVIOUS
<1>1. TypeInv
  BY TypeInit
<1>2. Committed(Reachable) = {} /\ Reachable = {}
  BY NothingCommitted DEF Init, CheckoutInit, Reachable
<1>3. UnsharedInv
  BY DEF UnsharedInv, Init, CheckoutInit
<1>4. ValidatedInv /\ UnwrittenInv /\ OnePlaceInv
  BY <1>2 DEF ValidatedInv, UnwrittenInv, OnePlaceInv, InOnePlace, Init, CheckoutInit
<1>5. \A x \in Agent : StageOf(x) = "unwritten"
  BY DEF StageOf, IsDelivered, Init, CheckoutInit
<1> QED
  BY <1>1, <1>3, <1>4, <1>5 DEF LifeInv, Promise!Init

LEMMA LifeStep == LifeInv /\ [Next]_vars => LifeInv'
BY TypeStep, ValidatedStep, UnsharedStep, UnwrittenStep, OnePlaceStep DEF LifeInv

(* Whatever fails, dies and is taken up again, each change of the agent goes from the
   checkout through local CI to GitHub, or is taken back by the operator and then for
   good: the iteration implements the abstract specification (loop.py 514-610,
   git_gate.py 484-531). *)
THEOREM DeliveryKeepsPromise == Spec => KeepsPromise
<1>1. Spec => []LifeInv
  BY LifeInit, LifeStep, PTL DEF Spec
<1>2. ASSUME LifeInv, [Next]_vars
      PROVE  [Promise!Next]_[x \in Agent |-> StageOf(x)]
  <2>1. CASE UNCHANGED vars
    <3>1. \A x \in Agent : StageOf(x)' = StageOf(x)
      BY <2>1 DEF vars, checkout, auxiliary, StageOf, IsDelivered, Committed, Changes
    <3> QED
      BY <3>1, NothingMoves DEF Stages
  <2>2. CASE Next
    <3>1. Promise!Next \/ Stages' = Stages
      BY <1>2, <2>2, QuietStage, WritingStage, OperatorStage, CommitStage, PushStage,
         QuietSteps DEF Promise!Next, LifeInv
    <3> QED
      BY <3>1 DEF Stages
  <2> QED
    BY <1>2, <2>1, <2>2
<1> QED
  BY <1>1, <1>2, LifeInit, PTL DEF Spec, KeepsPromise, Promise!Spec
====
