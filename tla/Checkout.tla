------------------------------ MODULE Checkout ------------------------------
(***************************************************************************)
(* The project's Git checkout and its remote, with the operations          *)
(* git_gate.py makes on them.  The controller works on one agent branch    *)
(* per run; the operator merges agent branches into main, leaves files in  *)
(* the checkout and edits or restores tracked files.                       *)
(*                                                                         *)
(* What is written to the checkout is a numbered change: an edit of a      *)
(* tracked file or a new untracked file.  A history is the set of commits  *)
(* reachable from its head, so a is an ancestor of b iff a is in b's       *)
(* history; commits are numbered in the order they are made.  0 is the     *)
(* commit everything starts from.                                          *)
(***************************************************************************)
EXTENDS Integers, FiniteSets, Values

CONSTANTS MaxChanges,    \* bound: changes the agent writes
          MaxOps,        \* bound: changes the operator makes in the checkout
          MaxCommits,    \* bound: commits ever made
          MaxRuns        \* bound: agent branches

ASSUME CheckoutAssumption ==
  /\ MaxChanges \in Nat /\ MaxOps \in Nat /\ MaxCommits \in Nat /\ MaxRuns \in Nat \ {0}
  /\ None \notin Int

VARIABLES
  edits,        \* changes of tracked files that are not committed
  files,        \* untracked files
  branch,       \* the branch checked out; 0 is main
  local,        \* local[b]: history of the local branch b
  pushed,       \* pushed[b]: history of b on GitHub, None if b is not there
  main,         \* history of main on GitHub
  origin_main,  \* origin/main, as last fetched
  content       \* what each commit contains, in the order they were made

checkout == <<edits, files, branch, local, pushed, main, origin_main, content>>

Agent == 1..MaxChanges
Operator == MaxChanges + 1 .. MaxChanges + MaxOps
Change == Agent \cup Operator
Sha == 0..MaxCommits
History == SUBSET (1..MaxCommits)
Branch == 0..MaxRuns
Tree == [edits : SUBSET Change, files : SUBSET Change]
EmptyTree == [edits |-> {}, files |-> {}]

ASSUME NoneAssumption ==
  None \notin Tree /\ \A history \in History : history # None

CheckoutTypeOK ==
  /\ edits \in SUBSET Change
  /\ files \in SUBSET Change
  /\ branch \in Branch
  /\ local \in [Branch -> History]
  /\ pushed \in [Branch -> History \cup {None}]
  /\ main \in History
  /\ origin_main \in History
  /\ content \in [1..MaxCommits -> Tree]

CheckoutInit ==
  /\ edits = {} /\ files = {}
  /\ branch = 0
  /\ local = [b \in Branch |-> {}]
  /\ pushed = [b \in Branch |-> None]
  /\ main = {} /\ origin_main = {}
  /\ content = [c \in 1..MaxCommits |-> EmptyTree]

(***************************************************************************)
(* Observations.                                                           *)
(***************************************************************************)
Changes(tree) == tree.edits \cup tree.files

Committed(history) == UNION {Changes(content[c]) : c \in history}

HeadOf(history) ==
  CHOOSE c \in history \cup {0} : \A d \in history : d <= c

(* The status, the diff against HEAD and the untracked files, hashed.  HEAD
   itself is not part of it. *)
Fingerprint == [edits |-> edits, files |-> files]

(* @{upstream} is origin/main: "git switch -c <branch> origin/main" sets it,
   and a push to refs/heads/<branch> does not. *)
Snapshot == [head |-> HeadOf(local[branch]), upstream |-> HeadOf(origin_main),
             tree |-> Fingerprint]

IsAncestor(sha) == sha = 0 \/ sha \in local[branch]

(***************************************************************************)
(* prepare_repository.  The preflight compares the checkout with what is   *)
(* expected of it, fetches, and brings the run's branch up to date.        *)
(***************************************************************************)
RecoveryMismatch(expected) ==
  \/ expected = None
  \/ expected # Fingerprint
  \/ Fingerprint = EmptyTree

(* git refuses to write a commit's file over an untracked one. *)
WouldOverwrite(history) == files \cap Committed(history \ local[branch]) # {}

SyncRefused(b, allow_dirty) ==
  IF branch # b
  THEN allow_dirty \/ WouldOverwrite(main)
  ELSE /\ pushed[b] # None
       /\ \/ allow_dirty /\ local[b] # pushed[b]
          \/ ~(local[b] \subseteq pushed[b]) /\ ~(pushed[b] \subseteq local[b])
          \/ local[b] \subseteq pushed[b] /\ WouldOverwrite(pushed[b])

Synchronize(b) ==
  /\ origin_main' = main
  /\ branch' = b
  /\ local' = [local EXCEPT ![b] =
                 IF branch # b THEN main
                 ELSE IF pushed[b] # None /\ local[b] \subseteq pushed[b]
                      THEN pushed[b] ELSE local[b]]
  /\ UNCHANGED <<edits, files, pushed, main, content>>

FetchOnly ==
  /\ origin_main' = main
  /\ UNCHANGED <<edits, files, branch, local, pushed, main, content>>

(***************************************************************************)
(* commit_and_push, call by call: add and commit, push, and what the       *)
(* controller does when GitHub does not confirm the push.                  *)
(***************************************************************************)
Made == {c \in 1..MaxCommits : content[c] # EmptyTree}
NextSha == Cardinality(Made) + 1

Staged(baseline) == [edits |-> edits, files |-> files \ baseline]

CommitAll(baseline) ==
  /\ NextSha <= MaxCommits
  /\ Staged(baseline) # EmptyTree
  /\ content' = [content EXCEPT ![NextSha] = Staged(baseline)]
  /\ local' = [local EXCEPT ![branch] = @ \cup {NextSha}]
  /\ edits' = {}
  /\ files' = files \cap baseline
  /\ UNCHANGED <<branch, pushed, main, origin_main>>

CanPush(b) == pushed[b] = None \/ pushed[b] \subseteq local[b]

AfterPush(b, accepted) ==
  IF accepted THEN [pushed EXCEPT ![b] = local[b]] ELSE pushed

\* Mutant: the reset is a hard one.
ResetHard ==
  /\ local' = [local EXCEPT ![branch] = @ \ {HeadOf(@)}]
  /\ edits' = {}
  /\ files' = files

ResetMixed ==
  LET last == HeadOf(local[branch])
  IN  /\ local' = [local EXCEPT ![branch] = @ \ {last}]
      /\ edits' = edits \cup content[last].edits
      /\ files' = files \cup content[last].files

(***************************************************************************)
(* The outside world.                                                      *)
(***************************************************************************)
(* The agent's controlled execution, or nothing when it only reads. *)
Write(change) ==
  /\ \/ edits' = edits \cup {change} /\ UNCHANGED files
     \/ files' = files \cup {change} /\ UNCHANGED edits
  /\ UNCHANGED <<branch, local, pushed, main, origin_main, content>>

(* The operator merges the agent's branch: a fast-forward of main. *)
Merge ==
  \E b \in Branch :
    /\ pushed[b] # None /\ main \subseteq pushed[b] /\ main # pushed[b]
    /\ main' = pushed[b]
    /\ UNCHANGED <<edits, files, branch, local, pushed, origin_main, content>>

(* git restore, by the operator. *)
Restore ==
  /\ edits # {}
  /\ edits' = {}
  /\ UNCHANGED <<files, branch, local, pushed, main, origin_main, content>>
====
