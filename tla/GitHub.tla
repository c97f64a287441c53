------------------------------- MODULE GitHub -------------------------------
(***************************************************************************)
(* The GitHub repository as LabOS sees it: the head of the default branch  *)
(* and the Actions runs, with the observations github_observer.py makes of *)
(* them.  The actions belong to the outside world: the agent pushes, and   *)
(* Actions starts and finishes runs, at any time.  History is linear (no   *)
(* forced push) and a finished run keeps its conclusion.  Commits are      *)
(* numbered in the order they are pushed, runs by their database id.       *)
(***************************************************************************)
EXTENDS Integers, FiniteSets, Values

CONSTANTS MaxCommit,   \* bound: pushes after the initial commit
          MaxRun,      \* bound: workflow runs ever started
          Workflows    \* names of the workflows of the repository

ASSUME BoundsAssumption == MaxCommit \in Nat /\ MaxRun \in Nat
ASSUME NoneAssumption ==
  None \notin Int \cup Workflows \cup {"absent", "in_progress", "success", "failure"}

VARIABLES head, runs

github == <<head, runs>>

Commit == 0..MaxCommit
RunId == 1..MaxRun
Conclusion == {"success", "failure"}

NoRun == [sha |-> None, workflow |-> None, status |-> "absent"]
Run == [sha : Commit, workflow : Workflows, status : {"in_progress"} \cup Conclusion]

GitHubTypeOK ==
  /\ head \in Commit
  /\ runs \in [RunId -> Run \cup {NoRun}]

\* The ids an Actions listing returns.
Listed == {i \in RunId : runs[i].status # "absent"}
Running(i) == runs[i].status = "in_progress"
Succeeded(i) == runs[i].status = "success"
Failed(i) == runs[i].status = "failure"

\* A run number is unique only within its workflow.
RunNumber(i) == Cardinality({j \in 1..i : runs[j].workflow = runs[i].workflow})

------------------------------------------------------------------------------
(***************************************************************************)
(* Observations.  commit is the head that was read, ids the listing that   *)
(* was read after it (empty when the gh command failed), i the run that    *)
(* was picked from it, or None.                                            *)
(***************************************************************************)
Observation(commit, i) ==
  IF i = None
  THEN [commit_sha |-> commit, ci_run_id |-> None, ci_run_number |-> None,
        ci_sha |-> None, ci_conclusion |-> None, ci_workflow |-> None]
  ELSE [commit_sha |-> commit, ci_run_id |-> i, ci_run_number |-> RunNumber(i),
        ci_sha |-> runs[i].sha,
        ci_conclusion |-> IF Running(i) THEN None ELSE runs[i].status,
        ci_workflow |-> runs[i].workflow]

\* _gh_run_json: the runs of the commit and workflow asked for; with a run id
\* that run only, else the newest of them.
PickRun(ids, run_id, sha, workflow) ==
  LET matches == {i \in ids : /\ runs[i].sha = sha
                              /\ workflow # None => runs[i].workflow = workflow
                              /\ run_id # None => i = run_id}
  IN  IF matches = {} THEN None
      ELSE CHOOSE i \in matches : \A j \in matches : j <= i

\* observe_github, once the head and the listing have been read.  Its search by run number,
\* when no run id is given, is left out, as it never happens: the one call that passes a
\* number is made for a WAIT_CI, which names both or is not valid.
Observe(commit, ids, run_id, target_sha, workflow) ==
  Observation(commit,
    PickRun(ids, run_id, IF target_sha = None THEN commit ELSE target_sha, workflow))

------------------------------------------------------------------------------
GitHubInit ==
  /\ head = 0
  /\ runs = [i \in RunId |-> NoRun]

Push ==
  /\ head < MaxCommit
  /\ head' = head + 1
  /\ UNCHANGED runs

\* A push, a schedule or a manual dispatch starts a run on a pushed commit.
StartRun ==
  \E i \in RunId, sha \in 0..head, w \in Workflows :
    /\ Listed = 1..(i - 1)
    /\ runs' = [runs EXCEPT ![i] = [sha |-> sha, workflow |-> w, status |-> "in_progress"]]
    /\ UNCHANGED head

FinishRun ==
  \E i \in Listed, c \in Conclusion :
    /\ Running(i)
    /\ runs' = [runs EXCEPT ![i].status = c]
    /\ UNCHANGED head

GitHubNext == Push \/ StartRun \/ FinishRun
====
