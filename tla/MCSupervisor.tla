---------------------------- MODULE MCSupervisor ----------------------------
(***************************************************************************)
(* Small instances of Supervisor: the responses the agent chooses from and *)
(* the commits that carry evidence.                                        *)
(***************************************************************************)
EXTENDS Supervisor

NothingDone ==
  [state |-> "CONTINUE", task_status |-> "IN_PROGRESS", current_commit |-> Unknown,
   commit_status |-> "NONE", repository_changed |-> "NO", local_tests |-> "NOT_RUN",
   ci_run |-> None, ci_run_id |-> None, ci_workflow |-> NoWorkflow, ci_status |-> "NONE",
   next_action |-> "CONTINUE_WORK"]

Working == [NothingDone EXCEPT !.repository_changed = "YES", !.local_tests = "PASSED"]

\* A claim about run i of commit c; in these instances run i has number i.
Finished(c, i) ==
  [Working EXCEPT !.state = "DONE", !.task_status = "COMPLETE", !.current_commit = c,
                  !.commit_status = "PUSHED", !.ci_run = i, !.ci_run_id = i, !.ci_workflow = "CI",
                  !.ci_status = "PASSED", !.next_action = "FINISH"]

Waiting(c, i, w) ==
  [Working EXCEPT !.state = "WAIT_CI", !.current_commit = c, !.commit_status = "PUSHED",
                  !.ci_run = i, !.ci_run_id = i, !.ci_workflow = w, !.ci_status = "QUEUED",
                  !.next_action = "WAIT_FOR_CI"]

Broken == [Working EXCEPT !.state = "FIX_CI", !.ci_status = "FAILED", !.next_action = "FIX_CI"]

\* DONE with a field missing.
Malformed == [Finished(0, 1) EXCEPT !.ci_run_id = Bad]

Structured(blocks) == [block : blocks, marker : {None}]
Marked(markers) == [block : {NoBlock}, marker : markers]

\* Claims about two runs, true and false, with and without a block.
MixedResponses ==
  Structured({NothingDone, Malformed})
    \cup Structured({Finished(0, 1), Finished(MaxCommit, MaxRun)})
    \cup Structured({Waiting(MaxCommit, 1, "CI")})
    \cup Marked({"WAIT_CI"})

\* One response for each branch of the loop.
BranchResponses ==
  Structured({NothingDone, Malformed, Broken, Finished(1, 1), Waiting(0, 1, "CI")})

\* The evidence of VALIDATION arrives with commit 1.
EvidenceArrives == [c \in Commit |-> {"DEVELOPMENT"} \cup IF c >= 1 THEN {"VALIDATION"} ELSE {}]
====
