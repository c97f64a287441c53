-------------------------- MODULE ResponseProtocol --------------------------
(***************************************************************************)
(* The contract between ChatGPT and the supervisor: what a response may    *)
(* claim (response_protocol.py, state_protocol.py) and when a claim is     *)
(* accepted against what GitHub shows (supervisor_state_machine.py).       *)
(* A response is [block, marker]: the fields of its last LABOS_STATE block *)
(* (or NoBlock) and its last legacy marker (or None).  A field that is     *)
(* missing, or holds a value outside its list, is Bad: both are errors.    *)
(***************************************************************************)
EXTENDS Integers, Values

CONSTANTS Bad,         \* a field that is missing or outside its allowed values
          Unknown,     \* CURRENT_COMMIT => UNKNOWN
          NoBlock,     \* a response without a LABOS_STATE block
          NoWorkflow   \* the literal CI_WORKFLOW => NONE, which is not Python's None

ASSUME DistinctAssumption ==
  /\ None \notin Int \cup {Bad, Unknown, NoBlock, NoWorkflow}
  /\ Unknown \notin Int \cup {Bad}

ChatState == {"CONTINUE", "WAIT_CI", "FIX_CI", "DONE"}

\* Allowed values of the fields that have a closed list.
Allowed ==
  [state              |-> ChatState,
   task_status        |-> {"IN_PROGRESS", "COMPLETE", "BLOCKED"},
   commit_status      |-> {"NONE", "CREATED", "PUSHED"},
   repository_changed |-> {"YES", "NO"},
   local_tests        |-> {"NOT_RUN", "PASSED", "FAILED"},
   ci_status          |-> {"NONE", "QUEUED", "IN_PROGRESS", "PASSED", "FAILED", "CANCELLED"},
   next_action        |-> {"CONTINUE_WORK", "WAIT_FOR_CI", "FIX_CI", "FINISH"}]

\* Every block over the given commits, run ids (also run numbers) and workflows.
Blocks(commits, ids, workflows) ==
  [state              : Allowed.state \cup {Bad},
   task_status        : Allowed.task_status \cup {Bad},
   current_commit     : commits \cup {Unknown, Bad},
   commit_status      : Allowed.commit_status \cup {Bad},
   repository_changed : Allowed.repository_changed \cup {Bad},
   local_tests        : Allowed.local_tests \cup {Bad},
   ci_run             : ids \cup {None, Bad},
   ci_run_id          : ids \cup {None, Bad},
   ci_workflow        : workflows \cup {NoWorkflow, Bad},
   ci_status          : Allowed.ci_status \cup {Bad},
   next_action        : Allowed.next_action \cup {Bad}]

Complete(b) == \A f \in DOMAIN b : b[f] # Bad

NamesRun(b) == b.ci_run # None /\ b.ci_run_id # None

\* The cross-field rules of each state.
DoneRules(b) ==
  /\ b.task_status = "COMPLETE"
  /\ b.next_action = "FINISH"
  /\ b.current_commit # Unknown
  /\ b.repository_changed = "YES" => b.commit_status = "PUSHED"
  /\ b.ci_status = "PASSED"
  /\ NamesRun(b)
  /\ b.ci_workflow # NoWorkflow

WaitRules(b) ==
  /\ b.next_action = "WAIT_FOR_CI"
  /\ NamesRun(b)
  /\ b.ci_status \in {"QUEUED", "IN_PROGRESS", "PASSED"}

FixRules(b) ==
  /\ b.next_action = "FIX_CI"
  /\ b.ci_status \in {"FAILED", "CANCELLED"}

ContinueRules(b) ==
  /\ b.task_status = "IN_PROGRESS"
  /\ b.next_action = "CONTINUE_WORK"

ValidBlock(b) ==
  /\ Complete(b)
  /\ b.state = "DONE" => DoneRules(b)
  /\ b.state = "WAIT_CI" => WaitRules(b)
  /\ b.state = "FIX_CI" => FixRules(b)
  /\ b.state = "CONTINUE" => ContinueRules(b)

OrNone(v) == IF v = Bad THEN None ELSE v

\* LabOSResponse, the result of parsing.  A response without a block has only
\* the state of its marker; one with a block takes its state from the block.
ParseLabosResponse(r) ==
  IF r.block = NoBlock
  THEN [state |-> r.marker, structured |-> FALSE, valid |-> r.marker # None,
        current_commit |-> None, ci_run |-> None, ci_run_id |-> None,
        ci_workflow |-> None, ci_status |-> None, idle |-> FALSE]
  ELSE [state |-> OrNone(r.block.state), structured |-> TRUE,
        valid |-> ValidBlock(r.block),
        current_commit |-> OrNone(r.block.current_commit),
        ci_run |-> OrNone(r.block.ci_run), ci_run_id |-> OrNone(r.block.ci_run_id),
        ci_workflow |-> OrNone(r.block.ci_workflow),
        ci_status |-> OrNone(r.block.ci_status),
        \* What _is_no_progress asks of the response alone.
        idle |-> /\ r.block.state = "CONTINUE"
                 /\ r.block.repository_changed = "NO"
                 /\ r.block.local_tests = "NOT_RUN"
                 /\ r.block.commit_status = "NONE"
                 /\ r.block.ci_status = "NONE"
                 /\ r.block.next_action = "CONTINUE_WORK"]

------------------------------------------------------------------------------
(***************************************************************************)
(* reconcile: a is a parsed response, o an observation of GitHub with the  *)
(* head commit and at most one workflow run.                               *)
(***************************************************************************)
WaitVerified(a, o) ==
  /\ a.current_commit \notin {None, Unknown}
  /\ o.commit_sha = a.current_commit
  /\ o.ci_sha = a.current_commit
  /\ o.ci_conclusion = "success"
  /\ a.ci_run_id # None => o.ci_run_id = a.ci_run_id
  /\ a.ci_run # None => o.ci_run_number = a.ci_run
  /\ a.ci_workflow # None => o.ci_workflow = a.ci_workflow

\* Mutant: a run that has not succeeded is accepted.
DoneVerifiedAnyConclusion(a, o) ==
  /\ a.structured
  /\ a.current_commit \notin {None, Unknown}
  /\ o.commit_sha = a.current_commit
  /\ a.ci_status = "PASSED"
  /\ a.ci_run_id # None /\ a.ci_run # None
  /\ a.ci_workflow \notin {None, NoWorkflow}
  /\ o.ci_sha = a.current_commit
  /\ o.ci_run_id = a.ci_run_id
  /\ o.ci_run_number = a.ci_run
  /\ o.ci_workflow = a.ci_workflow

DoneVerified(a, o) ==
  /\ a.structured
  /\ a.current_commit \notin {None, Unknown}
  /\ o.commit_sha = a.current_commit
  /\ a.ci_status = "PASSED"
  /\ a.ci_run_id # None /\ a.ci_run # None
  /\ a.ci_workflow \notin {None, NoWorkflow}
  /\ o.ci_sha = a.current_commit
  /\ o.ci_conclusion = "success"
  /\ o.ci_run_id = a.ci_run_id
  /\ o.ci_run_number = a.ci_run
  /\ o.ci_workflow = a.ci_workflow
====
