----------------------------- MODULE Dashboard -----------------------------
(***************************************************************************)
(* The web dashboard (web.py) and one project: its handlers, which run in  *)
(* threads of the server, the supervisors they start and stop, the record  *)
(* by which a restarted server finds them again, and the two things both   *)
(* sides write: config.yaml and the lifecycle files.  Supervisors are also *)
(* started from a shell.  The server may die between any two steps.        *)
(*                                                                         *)
(* A step of a handler ends where another thread or a supervisor can       *)
(* interfere; what the code does under _process_lock is one step, except   *)
(* where a death of the server in the middle leaves something behind.      *)
(***************************************************************************)
EXTENDS Integers, Values

CONSTANTS Thread,      \* threads of ThreadingHTTPServer
          Milestone,
          Operation,   \* the requests that are made
          FromShell,   \* whether supervisors are also started from a shell
          Evident,     \* the phases whose evidence is in the checkout
          FirstPhase,  \* the phase of the project's foundation at first
          Empty,       \* contents of a file that was truncated and not yet written
          Torn,        \* contents of two writers mixed up
          MaxProc,     \* bound: supervisors ever started
          MaxRequest,  \* bound: requests ever made
          MaxRestart   \* bound: deaths of the server

\* The phases are numbered in their order.
IDEA == 1
BRAINSTORM == 2
DOCUMENTATION == 3
PLANNING == 4
DEVELOPMENT == 5
VALIDATION == 6
MAINTENANCE == 7
Phase == IDEA..MAINTENANCE

ASSUME BoundAssumption == MaxProc \in Nat /\ MaxRequest \in Nat /\ MaxRestart \in Nat
ASSUME ShellAssumption == FromShell \in BOOLEAN
ASSUME PhaseAssumption == FirstPhase \in Phase /\ Evident \subseteq Phase /\ DEVELOPMENT \in Evident
ASSUME NameAssumption == None \notin Thread \cup Milestone /\ None \notin Nat

VARIABLES
  (* On disk. *)
  config,          \* config.yaml
  tmp,             \* config.yaml.tmp
  lifecycle,       \* the phase in each lifecycle file; None is the foundation's
  record,          \* the pid in web-process.json
  (* Supervisors. *)
  proc,            \* by pid: where it is, and the phase and milestone it works on
  lock,            \* the holder of supervisor.lock
  (* In the server. *)
  processes,       \* _processes[name]
  process_lock, lifecycle_lock,
  thread,          \* by thread: the request and the handler's local variables
  (* Bounds and history. *)
  launched, requests, restarts,
  hidden,          \* supervisors that no status of the dashboard can find
  overlapped,      \* two requests were changing config.yaml at the same time
  held             \* the phases each lifecycle file has held

files == <<config, tmp, lifecycle, record>>
supervisors == <<proc, lock>>
server == <<processes, process_lock, lifecycle_lock, thread>>
bounds == <<launched, requests, restarts>>
history == <<hidden, overlapped, held>>
vars == <<files, supervisors, server, bounds, history>>

Pid == 1..MaxProc
Lifecycle == Milestone \cup {None}

\* What config.yaml says of the project, as far as it matters here; a milestone
\* can be listed more than once.
Project == [present : BOOLEAN, listed : [Milestone -> Nat], active : Lifecycle]
NoProject == [present |-> FALSE, listed |-> [m \in Milestone |-> 0], active |-> None]
NewProject == [NoProject EXCEPT !.present = TRUE]
Contents == Project \cup {Empty, Torn}

ASSUME ContentsAssumption == {None, Empty, Torn} \cap Project = {}

Supervisor ==
  [state : {"none", "loading", "locking", "working", "dead"},
   phase : Phase \cup {None}, active : Lifecycle]

\* seen and phase: what load_config returned; payload: what will be written;
\* pid: the supervisor found or started; handle: what an open temporary file has become.
Handler ==
  [op : Operation \cup {"none", "start", "start_milestone"},
   pc : {"idle", "load", "check", "spawn", "persist", "terminate", "save", "guard",
         "read", "open", "write", "replace"},
   seen : Project \cup {None}, phase : Phase \cup {None}, target : Lifecycle,
   payload : Project \cup {None}, pid : Pid \cup {None},
   handle : {"none", "tmp", "config", "unlinked"}]

Idle == [op |-> "none", pc |-> "idle", seen |-> None, phase |-> None, target |-> None,
         payload |-> None, pid |-> None, handle |-> "none"]

TypeOK ==
  /\ config \in Contents /\ tmp \in Contents \cup {None}
  /\ lifecycle \in [Lifecycle -> Phase \cup {None}]
  /\ record \in Pid \cup {None} /\ processes \in Pid \cup {None}
  /\ proc \in [Pid -> Supervisor] /\ lock \in Pid \cup {None}
  /\ process_lock \in Thread \cup {None} /\ lifecycle_lock \in Thread \cup {None}
  /\ thread \in [Thread -> Handler]
  /\ launched \in 0..MaxProc /\ requests \in 0..MaxRequest /\ restarts \in 0..MaxRestart
  /\ hidden \subseteq Pid /\ overlapped \in BOOLEAN
  /\ held \in [Lifecycle -> SUBSET Phase]

\* The phase a lifecycle file stands for: a missing one has a fallback.
PhaseOf(m) ==
  IF lifecycle[m] # None THEN lifecycle[m] ELSE IF m = None THEN IDEA ELSE PLANNING

Init ==
  /\ \/ config = NewProject /\ lifecycle = [m \in Lifecycle |-> IF m = None THEN FirstPhase ELSE None]
     \/ config = NoProject /\ lifecycle = [m \in Lifecycle |-> None]
  /\ tmp = None /\ record = None
  /\ proc = [p \in Pid |-> [state |-> "none", phase |-> None, active |-> None]] /\ lock = None
  /\ processes = None /\ process_lock = None /\ lifecycle_lock = None
  /\ thread = [r \in Thread |-> Idle]
  /\ launched = 0 /\ requests = 0 /\ restarts = 0
  /\ hidden = {} /\ overlapped = FALSE
  /\ held = [m \in Lifecycle |-> {PhaseOf(m)}]

------------------------------------------------------------------------------
(* Configuration and lifecycle. *)

\* What load_config refuses: for every project, whichever one is at fault.
Loads(c) ==
  /\ c # Torn
  /\ c # Empty =>
       /\ \A m \in Milestone : c.listed[m] <= 1
       /\ c.active # None => c.listed[c.active] = 1

Present(c) == c \notin {Empty, Torn} /\ c.present

\* Mutant: any later phase is accepted.
CanAdvanceFurther(current, target) == target > current /\ current \in Evident

\* can_advance with the documents that are in the checkout.
CanAdvance(current, target) == target = current + 1 /\ current \in Evident

SaveLifecycle(m, phase) ==
  /\ lifecycle' = [lifecycle EXCEPT ![m] = phase]
  /\ held' = [held EXCEPT ![m] = @ \cup {phase}]

(* Supervisors. *)

Alive(p) == p # None /\ proc[p].state \in {"loading", "locking", "working"}

NewPid == launched + 1
Launch ==
  /\ launched < MaxProc
  /\ launched' = NewPid
  /\ proc' = [proc EXCEPT ![NewPid].state = "loading"]

\* A killed or finished process holds no lock.
Kill(p) ==
  /\ proc' = [proc EXCEPT ![p] = [state |-> "dead", phase |-> None, active |-> None]]
  /\ lock' = IF lock = p THEN None ELSE lock

\* lab-agent supervise: the dashboard does not know of it.
LaunchFromShell ==
  /\ FromShell
  /\ Launch
  /\ hidden' = hidden \cup {NewPid}
  /\ UNCHANGED <<files, lock, server, requests, restarts, overlapped, held>>

\* The configuration, with the phase, is read before the lock is asked for.
LoadConfig(p) ==
  /\ proc[p].state = "loading" /\ Loads(config) /\ Present(config)
  /\ proc' = [proc EXCEPT ![p] = [state |-> "locking", active |-> config.active,
                                  phase |-> PhaseOf(config.active)]]
  /\ UNCHANGED <<files, lock, server, bounds, history>>

\* Mutant: the lock is not asked for.
WorkWithoutLock(p) ==
  /\ proc[p].state = "locking"
  /\ lock' = p
  /\ proc' = [proc EXCEPT ![p].state = "working"]
  /\ UNCHANGED <<files, server, bounds, history>>

\* _project_execution_lock; a process that does not get it exits (Exit).
TakeLock(p) ==
  /\ proc[p].state = "locking" /\ lock = None
  /\ lock' = p
  /\ proc' = [proc EXCEPT ![p].state = "working"]
  /\ UNCHANGED <<files, server, bounds, history>>

\* A phase is complete: it is saved from what the process holds.
Advance(p) ==
  /\ proc[p].state = "working" /\ proc[p].phase # MAINTENANCE
  /\ CanAdvance(proc[p].phase, proc[p].phase + 1)
  /\ SaveLifecycle(proc[p].active, proc[p].phase + 1)
  /\ proc' = [proc EXCEPT ![p].phase = @ + 1]
  /\ UNCHANGED <<config, tmp, record, lock, server, bounds, hidden, overlapped>>

\* The run ends or fails, or the process is killed.
Exit(p) ==
  /\ Alive(p)
  /\ Kill(p)
  /\ UNCHANGED <<files, server, bounds, history>>

------------------------------------------------------------------------------
(* Handlers. *)

At(r, pc) == thread[r].pc = pc
Set(r, handler) == thread' = [thread EXCEPT ![r] = handler]
Goto(r, pc) == Set(r, [thread[r] EXCEPT !.pc = pc])

\* Mutant: an early return leaves the lock behind.
ReplyKeepingLock(r) == Set(r, Idle) /\ UNCHANGED lifecycle_lock

\* The handler answers, or raises, which do_POST and its like turn into a 500.
Reply(r) ==
  /\ Set(r, Idle)
  /\ lifecycle_lock' = IF lifecycle_lock = r THEN None ELSE lifecycle_lock

FirstStep(op) ==
  CASE op = "stop"                -> "check"
    [] op \in {"edit", "create"} -> "read"
    [] OTHER                      -> "load"

Receive(r) ==
  /\ At(r, "idle") /\ requests < MaxRequest
  /\ requests' = requests + 1
  /\ \E op \in Operation : Set(r, [Idle EXCEPT !.op = op, !.pc = FirstStep(op)])
  /\ UNCHANGED <<files, supervisors, processes, process_lock, lifecycle_lock, launched, restarts,
                 history>>

\* A request that changes config.yaml, from the first that it read of it until it is renamed.
\* One that changes the lifecycle does so with notes only, and reads at the end what it writes.
Changing(r) ==
  /\ thread[r].op \notin {"none", "start", "stop"}
  /\ \/ thread[r].pc \in {"open", "write", "replace"}
     \/ thread[r].op \in {"create_milestone", "start_milestone"} /\ thread[r].pc \in {"check", "guard", "read"}
     \/ thread[r].op = "edit" /\ At(r, "check")

\* A request that is changing it after this step notes whether another one is.
NoteOverlap(r) ==
  overlapped' = (overlapped \/ (Changing(r)' /\ \E q \in Thread \ {r} : Changing(q)))

\* load_config at the head of a handler, and the 404 of an unknown project.  A lifecycle
\* request takes _lifecycle_lock first.
Load(r) ==
  /\ At(r, "load")
  /\ thread[r].op = "lifecycle" => lifecycle_lock = None
  /\ IF Loads(config) /\ Present(config)
     THEN /\ Set(r, [thread[r] EXCEPT !.pc = "check", !.seen = config,
                                      !.phase = PhaseOf(config.active)])
          /\ lifecycle_lock' = IF thread[r].op = "lifecycle" THEN r ELSE lifecycle_lock
     ELSE Reply(r)
  /\ NoteOverlap(r)
  /\ UNCHANGED <<files, supervisors, processes, process_lock, bounds, hidden, held>>

\* Mutant: the record is not consulted.
RunningInMap == IF Alive(processes) THEN processes ELSE None

\* The pid that _process_status finds running: that of the Popen object, or after a
\* restart of the server the recorded one.
Running ==
  IF processes # None THEN IF Alive(processes) THEN processes ELSE None
  ELSE IF Alive(record) THEN record ELSE None

\* What a handler does when no supervisor runs.  The local guards that come next
\* are part of it.
AfterCheck(r) ==
  LET h == thread[r] IN
  CASE h.op = "start"            -> /\ Set(r, [Idle EXCEPT !.op = "start", !.pc = "spawn"])
                                     /\ UNCHANGED lifecycle_lock
    [] h.op = "lifecycle"        -> Goto(r, "save") /\ UNCHANGED lifecycle_lock
    [] h.op = "create_milestone" ->
         \/ \E m \in Milestone : /\ h.seen.listed[m] = 0
                                 /\ Set(r, [h EXCEPT !.pc = "read", !.target = m])
                                 /\ UNCHANGED lifecycle_lock
         \/ Reply(r)
    [] h.op = "start_milestone"  ->
         \/ \E m \in Milestone : /\ h.seen.listed[m] = 1
                                 /\ h.target \in {None, m}
                                 /\ h.phase = MAINTENANCE
                                 /\ Set(r, [h EXCEPT !.pc = "guard", !.target = m])
                                 /\ UNCHANGED lifecycle_lock
         \/ Reply(r)
    [] h.op = "edit"             -> Goto(r, "open") /\ UNCHANGED lifecycle_lock
    [] OTHER                     -> Reply(r)

\* What is not running is forgotten.
Forget == processes' = None /\ record' = None

\* _process_status, under _process_lock, in a handler that goes on after it.
Check(r) ==
  /\ At(r, "check") /\ process_lock = None
  /\ IF Running # None
     THEN /\ IF thread[r].op = "stop"
             THEN /\ Set(r, [thread[r] EXCEPT !.pc = "terminate", !.pid = Running])
                  /\ UNCHANGED lifecycle_lock
             ELSE Reply(r)
          /\ UNCHANGED <<processes, record>>
     ELSE Forget /\ AfterCheck(r)
  /\ UNCHANGED <<config, tmp, lifecycle, supervisors, process_lock, bounds, history>>

\* The requests that only show something, in threads of their own.
Poll ==
  /\ process_lock = None /\ Running = None
  /\ Forget
  /\ UNCHANGED <<config, tmp, lifecycle, supervisors, process_lock, lifecycle_lock, thread, bounds,
                 history>>

\* Popen, with the lock taken again and the status not looked at again.
Spawn(r) ==
  /\ At(r, "spawn") /\ process_lock = None
  /\ Launch
  /\ process_lock' = r /\ processes' = NewPid
  /\ hidden' = IF Alive(processes) THEN hidden \cup {processes} ELSE hidden
  /\ Set(r, [Idle EXCEPT !.op = "start", !.pc = "persist", !.pid = NewPid])
  /\ UNCHANGED <<files, lock, lifecycle_lock, requests, restarts, overlapped, held>>

\* A start whose max_turns is refused.
SpawnRefused(r) ==
  /\ At(r, "spawn") /\ process_lock = None
  /\ Reply(r)
  /\ UNCHANGED <<files, supervisors, processes, process_lock, bounds, history>>

\* _persist_process
Persist(r) ==
  /\ At(r, "persist")
  /\ record' = thread[r].pid
  /\ process_lock' = None
  /\ Reply(r)
  /\ UNCHANGED <<config, tmp, lifecycle, supervisors, processes, bounds, history>>

\* _terminate_process and the clean-up after it.  The process of the map is preferred
\* to the pid the status found.  A kill of a pid that is gone raises before the
\* clean-up, or hits a process that nobody has waited for yet.
Terminate(r) ==
  /\ At(r, "terminate") /\ process_lock = None
  /\ LET victim == IF Alive(processes) THEN processes ELSE thread[r].pid IN
     \/ /\ IF Alive(victim) THEN Kill(victim) ELSE UNCHANGED supervisors
        /\ Forget
     \/ ~ Alive(victim) /\ UNCHANGED <<supervisors, processes, record>>
  /\ Reply(r)
  /\ UNCHANGED <<config, tmp, lifecycle, process_lock, bounds, history>>

\* The lifecycle state of the requested milestone is looked at.
Guard(r) ==
  /\ At(r, "guard")
  /\ IF PhaseOf(thread[r].target) \in {PLANNING, MAINTENANCE}
     THEN Goto(r, "read") /\ UNCHANGED lifecycle_lock
     ELSE Reply(r)
  /\ UNCHANGED <<files, supervisors, processes, process_lock, bounds, history>>

\* The payloads a handler may write, from the one it reads; "edit" is an update of the
\* project or its deletion.
Changed(h, c) ==
  CASE h.op = "create"           -> {NewProject}
    [] h.op = "edit"             -> {c, NoProject}
    [] h.op = "create_milestone" -> {[c EXCEPT !.listed[h.target] = @ + 1]}
    [] h.op = "start_milestone"  -> {[c EXCEPT !.active = h.target]}
    [] OTHER                     -> {c}

\* Mutant: what is read is not looked at.
ReadUnchecked(r) ==
  /\ At(r, "read")
  /\ LET h == thread[r] IN
     \E c \in (IF config = Empty THEN {Empty} ELSE Changed(h, config)) :
       Set(r, [h EXCEPT !.payload = c, !.pc = IF h.op = "edit" THEN "check" ELSE "open"])
  /\ NoteOverlap(r)
  /\ UNCHANGED <<files, supervisors, processes, process_lock, lifecycle_lock, bounds, hidden, held>>

\* _config_payload, with the 404 and 409 and the missing keys that follow; or the body of
\* the request is refused.
Read(r) ==
  /\ At(r, "read")
  /\ LET h == thread[r] IN
     \/ /\ config # Torn /\ (Present(config) <=> h.op # "create")
        /\ \E c \in Changed(h, config) :
             Set(r, [h EXCEPT !.payload = c, !.pc = IF h.op = "edit" THEN "check" ELSE "open"])
        /\ UNCHANGED lifecycle_lock
     \/ Reply(r)
  /\ NoteOverlap(r)
  /\ UNCHANGED <<files, supervisors, processes, process_lock, bounds, hidden, held>>

\* A change of the lifecycle that the gate or the settings do not allow.
Refuse(r) ==
  /\ At(r, "save") /\ thread[r].op = "lifecycle"
  /\ Reply(r)
  /\ UNCHANGED <<files, supervisors, processes, process_lock, bounds, history>>

\* Mutant: the file is written in place.
OpenInPlace(r) ==
  /\ At(r, "open")
  /\ config' = Empty /\ tmp' = config
  /\ Set(r, [thread[r] EXCEPT !.pc = "write", !.handle = "config"])
  /\ UNCHANGED <<lifecycle, record, supervisors, processes, process_lock, lifecycle_lock, bounds,
                 history>>

\* _write_config opens config.yaml.tmp, which truncates it, ...
Open(r) ==
  /\ At(r, "open")
  /\ tmp' = Empty
  /\ Set(r, [thread[r] EXCEPT !.pc = "write", !.handle = "tmp"])
  /\ UNCHANGED <<config, lifecycle, record, supervisors, processes, process_lock, lifecycle_lock,
                 bounds, history>>

\* ... writes it from the start, over what another writer may have put there ...
Write(r) ==
  /\ At(r, "write")
  /\ LET h == thread[r]
         Over(old) == IF old = Empty THEN {h.payload} ELSE {h.payload, Torn} IN
     /\ CASE h.handle = "tmp"    -> tmp' \in Over(tmp) /\ UNCHANGED config
          [] h.handle = "config" -> config' \in Over(config) /\ UNCHANGED tmp
          [] OTHER               -> UNCHANGED <<config, tmp>>
     /\ Set(r, [h EXCEPT !.pc = "replace", !.payload = None, !.handle = "none"])
  /\ UNCHANGED <<lifecycle, record, supervisors, processes, process_lock, lifecycle_lock, bounds,
                 history>>

\* An open file stays open under its new name.
Renamed(handle) ==
  CASE handle = "tmp" -> "config" [] handle = "config" -> "unlinked" [] OTHER -> handle

\* What a handler does once its configuration is written.
AfterReplace(h) ==
  CASE h.op \in {"create", "start_milestone"} ->
         {[Idle EXCEPT !.op = h.op, !.pc = "save", !.target = h.target]}
    [] h.op = "create_milestone" ->
         {Idle, [Idle EXCEPT !.op = "start_milestone", !.pc = "load", !.target = h.target]}
    [] OTHER -> {Idle}

\* ... and renames it, unless another writer has.
Replace(r) ==
  /\ At(r, "replace")
  /\ \E h \in (IF tmp = None THEN {Idle} ELSE AfterReplace(thread[r])) :
       /\ thread' = [q \in Thread |->
                       IF q = r THEN h
                       ELSE IF tmp = None THEN thread[q]
                       ELSE [thread[q] EXCEPT !.handle = Renamed(@)]]
       /\ lifecycle_lock' = IF lifecycle_lock = r THEN None ELSE lifecycle_lock
  /\ config' = IF tmp = None THEN config ELSE tmp
  /\ tmp' = None
  /\ UNCHANGED <<lifecycle, record, supervisors, processes, process_lock, bounds, history>>

\* _update_lifecycle_unlocked: an advance, or an approval or notes, which save the
\* phase that was loaded.  Notes go to the configuration too.
UpdateLifecycle(r) ==
  /\ At(r, "save") /\ thread[r].op = "lifecycle"
  /\ \E target \in Phase, notes \in BOOLEAN :
       /\ IF target = thread[r].phase THEN notes \/ target = DEVELOPMENT
          ELSE CanAdvance(thread[r].phase, target)
       /\ SaveLifecycle(thread[r].seen.active, target)
       /\ IF notes THEN Goto(r, "read") /\ UNCHANGED lifecycle_lock ELSE Reply(r)
  /\ UNCHANGED <<config, tmp, record, supervisors, processes, process_lock, bounds, hidden,
                 overlapped>>

\* A new project or milestone gets its first phase, after the configuration names it.
SaveFirstPhase(r) ==
  /\ At(r, "save") /\ thread[r].op \in {"create", "start_milestone"}
  /\ IF thread[r].op = "create"
     THEN \E phase \in {BRAINSTORM, DOCUMENTATION} : SaveLifecycle(None, phase)
     ELSE SaveLifecycle(thread[r].target, PLANNING)
  /\ Reply(r)
  /\ UNCHANGED <<config, tmp, record, supervisors, processes, process_lock, bounds, hidden,
                 overlapped>>

\* The server dies and is started again; supervisors live on.
Restart ==
  /\ restarts < MaxRestart
  /\ restarts' = restarts + 1
  /\ thread' = [r \in Thread |-> Idle]
  /\ processes' = None /\ process_lock' = None /\ lifecycle_lock' = None
  /\ hidden' = hidden \cup {thread[r].pid : r \in {q \in Thread : At(q, "persist")}}
  /\ UNCHANGED <<files, supervisors, launched, requests, overlapped, held>>

------------------------------------------------------------------------------
Handle(r) ==
  \/ Load(r) \/ Check(r) \/ Spawn(r) \/ SpawnRefused(r) \/ Persist(r)
  \/ Terminate(r) \/ Guard(r) \/ Read(r) \/ Refuse(r) \/ Open(r) \/ Write(r) \/ Replace(r)
  \/ UpdateLifecycle(r) \/ SaveFirstPhase(r)

Next ==
  \/ \E r \in Thread : Receive(r) \/ Handle(r)
  \/ \E p \in Pid : LoadConfig(p) \/ TakeLock(p) \/ Advance(p) \/ Exit(p)
  \/ Poll \/ LaunchFromShell \/ Restart

Spec == Init /\ [][Next]_vars

------------------------------------------------------------------------------
\* At most one supervisor of the project works at a time, however many are started
\* by overlapping requests and from the shell (_project_execution_lock).
OneWorker == \A p \in Pid : proc[p].state = "working" => lock = p

\* A supervisor that lives is found by the next status, also after the server died,
\* unless it was started from the shell, its Popen object was overwritten by that of
\* a start that overlapped, or the server died before recording it (_process_status,
\* _persist_process, _stop_supervisor).
Visible ==
  \A p \in Pid \ hidden : Alive(p) => processes = p \/ (processes = None /\ record = p)

\* Whoever writes a lifecycle file, and however old what it read, it writes a phase the
\* file has held, the successor of one whose evidence is there, or a first phase
\* (can_advance, _update_lifecycle, _advance_lifecycle_phase).
PhasesAreNotSkipped ==
  [][\A m \in Lifecycle :
       lifecycle'[m] # lifecycle[m] =>
         \/ lifecycle'[m] \in held[m]
         \/ \E q \in held[m] \cap Evident : lifecycle'[m] = q + 1
         \/ lifecycle'[m] \in (IF m = None THEN {BRAINSTORM, DOCUMENTATION} ELSE {PLANNING})]_vars

\* As long as no two requests change it at once, config.yaml loads at every moment,
\* whenever the server dies (_write_config).
ConfigLoads == ~ overlapped => config # Empty /\ Loads(config)

\* The requests under way never all wait for each other, and no lock is left behind by
\* one that has been answered (_process_lock, _lifecycle_lock).
NoStandstill ==
  (\E r \in Thread : ~ At(r, "idle")) =>
    \E r \in Thread :
      /\ ~ At(r, "idle")
      /\ At(r, "load") /\ thread[r].op = "lifecycle" => lifecycle_lock = None
      /\ thread[r].pc \in {"check", "spawn", "terminate"} => process_lock = None

\* "All lifecycle phases and sequential transitions are enforced" (docs/DEFINITION_OF_DONE.md):
\* a phase is never taken back, except for a new project or milestone.
PhaseIsNotTakenBack ==
  [][\A m \in Lifecycle :
       lifecycle[m] # None =>
         \/ lifecycle'[m] >= lifecycle[m]
         \/ lifecycle'[m] \in (IF m = None THEN {BRAINSTORM, DOCUMENTATION} ELSE {PLANNING})]_vars
====
