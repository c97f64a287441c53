-------------------------- MODULE DashboardProofs --------------------------
(***************************************************************************)
(* What holds of the dashboard for any number of threads, milestones,      *)
(* requests, supervisors and deaths of the server.                         *)
(***************************************************************************)
EXTENDS Dashboard, TLAPS

\* A handler that is about to write has what it will write, and one that is about to
\* record a process has its pid; one that starts a milestone has chosen it.
WellFormed(h) ==
  /\ h.pc \in {"open", "write"} => h.payload \in Project
  /\ h.pc = "check" /\ h.op = "edit" => h.payload \in Project
  /\ h.pc = "load" => h.op # "edit"
  /\ h.pc = "persist" => h.pid \in Pid
  /\ h.op = "start_milestone" /\ h.pc \in {"guard", "read", "open", "write", "replace", "save"} =>
       h.target \in Milestone

PayloadInv == \A r \in Thread : WellFormed(thread[r])

Typed == TypeOK /\ PayloadInv

LEMMA IdleType == Idle \in Handler /\ WellFormed(Idle)
BY DEF Idle, Handler, Lifecycle, WellFormed

LEMMA NoProjectType == NoProject \in Project /\ NewProject \in Project
BY DEF NoProject, NewProject, Project, Lifecycle

LEMMA PhaseOfType == TypeOK => \A m \in Lifecycle : PhaseOf(m) \in Phase
BY DEF TypeOK, PhaseOf, Phase, IDEA, PLANNING, MAINTENANCE

LEMMA PresentType == ASSUME NEW c \in Contents, Present(c) PROVE c \in Project
BY DEF Contents, Present

\* What a handler makes of a configuration is a configuration.
LEMMA ChangedType ==
  ASSUME NEW h \in Handler, NEW c \in Contents, Present(c) \/ h.op = "create",
         NEW d \in Changed(h, c)
  PROVE  d \in Project
<1>1. CASE h.op = "create"
  BY <1>1, NoProjectType DEF Changed
<1>2. CASE h.op = "edit"
  BY <1>2, PresentType, NoProjectType DEF Changed
<1>3. CASE h.op = "create_milestone"
  BY <1>3, PresentType DEF Changed, Project
<1>4. CASE h.op = "start_milestone"
  BY <1>4, PresentType DEF Changed, Project, Handler
<1>5. CASE h.op \notin {"create", "edit", "create_milestone", "start_milestone"}
  BY <1>5, PresentType DEF Changed
<1> QED
  BY <1>1, <1>2, <1>3, <1>4, <1>5

\* A step of one handler leaves the others alone.
LEMMA SetOne ==
  ASSUME NEW r \in Thread, NEW h \in Handler, TypeOK, Set(r, h)
  PROVE  /\ thread' \in [Thread -> Handler]
         /\ thread'[r] = h
         /\ \A q \in Thread \ {r} : thread'[q] = thread[q]
BY DEF Set, TypeOK

LEMMA SetWellFormed ==
  ASSUME NEW r \in Thread, NEW h \in Handler, Typed, Set(r, h), WellFormed(h)
  PROVE  thread' \in [Thread -> Handler] /\ PayloadInv'
<1>1. thread' \in [Thread -> Handler] /\ \A q \in Thread : WellFormed(thread'[q])
  BY SetOne DEF Typed, PayloadInv
<1> QED
  BY <1>1 DEF PayloadInv, WellFormed

LEMMA TypedInit == Init => Typed
<1> SUFFICES ASSUME Init PROVE Typed
  OBVIOUS
<1>1. lifecycle \in [Lifecycle -> Phase \cup {None}]
  BY PhaseAssumption DEF Init
<1>2. \A m \in Lifecycle : PhaseOf(m) \in Phase
  BY <1>1 DEF PhaseOf, Phase, IDEA, PLANNING, MAINTENANCE
<1>3. held \in [Lifecycle -> SUBSET Phase]
  BY <1>2 DEF Init
<1>4. config \in Contents /\ tmp \in Contents \cup {None}
  BY NoProjectType DEF Init, Contents
<1>5. proc \in [Pid -> Supervisor]
  BY DEF Init, Supervisor, Lifecycle
<1>6. thread \in [Thread -> Handler] /\ PayloadInv
  BY IdleType DEF Init, PayloadInv
<1>7. /\ launched \in 0..MaxProc /\ requests \in 0..MaxRequest /\ restarts \in 0..MaxRestart
  BY BoundAssumption DEF Init
<1>9. hidden \subseteq Pid /\ overlapped \in BOOLEAN
  BY DEF Init
<1>8. /\ record \in Pid \cup {None} /\ processes \in Pid \cup {None} /\ lock \in Pid \cup {None}
      /\ process_lock \in Thread \cup {None} /\ lifecycle_lock \in Thread \cup {None}
  BY DEF Init
<1> QED
  BY <1>1, <1>3, <1>4, <1>5, <1>6, <1>7, <1>8, <1>9 DEF Typed, TypeOK

------------------------------------------------------------------------------
(* The parts of the state that the types of an action depend on. *)
DiskTyped ==
  /\ config \in Contents /\ tmp \in Contents \cup {None}
  /\ lifecycle \in [Lifecycle -> Phase \cup {None}] /\ held \in [Lifecycle -> SUBSET Phase]

ProcTyped ==
  /\ proc \in [Pid -> Supervisor] /\ lock \in Pid \cup {None}
  /\ record \in Pid \cup {None} /\ processes \in Pid \cup {None}
  /\ hidden \subseteq Pid /\ launched \in 0..MaxProc

ServerTyped ==
  /\ process_lock \in Thread \cup {None} /\ lifecycle_lock \in Thread \cup {None}
  /\ requests \in 0..MaxRequest /\ restarts \in 0..MaxRestart /\ overlapped \in BOOLEAN
  /\ thread \in [Thread -> Handler] /\ PayloadInv

LEMMA TypedParts == Typed <=> DiskTyped /\ ProcTyped /\ ServerTyped
BY DEF Typed, TypeOK, DiskTyped, ProcTyped, ServerTyped

\* Every step of a handler but Restart and Replace sets one thread to a handler of its type.
LEMMA ReplyTyped == ASSUME Typed, NEW r \in Thread, Reply(r)
  PROVE  /\ thread' \in [Thread -> Handler] /\ PayloadInv'
         /\ lifecycle_lock' \in Thread \cup {None}
BY IdleType, SetWellFormed DEF Reply, Typed, TypeOK

LEMMA NoteTyped == ASSUME Typed, NEW r \in Thread, NoteOverlap(r)
  PROVE  overlapped' \in BOOLEAN
BY DEF NoteOverlap, Typed, TypeOK

LEMMA LaunchTyped == ASSUME Typed, Launch
  PROVE  /\ NewPid \in Pid /\ launched' \in 0..MaxProc /\ launched' = NewPid
         /\ proc' \in [Pid -> Supervisor]
<1>1. NewPid \in Pid /\ launched' \in 0..MaxProc /\ launched' = NewPid
  BY BoundAssumption DEF Launch, NewPid, Pid, Typed, TypeOK
<1>2. proc' \in [Pid -> Supervisor]
  BY ZenonT(60) DEF Launch, Supervisor, Typed, TypeOK
<1> QED
  BY <1>1, <1>2

LEMMA KillTyped == ASSUME Typed, NEW p \in Pid, Kill(p)
  PROVE  proc' \in [Pid -> Supervisor] /\ lock' \in Pid \cup {None}
BY DEF Kill, Supervisor, Typed, TypeOK, Lifecycle

LEMMA SaveTyped ==
  ASSUME Typed, NEW m, NEW phase \in Phase, SaveLifecycle(m, phase)
  PROVE  /\ lifecycle' \in [Lifecycle -> Phase \cup {None}]
         /\ held' \in [Lifecycle -> SUBSET Phase]
BY DEF SaveLifecycle, Typed, TypeOK

(* Each action keeps the types. *)

LEMMA SupervisorsTyped ==
  ASSUME Typed, NEW p \in Pid, LoadConfig(p) \/ TakeLock(p) \/ Advance(p) \/ Exit(p)
  PROVE  Typed'
<1> USE DEF files, supervisors, server, bounds, history
<1>1. CASE LoadConfig(p)
  <2>1. config \in Project /\ config.active \in Lifecycle
    BY <1>1, PresentType DEF LoadConfig, Project, Typed, TypeOK
  <2>2. PhaseOf(config.active) \in Phase
    BY <2>1, PhaseOfType DEF Typed
  <2>3. proc' \in [Pid -> Supervisor]
    BY <1>1, <2>1, <2>2 DEF LoadConfig, Supervisor, Typed, TypeOK
  <2> QED
    BY <1>1, <2>3 DEF LoadConfig, Typed, TypeOK, PayloadInv, WellFormed
<1>2. CASE TakeLock(p)
  <2>1. proc' \in [Pid -> Supervisor]
    BY <1>2 DEF TakeLock, Supervisor, Typed, TypeOK
  <2> QED
    BY <1>2, <2>1 DEF TakeLock, Typed, TypeOK, PayloadInv, WellFormed
<1>3. CASE Advance(p)
  <2>1. proc[p].phase \in Phase \ {MAINTENANCE}
    BY <1>3, PhaseAssumption DEF Advance, CanAdvance
  <2>2. proc[p].phase + 1 \in Phase
    BY <2>1 DEF Phase, IDEA, MAINTENANCE
  <2>3. proc' \in [Pid -> Supervisor]
    BY <1>3, <2>2 DEF Advance, Supervisor, Typed, TypeOK
  <2>4. DiskTyped'
    BY <1>3, <2>2, SaveTyped DEF Advance, DiskTyped, Typed, TypeOK
  <2>5. ProcTyped' /\ ServerTyped'
    BY <1>3, <2>3 DEF Advance, ProcTyped, ServerTyped, Typed, TypeOK, PayloadInv, WellFormed
  <2> QED
    BY <2>4, <2>5 DEF Typed, TypeOK, DiskTyped, ProcTyped, ServerTyped
<1>4. CASE Exit(p)
  BY <1>4, KillTyped DEF Exit, Typed, TypeOK, PayloadInv, WellFormed
<1> QED
  BY <1>1, <1>2, <1>3, <1>4

LEMMA OthersTyped ==
  ASSUME Typed, Poll \/ LaunchFromShell \/ Restart \/ UNCHANGED vars
  PROVE  Typed'
<1> USE DEF files, supervisors, server, bounds, history
<1>1. CASE Poll
  BY <1>1 DEF Poll, Forget, Typed, TypeOK, PayloadInv, WellFormed
<1>2. CASE LaunchFromShell
  BY <1>2, LaunchTyped DEF LaunchFromShell, Typed, TypeOK, PayloadInv, WellFormed
<1>3. CASE Restart
  <2>1. thread' \in [Thread -> Handler] /\ \A r \in Thread : thread'[r] = Idle
    BY <1>3, IdleType DEF Restart
  <2>2. PayloadInv'
    BY <2>1, IdleType DEF PayloadInv, WellFormed
  <2>3. restarts' \in 0..MaxRestart
    BY <1>3, BoundAssumption DEF Restart, Typed, TypeOK
  <2>4. \A r \in Thread : At(r, "persist") => thread[r].pid \in Pid
    BY DEF At, Typed, PayloadInv, WellFormed
  <2> QED
    BY <1>3, <2>1, <2>2, <2>3, <2>4 DEF Restart, Typed, TypeOK
<1>4. CASE UNCHANGED vars
  BY <1>4 DEF vars, Typed, TypeOK, PayloadInv, WellFormed
<1> QED
  BY <1>1, <1>2, <1>3, <1>4

\* A handler that only moves on, to a place that asks nothing of it.
LEMMA MoveTyped ==
  ASSUME NEW h \in Handler, NEW pc \in {"read", "guard", "save", "replace", "terminate"},
         NEW m \in Lifecycle
  PROVE  /\ [h EXCEPT !.pc = pc] \in Handler
         /\ [h EXCEPT !.pc = pc, !.target = m] \in Handler
         /\ (h.op = "start_milestone" => h.target \in Milestone)
              => WellFormed([h EXCEPT !.pc = pc])
         /\ (h.op = "start_milestone" => m \in Milestone)
              => WellFormed([h EXCEPT !.pc = pc, !.target = m])
<1>1. [h EXCEPT !.pc = pc] \in Handler
  BY DEF Handler
<1>2. [h EXCEPT !.pc = pc, !.target = m] \in Handler
  BY DEF Handler
<1>3. /\ [h EXCEPT !.pc = pc].pc = pc /\ [h EXCEPT !.pc = pc].op = h.op
      /\ [h EXCEPT !.pc = pc].target = h.target
  BY DEF Handler
<1>4. /\ [h EXCEPT !.pc = pc, !.target = m].pc = pc /\ [h EXCEPT !.pc = pc, !.target = m].op = h.op
      /\ [h EXCEPT !.pc = pc, !.target = m].target = m
  BY DEF Handler
<1> QED
  BY <1>1, <1>2, <1>3, <1>4 DEF WellFormed

LEMMA CheckTyped == ASSUME Typed, NEW r \in Thread, Check(r) PROVE Typed'
<1> USE DEF files, supervisors, server, bounds, history
<1> DEFINE h == thread[r]
<1>1. h \in Handler /\ WellFormed(h) /\ h.pc = "check"
  BY DEF Check, At, Typed, TypeOK, PayloadInv
<1>2. ASSUME NEW g \in Handler, WellFormed(g), Set(r, g), UNCHANGED lifecycle_lock
      PROVE  thread' \in [Thread -> Handler] /\ PayloadInv' /\ lifecycle_lock' \in Thread \cup {None}
  BY <1>2, SetWellFormed DEF Typed, TypeOK
<1>3. ASSUME Reply(r)
      PROVE  thread' \in [Thread -> Handler] /\ PayloadInv' /\ lifecycle_lock' \in Thread \cup {None}
  BY <1>3, ReplyTyped
<1>4. Running # None => Running \in Pid
  BY DEF Running, Typed, TypeOK
<1>5. Running # None =>
        /\ thread' \in [Thread -> Handler] /\ PayloadInv' /\ lifecycle_lock' \in Thread \cup {None}
        /\ UNCHANGED <<processes, record>>
  <2> SUFFICES ASSUME Running # None
               PROVE  /\ thread' \in [Thread -> Handler] /\ PayloadInv'
                      /\ lifecycle_lock' \in Thread \cup {None} /\ UNCHANGED <<processes, record>>
    OBVIOUS
  <2>1. CASE h.op = "stop"
    <3>1. [h EXCEPT !.pc = "terminate", !.pid = Running] \in Handler
      BY <1>1, <1>4 DEF Handler
    <3>2. WellFormed([h EXCEPT !.pc = "terminate", !.pid = Running])
      BY <1>1 DEF WellFormed, Handler
    <3> QED
      BY <2>1, <3>1, <3>2, <1>2 DEF Check
  <2>2. CASE h.op # "stop"
    BY <2>2, <1>3 DEF Check
  <2> QED
    BY <2>1, <2>2
<1>6. ASSUME AfterCheck(r)
      PROVE  thread' \in [Thread -> Handler] /\ PayloadInv' /\ lifecycle_lock' \in Thread \cup {None}
  <2>1. CASE h.op = "start"
    <3>1. [Idle EXCEPT !.op = "start", !.pc = "spawn"] \in Handler
      BY IdleType, ZenonT(60) DEF Handler
    <3>2. WellFormed([Idle EXCEPT !.op = "start", !.pc = "spawn"])
      BY IdleType DEF WellFormed, Handler
    <3> QED
      BY <2>1, <3>1, <3>2, <1>2, <1>6 DEF AfterCheck
  <2>2. CASE h.op = "lifecycle"
    <3>1. [h EXCEPT !.pc = "save"] \in Handler /\ WellFormed([h EXCEPT !.pc = "save"])
      BY <1>1, <2>2, MoveTyped DEF Lifecycle
    <3> QED
      BY <2>2, <3>1, <1>2, <1>6 DEF AfterCheck, Goto
  <2>3. CASE h.op = "create_milestone"
    <3>1. ASSUME NEW m \in Milestone
          PROVE  /\ [h EXCEPT !.pc = "read", !.target = m] \in Handler
                 /\ WellFormed([h EXCEPT !.pc = "read", !.target = m])
      BY <1>1, <2>3, MoveTyped DEF Lifecycle
    <3> QED
      BY <2>3, <3>1, <1>2, <1>3, <1>6 DEF AfterCheck
  <2>4. CASE h.op = "start_milestone"
    <3>1. ASSUME NEW m \in Milestone
          PROVE  /\ [h EXCEPT !.pc = "guard", !.target = m] \in Handler
                 /\ WellFormed([h EXCEPT !.pc = "guard", !.target = m])
      BY <1>1, MoveTyped DEF Lifecycle
    <3> QED
      BY <2>4, <3>1, <1>2, <1>3, <1>6 DEF AfterCheck
  <2>5. CASE h.op = "edit"
    <3>1. [h EXCEPT !.pc = "open"] \in Handler /\ WellFormed([h EXCEPT !.pc = "open"])
      BY <1>1, <2>5 DEF Handler, WellFormed
    <3> QED
      BY <2>5, <3>1, <1>2, <1>6 DEF AfterCheck, Goto
  <2>6. CASE h.op \notin {"start", "lifecycle", "create_milestone", "start_milestone", "edit"}
    BY <2>6, <1>3, <1>6 DEF AfterCheck
  <2> QED
    BY <2>1, <2>2, <2>3, <2>4, <2>5, <2>6
<1>7. /\ thread' \in [Thread -> Handler] /\ PayloadInv' /\ lifecycle_lock' \in Thread \cup {None}
      /\ record' \in Pid \cup {None} /\ processes' \in Pid \cup {None}
  BY <1>5, <1>6 DEF Check, Forget, Typed, TypeOK
<1> QED
  BY <1>7 DEF Check, Typed, TypeOK

LEMMA ProcessTyped ==
  ASSUME Typed, NEW r \in Thread,
         Receive(r) \/ Spawn(r) \/ SpawnRefused(r) \/ Persist(r) \/ Terminate(r)
  PROVE  Typed'
<1> USE DEF files, supervisors, server, bounds, history
<1>1. CASE Receive(r)
  <2>1. PICK op \in Operation : Set(r, [Idle EXCEPT !.op = op, !.pc = FirstStep(op)])
    BY <1>1 DEF Receive
  <2>2. /\ FirstStep(op) \in {"check", "read", "load"}
        /\ op = "edit" => FirstStep(op) = "read"
        /\ op = "start_milestone" => FirstStep(op) = "load"
    BY DEF FirstStep
  <2> DEFINE g == [Idle EXCEPT !.op = op, !.pc = FirstStep(op)]
  <2>3. g \in Handler /\ g.op = op /\ g.pc = FirstStep(op)
    BY <2>2 DEF Handler, Idle, Lifecycle
  <2>4. WellFormed(g)
    <3> HIDE DEF g
    <3> QED
      BY <2>2, <2>3 DEF WellFormed
  <2>5. requests' \in 0..MaxRequest
    <3>1. requests' = requests + 1 /\ requests < MaxRequest
      BY <1>1 DEF Receive
    <3> QED
      BY <3>1, BoundAssumption DEF Typed, TypeOK
  <2> QED
    BY <1>1, <2>1, <2>3, <2>4, <2>5, SetWellFormed DEF Receive, Typed, TypeOK
<1>2. CASE Spawn(r)
  <2> DEFINE g == [Idle EXCEPT !.op = "start", !.pc = "persist", !.pid = NewPid]
  <2>1. NewPid \in Pid /\ launched' \in 0..MaxProc /\ proc' \in [Pid -> Supervisor]
    BY <1>2, LaunchTyped DEF Spawn
  <2>2. g \in Handler /\ g.pc = "persist" /\ g.pid = NewPid
    <3>1. g \in Handler
      BY <2>1, IdleType, ZenonT(60) DEF Handler
    <3>2. g.pc = "persist" /\ g.pid = NewPid
      BY IdleType DEF Handler
    <3> QED
      BY <3>1, <3>2
  <2>3. WellFormed(g)
    BY <2>1, <2>2 DEF WellFormed
  <2>4. thread' \in [Thread -> Handler] /\ PayloadInv'
    BY <1>2, <2>2, <2>3, SetWellFormed DEF Spawn
  <2>5. hidden' \subseteq Pid
    BY <1>2 DEF Spawn, Alive, Typed, TypeOK
  <2> QED
    BY <1>2, <2>1, <2>4, <2>5 DEF Spawn, Typed, TypeOK
<1>3. CASE SpawnRefused(r)
  BY <1>3, ReplyTyped DEF SpawnRefused, Typed, TypeOK
<1>4. CASE Persist(r)
  <2>1. thread[r].pid \in Pid
    BY <1>4 DEF Persist, At, Typed, PayloadInv, WellFormed
  <2> QED
    BY <1>4, <2>1, ReplyTyped DEF Persist, Typed, TypeOK
<1>5. CASE Terminate(r)
  <2>1. thread' \in [Thread -> Handler] /\ PayloadInv' /\ lifecycle_lock' \in Thread \cup {None}
    BY <1>5, ReplyTyped DEF Terminate
  <2>2. ASSUME NEW p \in Pid \cup {None}, Alive(p), Kill(p)
        PROVE  proc' \in [Pid -> Supervisor] /\ lock' \in Pid \cup {None}
    BY <2>2, KillTyped DEF Alive
  <2>3. thread[r].pid \in Pid \cup {None}
    BY DEF Typed, TypeOK, Handler
  <2>4. /\ proc' \in [Pid -> Supervisor] /\ lock' \in Pid \cup {None}
        /\ record' \in Pid \cup {None} /\ processes' \in Pid \cup {None}
    BY <1>5, <2>2, <2>3 DEF Terminate, Forget, Typed, TypeOK
  <2> QED
    BY <1>5, <2>1, <2>4 DEF Terminate, Typed, TypeOK
<1> QED
  BY <1>1, <1>2, <1>3, <1>4, <1>5

LEMMA ReadingTyped ==
  ASSUME Typed, NEW r \in Thread, Load(r) \/ Guard(r) \/ Read(r) \/ Refuse(r)
  PROVE  Typed'
<1> USE DEF files, supervisors, server, bounds, history
<1> DEFINE h == thread[r]
<1>0. h \in Handler /\ WellFormed(h)
  BY DEF Typed, TypeOK, PayloadInv
<1>1. CASE Load(r)
  <2>1. CASE Loads(config) /\ Present(config)
    <3> DEFINE g == [h EXCEPT !.pc = "check", !.seen = config, !.phase = PhaseOf(config.active)]
    <3>1. config \in Project /\ PhaseOf(config.active) \in Phase
      BY <2>1, PresentType, PhaseOfType DEF Project, Typed, TypeOK
    <3>2. g \in Handler /\ g.pc = "check" /\ g.op = h.op
      BY <1>0, <3>1 DEF Handler
    <3>3. WellFormed(g)
      BY <1>0, <1>1, <3>2 DEF WellFormed, Load, At
    <3>4. thread' \in [Thread -> Handler] /\ PayloadInv' /\ lifecycle_lock' \in Thread \cup {None}
      BY <1>1, <2>1, <3>2, <3>3, SetWellFormed DEF Load, Typed, TypeOK
    <3> QED
      BY <1>1, <3>4, NoteTyped DEF Load, Typed, TypeOK
  <2>2. CASE ~ (Loads(config) /\ Present(config))
    BY <1>1, <2>2, ReplyTyped, NoteTyped DEF Load, Typed, TypeOK
  <2> QED
    BY <2>1, <2>2
<1>2. CASE Guard(r)
  <2>1. [h EXCEPT !.pc = "read"] \in Handler /\ WellFormed([h EXCEPT !.pc = "read"])
    BY <1>0, <1>2, MoveTyped DEF Guard, At, WellFormed, Lifecycle
  <2>2. thread' \in [Thread -> Handler] /\ PayloadInv' /\ lifecycle_lock' \in Thread \cup {None}
    BY <1>2, <2>1, ReplyTyped, SetWellFormed DEF Guard, Goto, Typed, TypeOK
  <2> QED
    BY <1>2, <2>2 DEF Guard, Typed, TypeOK
<1>3. CASE Read(r)
  <2>1. ASSUME Present(config) <=> h.op # "create",
               NEW c \in Changed(h, config),
               Set(r, [h EXCEPT !.payload = c, !.pc = IF h.op = "edit" THEN "check" ELSE "open"])
        PROVE  thread' \in [Thread -> Handler] /\ PayloadInv'
    <3>0. PICK pc \in {"check", "open"} : pc = IF h.op = "edit" THEN "check" ELSE "open"
      OBVIOUS
    <3> DEFINE g == [h EXCEPT !.payload = c, !.pc = pc]
    <3>1. c \in Project
      BY <1>0, <2>1, ChangedType DEF Typed, TypeOK
    <3>2. g \in Handler /\ g.payload = c /\ g.pc = pc /\ g.op = h.op /\ g.target = h.target
      <4>1. g \in Handler
        BY <1>0, <3>1, ZenonT(60) DEF Handler
      <4>2. g.payload = c /\ g.pc = pc /\ g.op = h.op /\ g.target = h.target
        BY <1>0 DEF Handler
      <4> QED
        BY <4>1, <4>2
    <3>3. WellFormed(g)
      BY <1>0, <1>3, <3>1, <3>2 DEF WellFormed, Read, At
    <3> QED
      BY <2>1, <3>0, <3>2, <3>3, SetWellFormed
  <2>2. thread' \in [Thread -> Handler] /\ PayloadInv' /\ lifecycle_lock' \in Thread \cup {None}
    BY <1>3, <2>1, ReplyTyped DEF Read, Typed, TypeOK
  <2> QED
    BY <1>3, <2>2, NoteTyped DEF Read, Typed, TypeOK
<1>4. CASE Refuse(r)
  BY <1>4, ReplyTyped DEF Refuse, Typed, TypeOK
<1> QED
  BY <1>1, <1>2, <1>3, <1>4

LEMMA WritingTyped ==
  ASSUME Typed, NEW r \in Thread,
         Open(r) \/ Write(r) \/ Replace(r) \/ UpdateLifecycle(r) \/ SaveFirstPhase(r)
  PROVE  Typed'
<1> USE DEF files, supervisors, server, bounds, history
<1> DEFINE h == thread[r]
<1>0. h \in Handler /\ WellFormed(h)
  BY DEF Typed, TypeOK, PayloadInv
<1>1. CASE Open(r)
  <2> DEFINE g == [h EXCEPT !.pc = "write", !.handle = "tmp"]
  <2>1. /\ g \in Handler /\ g.pc = "write" /\ g.payload = h.payload
        /\ g.op = h.op /\ g.target = h.target
    <3>1. g \in Handler
      BY <1>0, ZenonT(60) DEF Handler
    <3>2. g.pc = "write" /\ g.payload = h.payload /\ g.op = h.op /\ g.target = h.target
      BY <1>0 DEF Handler
    <3> QED
      BY <3>1, <3>2
  <2>2. WellFormed(g)
    BY <1>0, <1>1, <2>1 DEF WellFormed, Open, At
  <2>3. thread' \in [Thread -> Handler] /\ PayloadInv'
    BY <1>1, <2>1, <2>2, SetWellFormed DEF Open
  <2> QED
    BY <1>1, <2>3 DEF Open, Typed, TypeOK, Contents
<1>2. CASE Write(r)
  <2> DEFINE g == [h EXCEPT !.pc = "replace", !.payload = None, !.handle = "none"]
  <2>1. g \in Handler /\ g.pc = "replace" /\ g.op = h.op /\ g.target = h.target
    <3>1. g \in Handler
      BY <1>0, ZenonT(60) DEF Handler
    <3>2. g.pc = "replace" /\ g.op = h.op /\ g.target = h.target
      BY <1>0 DEF Handler
    <3> QED
      BY <3>1, <3>2
  <2>2. WellFormed(g)
    BY <1>0, <1>2, <2>1 DEF WellFormed, Write, At
  <2>3. thread' \in [Thread -> Handler] /\ PayloadInv'
    BY <1>2, <2>1, <2>2, SetWellFormed DEF Write
  <2>4. h.payload \in Contents /\ Torn \in Contents
    BY <1>0, <1>2 DEF Write, At, WellFormed, Contents
  <2>5. config' \in Contents /\ tmp' \in Contents \cup {None}
    BY <1>2, <2>4 DEF Write, Typed, TypeOK
  <2> QED
    BY <1>2, <2>3, <2>5 DEF Write, Typed, TypeOK
<1>3. CASE Replace(r)
  <2>1. PICK g \in (IF tmp = None THEN {Idle} ELSE AfterReplace(h)) :
          /\ thread' = [q \in Thread |->
                          IF q = r THEN g
                          ELSE IF tmp = None THEN thread[q]
                          ELSE [thread[q] EXCEPT !.handle = Renamed(@)]]
          /\ lifecycle_lock' = IF lifecycle_lock = r THEN None ELSE lifecycle_lock
    BY <1>3 DEF Replace
  <2>2. g \in Handler /\ WellFormed(g)
    <3>1. ASSUME NEW pc \in {"save", "load"}, NEW op \in Operation \cup {"start_milestone"},
                 pc = "load" => op = "start_milestone",
                 pc = "save" /\ op = "start_milestone" => h.target \in Milestone
          PROVE  /\ [Idle EXCEPT !.op = op, !.pc = pc, !.target = h.target] \in Handler
                 /\ WellFormed([Idle EXCEPT !.op = op, !.pc = pc, !.target = h.target])
      <4> DEFINE f == [Idle EXCEPT !.op = op, !.pc = pc, !.target = h.target]
      <4>1. f \in Handler /\ f.pc = pc /\ f.op = op /\ f.target = h.target
        <5>1. h.target \in Lifecycle
          BY <1>0 DEF Handler
        <5>2. f \in Handler
          BY <5>1 DEF Handler, Idle
        <5>3. f.pc = pc /\ f.op = op /\ f.target = h.target
          BY DEF Idle
        <5> QED
          BY <5>2, <5>3
      <4>2. WellFormed(f)
        <5> HIDE DEF f
        <5> QED
          BY <3>1, <4>1 DEF WellFormed
      <4> QED
        BY <4>1, <4>2
    <3>2. h.op \in {"create", "start_milestone"} => h.op \in Operation \cup {"start_milestone"}
      BY <1>0 DEF Handler
    <3>3. h.op = "start_milestone" => h.target \in Milestone
      BY <1>0, <1>3 DEF WellFormed, Replace, At
    <3> QED
      BY <2>1, <3>1, <3>2, <3>3, IdleType DEF AfterReplace
  <2>3. ASSUME NEW q \in Thread PROVE thread'[q] \in Handler /\ WellFormed(thread'[q])
    <3> DEFINE f == [thread[q] EXCEPT !.handle = Renamed(@)]
    <3>1. thread[q] \in Handler /\ WellFormed(thread[q])
      BY DEF Typed, TypeOK, PayloadInv
    <3>2. Renamed(thread[q].handle) \in {"none", "tmp", "config", "unlinked"}
      BY <3>1 DEF Renamed, Handler
    <3>3. /\ f \in Handler /\ f.pc = thread[q].pc /\ f.op = thread[q].op
          /\ f.payload = thread[q].payload /\ f.pid = thread[q].pid
          /\ f.target = thread[q].target
      BY <3>1, <3>2 DEF Handler
    <3>4. WellFormed(f)
      BY <3>1, <3>3 DEF WellFormed
    <3> QED
      BY <2>1, <2>2, <3>1, <3>3, <3>4
  <2>4. thread' \in [Thread -> Handler]
    BY <2>1, <2>3
  <2>5. PayloadInv'
    BY <2>3 DEF PayloadInv, WellFormed
  <2>6. config' \in Contents /\ tmp' \in Contents \cup {None}
    BY <1>3 DEF Replace, Typed, TypeOK
  <2> QED
    BY <1>3, <2>1, <2>4, <2>5, <2>6 DEF Replace, Typed, TypeOK
<1>4. CASE UpdateLifecycle(r)
  <2>1. PICK target \in Phase, notes \in BOOLEAN :
          /\ SaveLifecycle(thread[r].seen.active, target)
          /\ IF notes THEN Goto(r, "read") /\ UNCHANGED lifecycle_lock ELSE Reply(r)
    BY <1>4 DEF UpdateLifecycle
  <2>2. [h EXCEPT !.pc = "read"] \in Handler /\ WellFormed([h EXCEPT !.pc = "read"])
    BY <1>0, <1>4, MoveTyped DEF UpdateLifecycle, Lifecycle
  <2>3. thread' \in [Thread -> Handler] /\ PayloadInv' /\ lifecycle_lock' \in Thread \cup {None}
    BY <2>1, <2>2, ReplyTyped, SetWellFormed DEF Goto, Typed, TypeOK
  <2>4. DiskTyped'
    BY <1>4, <2>1, SaveTyped DEF UpdateLifecycle, DiskTyped, Typed, TypeOK
  <2> QED
    BY <1>4, <2>3, <2>4 DEF UpdateLifecycle, DiskTyped, Typed, TypeOK
<1>5. CASE SaveFirstPhase(r)
  <2>1. PICK m \in Lifecycle, phase \in Phase : SaveLifecycle(m, phase)
    <3>1. None \in Lifecycle /\ h.target \in Lifecycle
      BY <1>0 DEF Handler, Lifecycle
    <3>2. {BRAINSTORM, DOCUMENTATION, PLANNING} \subseteq Phase
      BY DEF Phase, IDEA, BRAINSTORM, DOCUMENTATION, PLANNING, MAINTENANCE
    <3> QED
      BY <1>5, <3>1, <3>2 DEF SaveFirstPhase
  <2>2. DiskTyped'
    BY <1>5, <2>1, SaveTyped DEF SaveFirstPhase, DiskTyped, Typed, TypeOK
  <2> QED
    BY <1>5, <2>2, ReplyTyped DEF SaveFirstPhase, DiskTyped, Typed, TypeOK
<1> QED
  BY <1>1, <1>2, <1>3, <1>4, <1>5

LEMMA TypedStep == Typed /\ [Next]_vars => Typed'
BY SupervisorsTyped, OthersTyped, CheckTyped, ProcessTyped, ReadingTyped, WritingTyped
   DEF Next, Handle

LEMMA TypedInvariant == Spec => []Typed
BY TypedInit, TypedStep, PTL DEF Spec

\* The configuration, the lifecycle files, the processes and the variables of the
\* handlers keep their types: in particular a handler never writes something it has not
\* read or made, and never records a process it has not started.
THEOREM DashboardTypes == Spec => []TypeOK
<1>1. Typed => TypeOK
  BY DEF Typed
<1> QED
  BY <1>1, TypedInvariant, PTL

------------------------------------------------------------------------------
(* One worker. *)

LEMMA NoneIsNoPid == None \notin Pid
BY NameAssumption, BoundAssumption DEF Pid

LEMMA LaunchKeepsOne == ASSUME Typed, OneWorker, Launch, lock' = lock PROVE OneWorker'
BY LaunchTyped DEF Launch, OneWorker, Typed, TypeOK, Supervisor

LEMMA KillKeepsOne == ASSUME Typed, OneWorker, NEW p \in Pid, Kill(p) PROVE OneWorker'
<1>1. \A q \in Pid : proc'[q].state = "working" => q # p /\ proc[q].state = "working"
  BY DEF Kill, Typed, TypeOK, Supervisor
<1> QED
  BY <1>1 DEF Kill, OneWorker

LEMMA OneWorkerStep ==
  ASSUME Typed, OneWorker, [Next]_vars
  PROVE  OneWorker'
<1> USE DEF files, supervisors, server, bounds, history
<1>1. CASE \E p \in Pid : LoadConfig(p)
  BY <1>1 DEF LoadConfig, OneWorker, Typed, TypeOK, Supervisor
<1>2. CASE \E p \in Pid : TakeLock(p)
  BY <1>2, NoneIsNoPid DEF TakeLock, OneWorker, Typed, TypeOK, Supervisor
<1>3. CASE \E p \in Pid : Advance(p)
  BY <1>3 DEF Advance, OneWorker, Typed, TypeOK, Supervisor
<1>4. CASE \E p \in Pid : Exit(p)
  BY <1>4, KillKeepsOne DEF Exit
<1>5. CASE \E r \in Thread : Spawn(r)
  BY <1>5, LaunchKeepsOne DEF Spawn
<1>6. CASE \E r \in Thread : Terminate(r)
  <2> PICK r \in Thread : Terminate(r)
    BY <1>6
  <2>1. thread[r].pid \in Pid \cup {None} /\ processes \in Pid \cup {None}
    BY DEF Typed, TypeOK, Handler
  <2>2. (\E p \in Pid : Kill(p)) \/ UNCHANGED supervisors
    BY <2>1 DEF Terminate, Alive
  <2> QED
    BY <2>2, KillKeepsOne DEF OneWorker
<1>7. CASE LaunchFromShell
  BY <1>7, LaunchKeepsOne DEF LaunchFromShell
<1>8. CASE UNCHANGED supervisors
  BY <1>8 DEF OneWorker
<1>9. ASSUME NEW r \in Thread, Receive(r) \/ Handle(r)
      PROVE  Spawn(r) \/ Terminate(r) \/ UNCHANGED supervisors
  BY <1>9 DEF Handle, Receive, Load, Check, SpawnRefused, Persist, Guard, Read, Refuse, Open, Write,
              Replace, UpdateLifecycle, SaveFirstPhase
<1>10. Poll \/ Restart \/ UNCHANGED vars => UNCHANGED supervisors
  BY DEF Poll, Restart, vars
<1> QED
  BY <1>1, <1>2, <1>3, <1>4, <1>5, <1>6, <1>7, <1>8, <1>9, <1>10 DEF Next

\* However many supervisors are started, by overlapping requests and from the shell, only
\* the holder of supervisor.lock works.
THEOREM WorkerIsAlone == Spec => []OneWorker
<1>1. Init => OneWorker
  BY DEF Init, OneWorker
<1>2. Typed /\ OneWorker /\ [Next]_vars => OneWorker'
  BY OneWorkerStep
<1> QED
  BY <1>1, <1>2, TypedInvariant, PTL DEF Spec

------------------------------------------------------------------------------
(* The locks. *)

\* A step of one handler moves no other; it renames at most the file they write to.
LEMMA OthersStay ==
  ASSUME Typed, NEW r \in Thread, Receive(r) \/ Handle(r), NEW q \in Thread \ {r}
  PROVE  /\ thread'[q].pc = thread[q].pc /\ thread'[q].op = thread[q].op
         /\ thread'[q].pid = thread[q].pid
         /\ thread'[q].seen = thread[q].seen /\ thread'[q].target = thread[q].target
         /\ thread'[q].payload = thread[q].payload
         /\ ~ Replace(r) => thread'[q].handle = thread[q].handle
<1> USE DEF Typed, TypeOK
<1>1. ASSUME NEW h, Set(r, h) PROVE thread'[q] = thread[q]
  BY <1>1 DEF Set
<1>2. ASSUME Reply(r) PROVE thread'[q] = thread[q]
  BY <1>1, <1>2 DEF Reply
<1>3. CASE Replace(r)
  <2>1. thread[q] \in Handler
    OBVIOUS
  <2>2. thread'[q] = thread[q] \/ thread'[q] = [thread[q] EXCEPT !.handle = Renamed(@)]
    BY <1>3 DEF Replace
  <2> QED
    BY <1>3, <2>1, <2>2 DEF Handler
<1>4. CASE Receive(r) \/ Load(r) \/ Spawn(r) \/ SpawnRefused(r) \/ Persist(r) \/ Terminate(r)
  BY <1>1, <1>2, <1>4 DEF Receive, Load, Spawn, SpawnRefused, Persist, Terminate
<1>5. CASE Guard(r) \/ Read(r) \/ Refuse(r) \/ Open(r) \/ Write(r) \/ UpdateLifecycle(r)
           \/ SaveFirstPhase(r)
  BY <1>1, <1>2, <1>5
     DEF Guard, Read, Refuse, Open, Write, UpdateLifecycle, SaveFirstPhase, Goto
<1>6. CASE Check(r)
  BY <1>1, <1>2, <1>6 DEF Check, AfterCheck, Goto
<1> QED
  BY <1>3, <1>4, <1>5, <1>6 DEF Handle

\* _lifecycle_lock is held by a request under way that needs no lock but _process_lock.
Updating(r) ==
  /\ thread[r].op = "lifecycle"
  /\ thread[r].pc \in {"check", "save", "read", "open", "write", "replace"}

LifecycleLockInv == lifecycle_lock # None => Updating(lifecycle_lock)

LEMMA LifecycleLockStep ==
  ASSUME Typed, LifecycleLockInv, [Next]_vars
  PROVE  LifecycleLockInv'
<1> USE DEF files, supervisors, server, bounds, history
<1>1. ASSUME UNCHANGED <<thread, lifecycle_lock>> PROVE LifecycleLockInv'
  BY <1>1 DEF LifecycleLockInv, Updating
<1>2. CASE Restart
  BY <1>2 DEF Restart, LifecycleLockInv
<1>3. ASSUME NEW r \in Thread, Receive(r) \/ Handle(r) PROVE LifecycleLockInv'
  <2>1. r \in Thread /\ thread[r] \in Handler /\ lifecycle_lock \in Thread \cup {None}
    BY DEF Typed, TypeOK
  <2>2. ASSUME lifecycle_lock' = lifecycle_lock, lifecycle_lock # r PROVE LifecycleLockInv'
    BY <1>3, <2>1, <2>2, OthersStay DEF LifecycleLockInv, Updating
  <2>3. ASSUME Reply(r) PROVE LifecycleLockInv'
    BY <1>3, <2>1, <2>3, OthersStay DEF LifecycleLockInv, Updating, Reply
  <2>4. ASSUME lifecycle_lock' = lifecycle_lock, Updating(r), thread'[r].op = "lifecycle",
               thread'[r].pc \in {"check", "save", "read", "open", "write", "replace"}
        PROVE  LifecycleLockInv'
    BY <1>3, <2>1, <2>4, OthersStay DEF LifecycleLockInv, Updating
  <2>5. ASSUME NEW pc, [thread[r] EXCEPT !.pc = pc] \in Handler, Goto(r, pc)
        PROVE  thread'[r].op = thread[r].op /\ thread'[r].pc = pc
    BY <2>1, <2>5 DEF Goto, Set, Handler, Typed, TypeOK
  <2>6. CASE Load(r)
    <3> DEFINE g == [thread[r] EXCEPT !.pc = "check", !.seen = config, !.phase = PhaseOf(config.active)]
    <3>1. CASE Loads(config) /\ Present(config)
      <4>1. thread'[r] = g /\ lifecycle_lock' = IF thread[r].op = "lifecycle" THEN r ELSE lifecycle_lock
        BY <2>6, <3>1 DEF Load, Set, Typed, TypeOK
      <4>2. g.pc = "check" /\ g.op = thread[r].op
        BY <2>1 DEF Handler
      <4>3. lifecycle_lock # r
        BY <2>6, NameAssumption DEF Load, At, LifecycleLockInv, Updating
      <4>4. CASE thread[r].op = "lifecycle"
        BY <4>1, <4>2, <4>4 DEF LifecycleLockInv, Updating
      <4> QED
        BY <2>2, <4>1, <4>3, <4>4
    <3> QED
      BY <2>3, <2>6, <3>1 DEF Load
  <2>7. CASE Check(r)
    <3>1. CASE lifecycle_lock = r
      <4>1. Updating(r)
        BY <2>7, <3>1, NameAssumption DEF LifecycleLockInv
      <4>2. Reply(r) \/ (Goto(r, "save") /\ UNCHANGED lifecycle_lock)
        BY <2>7, <4>1 DEF Check, AfterCheck, Updating
      <4>3. [thread[r] EXCEPT !.pc = "save"] \in Handler
        BY <2>1 DEF Handler
      <4> QED
        BY <2>3, <2>4, <2>5, <4>1, <4>2, <4>3 DEF Updating
    <3>2. Reply(r) \/ UNCHANGED lifecycle_lock
      BY <2>7 DEF Check, AfterCheck
    <3> QED
      BY <2>2, <2>3, <3>1, <3>2
  <2>8. CASE Read(r)
    <3>1. CASE Reply(r)
      BY <2>3, <3>1
    <3>2. CASE lifecycle_lock = r /\ ~ Reply(r)
      <4>1. Updating(r)
        BY <2>8, <3>2, NameAssumption DEF LifecycleLockInv
      <4>2. PICK c : Set(r, [thread[r] EXCEPT !.payload = c, !.pc = "open"])
        BY <2>8, <3>2, <4>1 DEF Read, Updating
      <4>3. thread'[r] = [thread[r] EXCEPT !.payload = c, !.pc = "open"]
        BY <4>2 DEF Set, Typed, TypeOK
      <4>4. thread'[r].op = "lifecycle" /\ thread'[r].pc = "open"
        BY <2>1, <4>1, <4>3 DEF Handler, Updating
      <4> QED
        BY <2>4, <2>8, <3>2, <4>1, <4>4 DEF Read
    <3> QED
      BY <2>2, <2>8, <3>1, <3>2 DEF Read
  <2>9. CASE UpdateLifecycle(r)
    <3>1. Reply(r) \/ (Goto(r, "read") /\ UNCHANGED lifecycle_lock)
      BY <2>9 DEF UpdateLifecycle
    <3>2. [thread[r] EXCEPT !.pc = "read"] \in Handler
      BY <2>1 DEF Handler
    <3>3. Updating(r)
      BY <2>9 DEF UpdateLifecycle, Updating, At
    <3> QED
      BY <2>3, <2>4, <2>5, <3>1, <3>2, <3>3 DEF Updating
  <2>10. CASE Open(r) \/ Write(r)
    <3>1. /\ thread'[r].op = thread[r].op /\ thread'[r].pc \in {"write", "replace"}
          /\ thread[r].pc \in {"open", "write"} /\ lifecycle_lock' = lifecycle_lock
      <4>1. \/ thread'[r] = [thread[r] EXCEPT !.pc = "write", !.handle = "tmp"]
            \/ thread'[r] = [thread[r] EXCEPT !.pc = "replace", !.payload = None, !.handle = "none"]
        BY <2>1, <2>10 DEF Open, Write, Set, Typed, TypeOK
      <4>2. thread[r].pc \in {"open", "write"} /\ lifecycle_lock' = lifecycle_lock
        BY <2>10 DEF Open, Write, At
      <4> QED
        BY <2>1, <4>1, <4>2 DEF Handler
    <3>2. CASE thread[r].op = "lifecycle"
      BY <2>4, <3>1, <3>2 DEF Updating
    <3>3. CASE thread[r].op # "lifecycle"
      BY <2>2, <3>1, <3>3, NameAssumption DEF LifecycleLockInv, Updating
    <3> QED
      BY <3>2, <3>3
  <2>11. CASE Replace(r)
    <3>1. lifecycle_lock' = IF lifecycle_lock = r THEN None ELSE lifecycle_lock
      BY <2>11 DEF Replace
    <3> QED
      BY <1>3, <2>1, <3>1, OthersStay DEF LifecycleLockInv, Updating
  <2>12. CASE Receive(r) \/ Spawn(r) \/ Guard(r)
    <3>1. lifecycle_lock # r
      BY <2>12, NameAssumption DEF Receive, Spawn, Guard, At, LifecycleLockInv, Updating
    <3>2. Reply(r) \/ UNCHANGED lifecycle_lock
      BY <2>12 DEF Receive, Spawn, Guard
    <3> QED
      BY <2>2, <2>3, <3>1, <3>2
  <2>13. CASE SpawnRefused(r) \/ Persist(r) \/ Terminate(r) \/ Refuse(r) \/ SaveFirstPhase(r)
    BY <2>3, <2>13 DEF SpawnRefused, Persist, Terminate, Refuse, SaveFirstPhase
  <2> QED
    BY <1>3, <2>6, <2>7, <2>8, <2>9, <2>10, <2>11, <2>12, <2>13 DEF Handle
<1> QED
  BY <1>1, <1>2, <1>3 DEF Next, vars, LoadConfig, TakeLock, Advance, Exit, Poll, LaunchFromShell

\* _process_lock outlives a step only between Popen and the recording of its process.
ProcessLockInv ==
  /\ process_lock # None => At(process_lock, "persist")
  /\ \A r \in Thread : At(r, "persist") => process_lock = r /\ processes = thread[r].pid

\* A handler that has replaced the configuration has forgotten what it read.
LEMMA ReplacedIsIdle ==
  ASSUME NEW h, NEW g \in AfterReplace(h)
  PROVE  \/ g = Idle
         \/ g = [Idle EXCEPT !.op = h.op, !.pc = "save", !.target = h.target]
         \/ g = [Idle EXCEPT !.op = "start_milestone", !.pc = "load", !.target = h.target]
<1>1. CASE h.op \in {"create", "start_milestone"}
  BY <1>1 DEF AfterReplace
<1>2. CASE h.op = "create_milestone"
  BY <1>2 DEF AfterReplace
<1>3. CASE h.op \notin {"create", "start_milestone", "create_milestone"}
  BY <1>3 DEF AfterReplace
<1> QED
  BY <1>1, <1>2, <1>3

\* Where a handler goes, as far as the processes are concerned.
LEMMA Moves ==
  ASSUME Typed, NEW r \in Thread, Receive(r) \/ Handle(r)
  PROVE  /\ thread'[r].pc = "persist" => Spawn(r)
         /\ thread'[r].pc \in {"spawn", "terminate"} => Check(r)
<1>0. thread \in [Thread -> Handler] /\ thread[r] \in Handler
  BY DEF Typed, TypeOK
<1>1. ASSUME Reply(r) PROVE thread'[r].pc = "idle"
  BY <1>0, <1>1, IdleType DEF Reply, Set, Idle
<1>2. ASSUME NEW pc, Goto(r, pc) PROVE thread'[r].pc = pc
  BY <1>0, <1>2 DEF Goto, Set, Handler
<1>3. CASE Receive(r)
  <2>1. PICK op \in Operation : Set(r, [Idle EXCEPT !.op = op, !.pc = FirstStep(op)])
    BY <1>3 DEF Receive
  <2>2. thread'[r].pc = FirstStep(op)
    BY <1>0, <2>1 DEF Set, Idle
  <2> QED
    BY <2>2 DEF FirstStep
<1>4. CASE Load(r)
  <2>1. \/ Reply(r)
        \/ Set(r, [thread[r] EXCEPT !.pc = "check", !.seen = config, !.phase = PhaseOf(config.active)])
    BY <1>4 DEF Load
  <2>2. ASSUME Set(r, [thread[r] EXCEPT !.pc = "check", !.seen = config, !.phase = PhaseOf(config.active)])
        PROVE  thread'[r].pc = "check"
    BY <1>0, <2>2 DEF Set, Handler
  <2> QED
    BY <1>1, <2>1, <2>2
<1>5. CASE Check(r)
  <2>1. CASE Running # None
    <3>1. Reply(r) \/ Set(r, [thread[r] EXCEPT !.pc = "terminate", !.pid = Running])
      BY <1>5, <2>1 DEF Check
    <3>2. ASSUME Set(r, [thread[r] EXCEPT !.pc = "terminate", !.pid = Running])
          PROVE  thread'[r].pc = "terminate"
      BY <1>0, <3>2 DEF Set, Handler
    <3> QED
      BY <1>1, <1>5, <3>1, <3>2
  <2>2. CASE Running = None
    <3>1. \/ Reply(r) \/ Goto(r, "save") \/ Goto(r, "open")
          \/ Set(r, [Idle EXCEPT !.op = "start", !.pc = "spawn"])
          \/ \E m \in Milestone : \/ Set(r, [thread[r] EXCEPT !.pc = "read", !.target = m])
                                 \/ Set(r, [thread[r] EXCEPT !.pc = "guard", !.target = m])
      BY <1>5, <2>2 DEF Check, AfterCheck
    <3>2. ASSUME Set(r, [Idle EXCEPT !.op = "start", !.pc = "spawn"]) PROVE thread'[r].pc = "spawn"
      BY <1>0, <3>2 DEF Set, Idle
    <3>3. ASSUME NEW m, NEW pc \in {"read", "guard"}, Set(r, [thread[r] EXCEPT !.pc = pc, !.target = m])
          PROVE thread'[r].pc = pc
      BY <1>0, <3>3 DEF Set, Handler
    <3>4. thread'[r].pc # "persist"
      BY <1>1, <1>2, <3>1, <3>2, <3>3
    <3> QED
      BY <1>5, <3>4
  <2> QED
    BY <2>1, <2>2
<1>6. CASE Spawn(r)
  BY <1>0, <1>6 DEF Spawn, Set, Idle
<1>7. CASE SpawnRefused(r) \/ Persist(r) \/ Terminate(r) \/ Refuse(r) \/ SaveFirstPhase(r)
  BY <1>1, <1>7 DEF SpawnRefused, Persist, Terminate, Refuse, SaveFirstPhase
<1>8. CASE Guard(r) \/ UpdateLifecycle(r)
  BY <1>1, <1>2, <1>8 DEF Guard, UpdateLifecycle
<1>9. CASE Read(r)
  <2>1. ASSUME NEW c, Set(r, [thread[r] EXCEPT !.payload = c,
                                               !.pc = IF thread[r].op = "edit" THEN "check" ELSE "open"])
        PROVE  thread'[r].pc \in {"check", "open"}
    BY <1>0, <2>1 DEF Set, Handler
  <2> QED
    BY <1>1, <1>9, <2>1 DEF Read
<1>10. CASE Open(r) \/ Write(r)
  <2>1. \/ thread'[r] = [thread[r] EXCEPT !.pc = "write", !.handle = "tmp"]
        \/ thread'[r] = [thread[r] EXCEPT !.pc = "replace", !.payload = None, !.handle = "none"]
    BY <1>0, <1>10 DEF Open, Write, Set
  <2> QED
    BY <1>0, <2>1 DEF Handler
<1>11. CASE Replace(r)
  <2>1. thread'[r] = Idle \/ thread'[r] \in AfterReplace(thread[r])
    BY <1>0, <1>11 DEF Replace
  <2>2. ASSUME NEW g \in AfterReplace(thread[r]) PROVE g.pc \in {"idle", "save", "load"}
    <3>1. \/ g = Idle
          \/ g = [Idle EXCEPT !.op = thread[r].op, !.pc = "save", !.target = thread[r].target]
          \/ g = [Idle EXCEPT !.op = "start_milestone", !.pc = "load", !.target = thread[r].target]
      BY ReplacedIsIdle
    <3>2. Idle.pc = "idle"
      BY DEF Idle
    <3>3. [Idle EXCEPT !.op = thread[r].op, !.pc = "save", !.target = thread[r].target].pc = "save"
      BY DEF Idle
    <3>4. [Idle EXCEPT !.op = "start_milestone", !.pc = "load", !.target = thread[r].target].pc = "load"
      BY DEF Idle
    <3> QED
      BY <3>1, <3>2, <3>3, <3>4
  <2> QED
    BY <2>1, <2>2 DEF Idle
<1> QED
  BY <1>3, <1>4, <1>5, <1>6, <1>7, <1>8, <1>9, <1>10, <1>11 DEF Handle

LEMMA ProcessLockStep ==
  ASSUME Typed, ProcessLockInv, [Next]_vars
  PROVE  ProcessLockInv'
<1> USE DEF files, supervisors, server, bounds, history
<1>1. ASSUME UNCHANGED <<thread, process_lock, processes>> PROVE ProcessLockInv'
  BY <1>1 DEF ProcessLockInv, At
<1>2. CASE Restart
  BY <1>2 DEF Restart, ProcessLockInv, At, Idle
<1>3. CASE Poll
  BY <1>3, NameAssumption DEF Poll, Forget, ProcessLockInv, At
<1>4. ASSUME NEW r \in Thread, Receive(r) \/ Handle(r) PROVE ProcessLockInv'
  <2>1. ASSUME NEW q \in Thread \ {r}
        PROVE  (At(q, "persist"))' <=> At(q, "persist")
    BY <1>4, OthersStay DEF At
  <2>2. process_lock \in Thread \cup {None} /\ None \notin Thread
    BY NameAssumption DEF Typed, TypeOK
  <2>3. CASE Spawn(r)
    <3>1. ~ \E q \in Thread : At(q, "persist")
      BY <2>2, <2>3 DEF Spawn, ProcessLockInv
    <3>2. thread'[r].pc = "persist" /\ thread'[r].pid = NewPid
      BY <2>3 DEF Spawn, Set, Idle, Typed, TypeOK
    <3>3. process_lock' = r /\ processes' = NewPid
      BY <2>3 DEF Spawn
    <3> QED
      BY <2>1, <2>2, <3>1, <3>2, <3>3 DEF ProcessLockInv, At
  <2>4. CASE Persist(r)
    <3>1. process_lock = r /\ process_lock' = None
      BY <2>4 DEF Persist, ProcessLockInv
    <3>2. ~ (At(r, "persist"))'
      BY <1>4, <2>4, Moves DEF At, Persist, Spawn
    <3>3. \A q \in Thread : ~ (At(q, "persist"))'
      BY <2>1, <3>1, <3>2 DEF ProcessLockInv
    <3> QED
      BY <3>1, <3>3 DEF ProcessLockInv, At
  <2>5. CASE ~ Spawn(r) /\ ~ Persist(r)
    <3>1. /\ ~ At(r, "persist") /\ process_lock' = process_lock
          /\ processes' = processes \/ process_lock = None
      BY <1>4, <2>5 DEF Handle, Receive, Load, Check, SpawnRefused, Terminate, Guard, Read, Refuse, Open,
                        Write, Replace, UpdateLifecycle, SaveFirstPhase, At
    <3>2. ~ (At(r, "persist"))'
      BY <1>4, <2>5, Moves DEF At
    <3>3. ASSUME NEW q \in Thread \ {r}, At(q, "persist")
          PROVE  processes' = processes /\ thread'[q].pid = thread[q].pid
      BY <1>4, <2>2, <3>1, <3>3, OthersStay DEF ProcessLockInv
    <3> QED
      BY <2>1, <2>2, <3>1, <3>2, <3>3 DEF ProcessLockInv, At
  <2> QED
    BY <2>3, <2>4, <2>5
<1> QED
  BY <1>1, <1>2, <1>3, <1>4
     DEF Next, vars, LoadConfig, TakeLock, Advance, Exit, LaunchFromShell

LEMMA LocksInvariant == Spec => [](Typed /\ ProcessLockInv /\ LifecycleLockInv)
<1>1. Init => ProcessLockInv /\ LifecycleLockInv
  BY DEF Init, ProcessLockInv, LifecycleLockInv, At, Idle
<1>2. Typed /\ ProcessLockInv /\ LifecycleLockInv /\ [Next]_vars
        => ProcessLockInv' /\ LifecycleLockInv'
  BY ProcessLockStep, LifecycleLockStep
<1> QED
  BY <1>1, <1>2, TypedInvariant, PTL DEF Spec

\* The two locks of the server cannot make its requests wait for each other for ever, and
\* neither survives the request that took it.
THEOREM NoRequestsStandStill == Spec => []NoStandstill
<1>1. ASSUME Typed, ProcessLockInv, LifecycleLockInv PROVE NoStandstill
  <2>1. process_lock \in Thread \cup {None} /\ lifecycle_lock \in Thread \cup {None}
    BY <1>1 DEF Typed, TypeOK
  <2> SUFFICES ASSUME NEW q \in Thread, ~ At(q, "idle")
               PROVE \E r \in Thread :
                       /\ ~ At(r, "idle")
                       /\ At(r, "load") /\ thread[r].op = "lifecycle" => lifecycle_lock = None
                       /\ thread[r].pc \in {"check", "spawn", "terminate"} => process_lock = None
    BY DEF NoStandstill
  <2>2. CASE process_lock # None
    BY <1>1, <2>1, <2>2 DEF ProcessLockInv, At
  <2>3. CASE process_lock = None /\ lifecycle_lock # None
    BY <1>1, <2>1, <2>3 DEF LifecycleLockInv, Updating, At
  <2>4. CASE process_lock = None /\ lifecycle_lock = None
    BY <2>4
  <2> QED
    BY <2>2, <2>3, <2>4
<1> QED
  BY <1>1, LocksInvariant, PTL

------------------------------------------------------------------------------
(* The dashboard finds the supervisors it started. *)

\* What the map holds is on disk before anybody can look; a recorded process that is not
\* in the map was left by a server that died, and nobody has yet concluded that nothing
\* runs: who terminates means that process, and nobody is about to start another.
RecordInv ==
  /\ processes # None /\ process_lock = None => record = processes
  /\ processes = None /\ record # None =>
       \A r \in Thread : /\ ~ At(r, "spawn")
                         /\ At(r, "terminate") => thread[r].pid = record

LEMMA RecordStep ==
  ASSUME Typed, ProcessLockInv, RecordInv, [Next]_vars
  PROVE  RecordInv'
<1> USE DEF files, supervisors, server, bounds, history
<1>0. process_lock \in Thread \cup {None} /\ None \notin Thread
  BY NameAssumption DEF Typed, TypeOK
<1>1. ASSUME UNCHANGED <<thread, process_lock, processes, record>> PROVE RecordInv'
  BY <1>1 DEF RecordInv, At
<1>2. CASE Restart
  BY <1>2 DEF Restart, RecordInv, At, Idle
<1>3. CASE Poll
  BY <1>3 DEF Poll, Forget, RecordInv
<1>4. ASSUME NEW r \in Thread, Receive(r) \/ Handle(r) PROVE RecordInv'
  <2>1. ASSUME NEW q \in Thread \ {r}
        PROVE  /\ (At(q, "spawn"))' <=> At(q, "spawn")
               /\ (At(q, "terminate"))' <=> At(q, "terminate")
               /\ thread'[q].pid = thread[q].pid
    BY <1>4, OthersStay DEF At
  <2>2. CASE Spawn(r)
    <3>1. process_lock' = r /\ processes' = NewPid
      BY <2>2 DEF Spawn
    <3>2. NewPid # None
      BY <2>2, LaunchTyped, NoneIsNoPid DEF Spawn
    <3> QED
      BY <1>0, <3>1, <3>2 DEF RecordInv
  <2>3. CASE Persist(r)
    <3>1. /\ record' = thread[r].pid /\ processes' = processes /\ processes = thread[r].pid
      BY <2>3 DEF Persist, ProcessLockInv
    <3> QED
      BY <3>1 DEF RecordInv
  <2>4. CASE Check(r)
    <3>1. CASE Running = None
      BY <2>4, <3>1 DEF Check, Forget, RecordInv
    <3>2. CASE Running # None
      <4>1. UNCHANGED <<processes, record, process_lock>>
        BY <2>4, <3>2 DEF Check
      <4>2. Reply(r) \/ Set(r, [thread[r] EXCEPT !.pc = "terminate", !.pid = Running])
        BY <2>4, <3>2 DEF Check
      <4>3. ~ (At(r, "spawn"))' /\ ((At(r, "terminate"))' => thread'[r].pid = Running)
        <5>1. thread \in [Thread -> Handler] /\ thread[r] \in Handler
          BY DEF Typed, TypeOK
        <5>2. CASE Reply(r)
          BY <5>1, <5>2 DEF Reply, Set, Idle, At
        <5>3. CASE Set(r, [thread[r] EXCEPT !.pc = "terminate", !.pid = Running])
          BY <5>1, <5>3 DEF Set, At, Handler
        <5> QED
          BY <4>2, <5>2, <5>3
      <4>4. processes = None => Running = record
        BY <3>2 DEF Running
      <4> QED
        BY <2>1, <4>1, <4>3, <4>4 DEF RecordInv
    <3> QED
      BY <3>1, <3>2
  <2>5. CASE Terminate(r)
    <3>1. Forget \/ UNCHANGED <<processes, record>>
      BY <2>5 DEF Terminate
    <3>2. process_lock' = process_lock
      BY <2>5 DEF Terminate
    <3>3. ~ (At(r, "spawn"))' /\ ~ (At(r, "terminate"))'
      BY <2>5 DEF Terminate, Reply, Set, Idle, At, Typed, TypeOK
    <3> QED
      BY <2>1, <3>1, <3>2, <3>3 DEF Forget, RecordInv
  <2>6. CASE ~ Spawn(r) /\ ~ Persist(r) /\ ~ Check(r) /\ ~ Terminate(r)
    <3>1. UNCHANGED <<process_lock, processes, record>>
      BY <1>4, <2>6 DEF Handle, Receive, Load, SpawnRefused, Guard, Read, Refuse, Open, Write, Replace,
                        UpdateLifecycle, SaveFirstPhase
    <3>2. ~ (At(r, "spawn"))' /\ ~ (At(r, "terminate"))'
      BY <1>4, <2>6, Moves DEF At
    <3> QED
      BY <2>1, <3>1, <3>2 DEF RecordInv
  <2> QED
    BY <2>2, <2>3, <2>4, <2>5, <2>6
<1> QED
  BY <1>1, <1>2, <1>3, <1>4
     DEF Next, vars, LoadConfig, TakeLock, Advance, Exit, LaunchFromShell

\* Only a launch brings a supervisor to life, and it is a new one.
LEMMA NobodyRises ==
  ASSUME Typed, [Next]_vars, NEW p \in Pid, (Alive(p))', ~ Alive(p)
  PROVE  p = NewPid /\ (LaunchFromShell \/ \E r \in Thread : Spawn(r))
<1> USE DEF files, supervisors, server, bounds, history, Typed, TypeOK, Supervisor
<1>1. p # None
  BY NoneIsNoPid
<1>2. ASSUME NEW q \in Pid, Kill(q) PROVE FALSE
  BY <1>2 DEF Kill, Alive
<1>3. ASSUME Launch PROVE p = NewPid
  BY <1>3 DEF Launch, Alive
<1>4. ASSUME UNCHANGED proc PROVE FALSE
  BY <1>4 DEF Alive
<1>5. ASSUME NEW q \in Pid, LoadConfig(q) \/ TakeLock(q) \/ Advance(q) PROVE FALSE
  BY <1>1, <1>5 DEF LoadConfig, TakeLock, Advance, Alive
<1>6. ASSUME NEW r \in Thread, Terminate(r) PROVE FALSE
  <2>1. thread[r].pid \in Pid \cup {None}
    BY DEF Handler
  <2>2. (\E q \in Pid : Kill(q)) \/ UNCHANGED supervisors
    BY <1>6, <2>1 DEF Terminate, Alive
  <2> QED
    BY <1>2, <1>4, <2>2
<1>7. ASSUME NEW r \in Thread, Receive(r) \/ Handle(r) PROVE Spawn(r)
  BY <1>4, <1>6, <1>7 DEF Handle, Receive, Load, Check, SpawnRefused, Persist, Guard, Read, Refuse, Open,
                          Write, Replace, UpdateLifecycle, SaveFirstPhase
<1>8. (\E r \in Thread : Spawn(r)) \/ LaunchFromShell
  BY <1>2, <1>4, <1>5, <1>7 DEF Next, vars, Exit, Poll, Restart
<1> QED
  BY <1>3, <1>8 DEF Spawn, LaunchFromShell

Shown(p) == processes = p \/ (processes = None /\ record = p)

LEMMA VisibleStep ==
  ASSUME Typed, ProcessLockInv, RecordInv, Visible, [Next]_vars
  PROVE  Visible'
<1> USE DEF files, supervisors, server, bounds, history
<1>0. process_lock \in Thread \cup {None} /\ None \notin Thread /\ None \notin Pid
  BY NameAssumption, NoneIsNoPid DEF Typed, TypeOK
<1> SUFFICES ASSUME NEW p \in Pid \ hidden', (Alive(p))' PROVE (Shown(p))'
  BY DEF Visible, Shown
<1>1. hidden \subseteq hidden'
  <2>1. ASSUME NEW r \in Thread, Receive(r) \/ Handle(r) PROVE hidden \subseteq hidden'
    BY <2>1 DEF Handle, Receive, Load, Check, Spawn, SpawnRefused, Persist, Terminate, Guard, Read,
                Refuse, Open, Write, Replace, UpdateLifecycle, SaveFirstPhase
  <2> QED
    BY <2>1 DEF Next, vars, LoadConfig, TakeLock, Advance, Exit, Poll, LaunchFromShell, Restart
<1>2. CASE ~ Alive(p)
  <2>1. p = NewPid /\ (LaunchFromShell \/ \E r \in Thread : Spawn(r))
    BY <1>2, NobodyRises
  <2> QED
    BY <2>1 DEF LaunchFromShell, Spawn, Shown
<1>3. CASE Alive(p)
  <2>0. Shown(p)
    BY <1>1, <1>3 DEF Visible, Shown
  <2>1. ASSUME UNCHANGED <<processes, record>> PROVE (Shown(p))'
    BY <2>0, <2>1 DEF Shown
  <2>2. Running = p
    BY <1>0, <1>3, <2>0 DEF Running, Shown
  <2>3. CASE Restart
    <3>1. processes' = None /\ record' = record
      BY <2>3 DEF Restart
    <3>2. CASE process_lock = None
      BY <1>0, <2>0, <3>1, <3>2 DEF RecordInv, Shown
    <3>3. CASE process_lock # None
      <4>1. At(process_lock, "persist") /\ processes = thread[process_lock].pid /\ process_lock \in Thread
        BY <1>0, <3>3 DEF ProcessLockInv
      <4>2. processes # p
        BY <2>3, <4>1 DEF Restart
      <4> QED
        BY <2>0, <3>1, <4>2 DEF Shown
    <3> QED
      BY <3>2, <3>3
  <2>4. ASSUME NEW r \in Thread, Receive(r) \/ Handle(r) PROVE (Shown(p))'
    <3>1. CASE Spawn(r)
      <4>1. processes # None
        BY <1>0, <2>0, <3>1 DEF Spawn, RecordInv, Shown
      <4>2. p \in hidden'
        BY <1>3, <2>0, <3>1, <4>1 DEF Spawn, Shown
      <4> QED
        BY <4>2
    <3>2. CASE Persist(r)
      <4>1. processes = thread[r].pid /\ thread[r].pid \in Pid /\ processes' = processes
        BY <3>2 DEF Persist, ProcessLockInv, At, Typed, PayloadInv, WellFormed
      <4> QED
        BY <1>0, <2>0, <4>1 DEF Shown
    <3>3. CASE Check(r)
      BY <1>0, <2>1, <2>2, <3>3 DEF Check
    <3>4. CASE Terminate(r)
      <4> DEFINE victim == IF Alive(processes) THEN processes ELSE thread[r].pid
      <4>1. victim = p
        <5>1. CASE processes = p
          BY <1>3, <5>1
        <5>2. CASE processes = None /\ record = p
          BY <1>0, <3>4, <5>2 DEF Alive, RecordInv, Terminate
        <5> QED
          BY <2>0, <5>1, <5>2 DEF Shown
      <4>2. Kill(p)
        BY <1>3, <3>4, <4>1 DEF Terminate
      <4>3. ~ (Alive(p))'
        BY <4>2 DEF Kill, Alive, Typed, TypeOK
      <4> QED
        BY <4>3
    <3>5. CASE ~ Spawn(r) /\ ~ Persist(r) /\ ~ Check(r) /\ ~ Terminate(r)
      BY <2>1, <2>4, <3>5
         DEF Handle, Receive, Load, SpawnRefused, Guard, Read, Refuse, Open, Write, Replace,
             UpdateLifecycle, SaveFirstPhase
    <3> QED
      BY <3>1, <3>2, <3>3, <3>4, <3>5
  <2>5. CASE Poll
    BY <1>0, <2>2, <2>5 DEF Poll
  <2> QED
    BY <2>1, <2>3, <2>4, <2>5 DEF Next, vars, LoadConfig, TakeLock, Advance, Exit, LaunchFromShell
<1> QED
  BY <1>2, <1>3

\* Every supervisor the dashboard started and did not lose by the three ways that are
\* known is found by the next status, whatever requests overlap and whenever the server dies.
THEOREM SupervisorsAreVisible == Spec => []Visible
<1>1. Init => RecordInv /\ Visible
  BY DEF Init, RecordInv, Visible, Alive
<1>2. Typed /\ ProcessLockInv /\ RecordInv /\ Visible /\ [Next]_vars => RecordInv' /\ Visible'
  BY RecordStep, VisibleStep
<1> QED
  BY <1>1, <1>2, LocksInvariant, PTL DEF Spec

------------------------------------------------------------------------------
(* Phases. *)

\* Whatever holds a phase, on disk, in a supervisor or in a request, holds one that the
\* lifecycle file it belongs to has stood for.
HeldBy(h) == h.phase # None => h.seen \in Project /\ h.phase \in held[h.seen.active]

HeldInv ==
  /\ \A m \in Lifecycle : PhaseOf(m) \in held[m]
  /\ \A p \in Pid : proc[p].phase # None => proc[p].phase \in held[proc[p].active]
  /\ \A r \in Thread : HeldBy(thread[r])

\* Only the head of a handler reads a phase; the rest of it keeps or drops what was read.
LEMMA PhaseIsKept ==
  ASSUME Typed, NEW r \in Thread, Receive(r) \/ Handle(r), NEW q \in Thread
  PROVE  \/ thread'[q].phase = None
         \/ thread'[q].phase = thread[q].phase /\ thread'[q].seen = thread[q].seen
         \/ /\ q = r /\ Load(r) /\ Loads(config) /\ Present(config)
            /\ thread'[q].phase = PhaseOf(config.active) /\ thread'[q].seen = config
<1> DEFINE Kept == \/ thread'[q].phase = None
                   \/ thread'[q].phase = thread[q].phase /\ thread'[q].seen = thread[q].seen
<1>0. /\ thread \in [Thread -> Handler] /\ thread[q] \in Handler /\ thread[r] \in Handler
      /\ Idle \in Handler /\ Idle.phase = None
  BY IdleType DEF Typed, TypeOK, Idle
<1>1. ASSUME NEW g, Set(r, g), g.phase = None \/ (g.phase = thread[r].phase /\ g.seen = thread[r].seen)
      PROVE  Kept
  BY <1>0, <1>1 DEF Set
<1>2. ASSUME Reply(r) PROVE Kept
  BY <1>0, <1>1, <1>2 DEF Reply
<1>3. ASSUME NEW pc, Goto(r, pc) PROVE Kept
  <2>1. /\ [thread[r] EXCEPT !.pc = pc].phase = thread[r].phase
        /\ [thread[r] EXCEPT !.pc = pc].seen = thread[r].seen
    BY <1>0 DEF Handler
  <2> QED
    BY <1>1, <1>3, <2>1 DEF Goto
<1>4. CASE Receive(r)
  <2>1. PICK op \in Operation : Set(r, [Idle EXCEPT !.op = op, !.pc = FirstStep(op)])
    BY <1>4 DEF Receive
  <2>2. [Idle EXCEPT !.op = op, !.pc = FirstStep(op)].phase = None
    BY DEF Idle
  <2> QED
    BY <1>1, <2>1, <2>2
<1>5. CASE Load(r)
  <2>1. CASE Loads(config) /\ Present(config)
    <3> DEFINE g == [thread[r] EXCEPT !.pc = "check", !.seen = config, !.phase = PhaseOf(config.active)]
    <3>1. Set(r, g)
      BY <1>5, <2>1 DEF Load
    <3>2. g.phase = PhaseOf(config.active) /\ g.seen = config
      BY <1>0 DEF Handler
    <3>3. thread'[r] = g /\ (q # r => thread'[q] = thread[q])
      BY <1>0, <3>1 DEF Set
    <3> HIDE DEF g
    <3> QED
      BY <1>5, <2>1, <3>2, <3>3
  <2>2. CASE ~ (Loads(config) /\ Present(config))
    BY <1>2, <1>5, <2>2 DEF Load
  <2> QED
    BY <2>1, <2>2
<1>6. CASE Check(r)
  <2>1. \/ Reply(r) \/ Goto(r, "save") \/ Goto(r, "open")
        \/ Set(r, [thread[r] EXCEPT !.pc = "terminate", !.pid = Running])
        \/ Set(r, [Idle EXCEPT !.op = "start", !.pc = "spawn"])
        \/ \E m \in Milestone : \/ Set(r, [thread[r] EXCEPT !.pc = "read", !.target = m])
                               \/ Set(r, [thread[r] EXCEPT !.pc = "guard", !.target = m])
    BY <1>6 DEF Check, AfterCheck
  <2>2. /\ [thread[r] EXCEPT !.pc = "terminate", !.pid = Running].phase = thread[r].phase
        /\ [thread[r] EXCEPT !.pc = "terminate", !.pid = Running].seen = thread[r].seen
    BY <1>0 DEF Handler
  <2>3. [Idle EXCEPT !.op = "start", !.pc = "spawn"].phase = None
    BY DEF Idle
  <2>4. ASSUME NEW m, NEW pc
        PROVE  /\ [thread[r] EXCEPT !.pc = pc, !.target = m].phase = thread[r].phase
               /\ [thread[r] EXCEPT !.pc = pc, !.target = m].seen = thread[r].seen
    BY <1>0 DEF Handler
  <2> QED
    BY <1>1, <1>2, <1>3, <2>1, <2>2, <2>3, <2>4
<1>7. CASE Spawn(r)
  <2>1. [Idle EXCEPT !.op = "start", !.pc = "persist", !.pid = NewPid].phase = None
    BY DEF Idle
  <2> QED
    BY <1>1, <1>7, <2>1 DEF Spawn
<1>8. CASE SpawnRefused(r) \/ Persist(r) \/ Terminate(r) \/ Refuse(r) \/ SaveFirstPhase(r)
  BY <1>2, <1>8 DEF SpawnRefused, Persist, Terminate, Refuse, SaveFirstPhase
<1>9. CASE Guard(r) \/ UpdateLifecycle(r)
  BY <1>2, <1>3, <1>9 DEF Guard, UpdateLifecycle
<1>10. CASE Read(r)
  <2>1. ASSUME NEW c, NEW pc
        PROVE  /\ [thread[r] EXCEPT !.payload = c, !.pc = pc].phase = thread[r].phase
               /\ [thread[r] EXCEPT !.payload = c, !.pc = pc].seen = thread[r].seen
    BY <1>0 DEF Handler
  <2> QED
    BY <1>1, <1>2, <1>10, <2>1 DEF Read
<1>11. CASE Open(r) \/ Write(r)
  <2>1. \/ Set(r, [thread[r] EXCEPT !.pc = "write", !.handle = "tmp"])
        \/ Set(r, [thread[r] EXCEPT !.pc = "replace", !.payload = None, !.handle = "none"])
    BY <1>11 DEF Open, Write
  <2>2. /\ [thread[r] EXCEPT !.pc = "write", !.handle = "tmp"].phase = thread[r].phase
        /\ [thread[r] EXCEPT !.pc = "write", !.handle = "tmp"].seen = thread[r].seen
    BY <1>0 DEF Handler
  <2>3. /\ [thread[r] EXCEPT !.pc = "replace", !.payload = None, !.handle = "none"].phase = thread[r].phase
        /\ [thread[r] EXCEPT !.pc = "replace", !.payload = None, !.handle = "none"].seen = thread[r].seen
    BY <1>0 DEF Handler
  <2> QED
    BY <1>1, <2>1, <2>2, <2>3
<1>12. CASE Replace(r)
  <2>1. PICK g \in (IF tmp = None THEN {Idle} ELSE AfterReplace(thread[r])) :
          thread'[q] = IF q = r THEN g
                       ELSE IF tmp = None THEN thread[q]
                       ELSE [thread[q] EXCEPT !.handle = Renamed(@)]
    BY <1>12 DEF Replace
  <2>2. g.phase = None
    <3>1. g = Idle \/ g \in AfterReplace(thread[r])
      BY <2>1
    <3>2. \/ g = Idle
          \/ g = [Idle EXCEPT !.op = thread[r].op, !.pc = "save", !.target = thread[r].target]
          \/ g = [Idle EXCEPT !.op = "start_milestone", !.pc = "load", !.target = thread[r].target]
      BY <3>1, ReplacedIsIdle
    <3>3. [Idle EXCEPT !.op = thread[r].op, !.pc = "save", !.target = thread[r].target].phase = None
      BY DEF Idle
    <3>4. [Idle EXCEPT !.op = "start_milestone", !.pc = "load", !.target = thread[r].target].phase = None
      BY DEF Idle
    <3> QED
      BY <1>0, <3>2, <3>3, <3>4
  <2>3. /\ [thread[q] EXCEPT !.handle = Renamed(@)].phase = thread[q].phase
        /\ [thread[q] EXCEPT !.handle = Renamed(@)].seen = thread[q].seen
    BY <1>0 DEF Handler
  <2> QED
    BY <2>1, <2>2, <2>3
<1> QED
  BY <1>4, <1>5, <1>6, <1>7, <1>8, <1>9, <1>10, <1>11, <1>12 DEF Handle

LEMMA PhaseOfStays ==
  ASSUME lifecycle' = lifecycle, NEW m PROVE PhaseOf(m)' = PhaseOf(m)
BY DEF PhaseOf

\* Who writes a lifecycle file, and what.
LEMMA Saves ==
  ASSUME Typed, HeldInv, [Next]_vars
  PROVE  \/ lifecycle' = lifecycle /\ held' = held
         \/ \E m \in Lifecycle, phase \in Phase :
              /\ SaveLifecycle(m, phase)
              /\ \/ phase \in held[m]
                 \/ \E q \in held[m] \cap Evident : phase = q + 1
                 \/ phase \in (IF m = None THEN {BRAINSTORM, DOCUMENTATION} ELSE {PLANNING})
<1> USE DEF files, supervisors, server, bounds, history
<1>1. ASSUME NEW p \in Pid, Advance(p)
      PROVE  \E m \in Lifecycle, phase \in Phase :
               SaveLifecycle(m, phase) /\ \E q \in held[m] \cap Evident : phase = q + 1
  <2>1. proc[p].phase \in Phase \ {MAINTENANCE} /\ proc[p].phase \in Evident /\ proc[p].active \in Lifecycle
    BY <1>1, PhaseAssumption DEF Advance, CanAdvance, Typed, TypeOK, Supervisor
  <2>2. proc[p].phase + 1 \in Phase /\ proc[p].phase # None
    BY <2>1, NameAssumption DEF Phase, IDEA, MAINTENANCE
  <2> QED
    BY <1>1, <2>1, <2>2 DEF Advance, HeldInv
<1>2. ASSUME NEW r \in Thread, UpdateLifecycle(r)
      PROVE  \E m \in Lifecycle, phase \in Phase :
               SaveLifecycle(m, phase) /\ (phase \in held[m] \/ \E q \in held[m] \cap Evident : phase = q + 1)
  <2>1. PICK target \in Phase :
          /\ SaveLifecycle(thread[r].seen.active, target)
          /\ target = thread[r].phase \/ (thread[r].phase \in Evident /\ target = thread[r].phase + 1)
    BY <1>2 DEF UpdateLifecycle, CanAdvance
  <2>2. thread[r].phase # None
    <3>1. thread[r].phase \in Phase
      BY <2>1, PhaseAssumption
    <3> QED
      BY <3>1, NameAssumption DEF Phase, IDEA, MAINTENANCE
  <2>3. thread[r].phase \in held[thread[r].seen.active] /\ thread[r].seen.active \in Lifecycle
    BY <2>2 DEF HeldInv, HeldBy, Project
  <2> QED
    BY <2>1, <2>3
<1>3. ASSUME NEW r \in Thread, SaveFirstPhase(r)
      PROVE  \E m \in Lifecycle, phase \in Phase :
               /\ SaveLifecycle(m, phase)
               /\ phase \in (IF m = None THEN {BRAINSTORM, DOCUMENTATION} ELSE {PLANNING})
  <2>1. thread[r] \in Handler /\ WellFormed(thread[r]) /\ thread[r].pc = "save"
    BY <1>3 DEF SaveFirstPhase, At, Typed, TypeOK, PayloadInv
  <2>2. {BRAINSTORM, DOCUMENTATION, PLANNING} \subseteq Phase
    BY DEF Phase, IDEA, BRAINSTORM, DOCUMENTATION, PLANNING, MAINTENANCE
  <2>3. CASE thread[r].op = "create"
    BY <1>3, <2>2, <2>3 DEF SaveFirstPhase, Lifecycle
  <2>4. CASE thread[r].op = "start_milestone"
    <3>1. thread[r].target \in Milestone /\ thread[r].target # None
      BY <2>1, <2>4, NameAssumption DEF WellFormed
    <3> QED
      BY <1>3, <2>2, <2>4, <3>1 DEF SaveFirstPhase, Lifecycle
  <2> QED
    BY <1>3, <2>3, <2>4 DEF SaveFirstPhase
<1>4. ASSUME NEW r \in Thread, Receive(r) \/ Handle(r), ~ UpdateLifecycle(r), ~ SaveFirstPhase(r)
      PROVE  lifecycle' = lifecycle /\ held' = held
  BY <1>4 DEF Handle, Receive, Load, Check, Spawn, SpawnRefused, Persist, Terminate, Guard, Read,
              Refuse, Open, Write, Replace
<1> QED
  BY <1>1, <1>2, <1>3, <1>4
     DEF Next, vars, LoadConfig, TakeLock, Exit, Poll, LaunchFromShell, Restart

\* A lifecycle file stands for a phase it has held, and never forgets one.
LEMMA HeldGrows ==
  ASSUME Typed, HeldInv, [Next]_vars, NEW m \in Lifecycle
  PROVE  held[m] \subseteq held'[m] /\ PhaseOf(m)' \in held'[m]
<1>1. CASE lifecycle' = lifecycle /\ held' = held
  BY <1>1, PhaseOfStays DEF HeldInv
<1>2. ASSUME NEW n \in Lifecycle, NEW phase \in Phase, SaveLifecycle(n, phase)
      PROVE  held[m] \subseteq held'[m] /\ PhaseOf(m)' \in held'[m]
  <2>1. phase # None
    BY NameAssumption DEF Phase, IDEA, MAINTENANCE
  <2>2. lifecycle'[n] = phase /\ held'[n] = held[n] \cup {phase}
    BY <1>2 DEF SaveLifecycle, Typed, TypeOK
  <2>3. m # n => lifecycle'[m] = lifecycle[m] /\ held'[m] = held[m]
    BY <1>2 DEF SaveLifecycle, Typed, TypeOK
  <2>4. PhaseOf(m) \in held[m]
    BY DEF HeldInv
  <2>5. CASE m = n
    BY <2>1, <2>2, <2>5 DEF PhaseOf
  <2>6. CASE m # n
    BY <2>3, <2>4, <2>6 DEF PhaseOf
  <2> QED
    BY <2>5, <2>6
<1> QED
  BY <1>1, <1>2, Saves

LEMMA HeldStep ==
  ASSUME Typed, HeldInv, [Next]_vars
  PROVE  HeldInv'
<1> USE DEF files, supervisors, server, bounds, history
<1>1. \A m \in Lifecycle : held[m] \subseteq held'[m] /\ PhaseOf(m)' \in held'[m]
  BY HeldGrows
<1>2. ASSUME NEW p \in Pid, proc'[p].phase # None
      PROVE  proc'[p].phase \in held'[proc'[p].active]
  <2>1. proc[p] \in Supervisor /\ proc \in [Pid -> Supervisor]
    BY DEF Typed, TypeOK
  <2>2. CASE proc'[p].phase = proc[p].phase /\ proc'[p].active = proc[p].active
    BY <1>1, <1>2, <2>1, <2>2 DEF HeldInv, Supervisor
  <2>3. CASE LoadConfig(p)
    <3>1. proc'[p].phase = PhaseOf(config.active) /\ proc'[p].active = config.active
      BY <2>1, <2>3 DEF LoadConfig
    <3>2. config.active \in Lifecycle
      BY <2>3, PresentType DEF LoadConfig, Project, Typed, TypeOK
    <3> QED
      BY <1>1, <3>1, <3>2 DEF HeldInv
  <2>4. CASE Advance(p)
    <3>1. proc'[p].phase = proc[p].phase + 1 /\ proc'[p].active = proc[p].active
      BY <2>1, <2>4 DEF Advance, Supervisor
    <3>2. proc[p].active \in Lifecycle
      BY <2>1 DEF Supervisor
    <3>3. proc[p].phase + 1 \in held'[proc[p].active]
      BY <2>4, <3>2 DEF Advance, SaveLifecycle, Typed, TypeOK
    <3> QED
      BY <3>1, <3>3
  <2>5. CASE ~ LoadConfig(p) /\ ~ Advance(p)
    <3>1. ASSUME NEW q \in Pid, Kill(q)
          PROVE  proc'[p] = proc[p] \/ proc'[p].phase = None
      BY <2>1, <3>1 DEF Kill
    <3>2. ASSUME NEW q \in Pid, \/ LoadConfig(q) /\ q # p
                                \/ Advance(q) /\ q # p
                                \/ TakeLock(q)
          PROVE  proc'[p].phase = proc[p].phase /\ proc'[p].active = proc[p].active
      BY <2>1, <3>2 DEF LoadConfig, Advance, TakeLock, Supervisor
    <3>3. ASSUME Launch PROVE proc'[p].phase = proc[p].phase /\ proc'[p].active = proc[p].active
      BY <2>1, <3>3 DEF Launch, Supervisor
    <3>4. ASSUME NEW r \in Thread, Terminate(r) PROVE (\E q \in Pid : Kill(q)) \/ UNCHANGED proc
      <4>1. thread[r].pid \in Pid \cup {None}
        BY DEF Handler, Typed, TypeOK
      <4>2. processes \in Pid \cup {None}
        BY DEF Typed, TypeOK
      <4> QED
        BY <3>4, <4>1, <4>2 DEF Terminate, Alive
    <3>5. ASSUME NEW r \in Thread, Receive(r) \/ Handle(r)
          PROVE  Launch \/ (\E q \in Pid : Kill(q)) \/ UNCHANGED proc
      BY <3>4, <3>5 DEF Handle, Receive, Load, Check, Spawn, SpawnRefused, Persist, Guard, Read, Refuse,
                        Open, Write, Replace, UpdateLifecycle, SaveFirstPhase
    <3>6. \/ proc'[p] = proc[p] \/ proc'[p].phase = None
          \/ proc'[p].phase = proc[p].phase /\ proc'[p].active = proc[p].active
      BY <2>5, <3>1, <3>2, <3>3, <3>5 DEF Next, vars, Exit, Poll, LaunchFromShell, Restart
    <3> QED
      BY <1>2, <2>2, <3>6
  <2> QED
    BY <2>3, <2>4, <2>5
<1>3. ASSUME NEW q \in Thread
      PROVE  thread'[q].phase # None =>
               thread'[q].seen \in Project /\ thread'[q].phase \in held'[thread'[q].seen.active]
  <2>1. \A c \in Project : c.active \in Lifecycle
    BY DEF Project
  <2>2. CASE thread'[q].phase = None
    BY <2>2
  <2>3. CASE thread'[q].phase = thread[q].phase /\ thread'[q].seen = thread[q].seen
    <3>1. HeldBy(thread[q])
      BY DEF HeldInv
    <3> QED
      BY <1>1, <2>1, <2>3, <3>1 DEF HeldBy
  <2>4. CASE /\ Load(q) /\ Present(config)
             /\ thread'[q].phase = PhaseOf(config.active) /\ thread'[q].seen = config
    <3>1. config \in Project
      BY <2>4, PresentType DEF Typed, TypeOK
    <3>2. PhaseOf(config.active) \in held[config.active]
      BY <2>1, <3>1 DEF HeldInv
    <3> QED
      BY <1>1, <2>1, <2>4, <3>1, <3>2
  <2>5. ASSUME NEW r \in Thread, Receive(r) \/ Handle(r) PROVE thread'[q].phase = None
          \/ (thread'[q].phase = thread[q].phase /\ thread'[q].seen = thread[q].seen)
          \/ (/\ Load(q) /\ Present(config)
              /\ thread'[q].phase = PhaseOf(config.active) /\ thread'[q].seen = config)
    BY <2>5, PhaseIsKept
  <2>6. CASE Restart
    BY <2>6 DEF Restart, Idle
  <2>7. CASE UNCHANGED thread
    BY <2>3, <2>7
  <2> QED
    BY <2>2, <2>3, <2>4, <2>5, <2>6, <2>7
       DEF Next, vars, LoadConfig, TakeLock, Advance, Exit, Poll, LaunchFromShell
<1> QED
  BY <1>1, <1>2, <1>3 DEF HeldInv, HeldBy

\* No interleaving of requests and supervisors, and no stale phase one of them holds, makes
\* a lifecycle file skip a phase whose evidence is missing.
THEOREM NoPhaseIsSkipped == Spec => PhasesAreNotSkipped
<1>1. Init => HeldInv
  <2> SUFFICES ASSUME Init PROVE HeldInv
    OBVIOUS
  <2>1. \A m \in Lifecycle : PhaseOf(m) \in held[m]
    BY DEF Init
  <2>2. \A p \in Pid : proc[p].phase = None
    BY DEF Init
  <2>3. \A r \in Thread : thread[r].phase = None
    BY DEF Init, Idle
  <2> QED
    BY <2>1, <2>2, <2>3 DEF HeldInv, HeldBy
<1>2. Typed /\ HeldInv /\ [Next]_vars => HeldInv'
  BY HeldStep
<1>3. ASSUME Typed, HeldInv, [Next]_vars
      PROVE  [\A m \in Lifecycle :
                lifecycle'[m] # lifecycle[m] =>
                  \/ lifecycle'[m] \in held[m]
                  \/ \E q \in held[m] \cap Evident : lifecycle'[m] = q + 1
                  \/ lifecycle'[m] \in (IF m = None THEN {BRAINSTORM, DOCUMENTATION} ELSE {PLANNING})]_vars
  <2> SUFFICES ASSUME NEW m \in Lifecycle, lifecycle'[m] # lifecycle[m]
               PROVE  \/ lifecycle'[m] \in held[m]
                      \/ \E q \in held[m] \cap Evident : lifecycle'[m] = q + 1
                      \/ lifecycle'[m] \in (IF m = None THEN {BRAINSTORM, DOCUMENTATION} ELSE {PLANNING})
    OBVIOUS
  <2>1. PICK n \in Lifecycle, phase \in Phase :
          /\ SaveLifecycle(n, phase)
          /\ \/ phase \in held[n]
             \/ \E q \in held[n] \cap Evident : phase = q + 1
             \/ phase \in (IF n = None THEN {BRAINSTORM, DOCUMENTATION} ELSE {PLANNING})
    BY <1>3, Saves
  <2>2. n = m /\ lifecycle'[m] = phase
    BY <1>3, <2>1 DEF SaveLifecycle, Typed, TypeOK
  <2> QED
    BY <2>1, <2>2
<1> QED
  BY <1>1, <1>2, <1>3, TypedInvariant, PTL DEF Spec, PhasesAreNotSkipped

------------------------------------------------------------------------------
(* The configuration. *)

\* What changes config.yaml was asked for it.
PlaceOk(h) ==
  /\ h.pc \in {"guard", "read", "open", "write", "replace", "save"} =>
       h.op \notin {"none", "start", "stop"}
  /\ h.pc = "guard" => h.op = "start_milestone"

PlaceInv == \A r \in Thread : PlaceOk(thread[r])

\* A request that changes the configuration alone: what it saw of it is still there, what
\* it will write loads, and so does the temporary file before it is renamed.
Ready(h) ==
  /\ h.pc = "check" /\ h.op # "edit" => h.seen = config
  /\ h.pc \in {"guard", "read"} /\ h.op = "start_milestone" => config.listed[h.target] = 1
  /\ h.pc = "read" /\ h.op = "create_milestone" => config.listed[h.target] = 0
  /\ (h.pc = "check" /\ h.op = "edit") \/ h.pc \in {"open", "write"} => Loads(h.payload)
  /\ h.pc = "write" => h.handle = "tmp" /\ tmp = Empty
  /\ h.pc = "replace" => tmp \in Project /\ Loads(tmp)

\* Without an overlap at most one request is changing it.
SoleInv ==
  ~ overlapped =>
    /\ config \in Project /\ Loads(config)
    /\ \A q, r \in Thread : Changing(q) /\ Changing(r) => q = r
    /\ \A r \in Thread : Changing(r) => Ready(thread[r])

\* Each change keeps a configuration loadable, given what the handler made sure of.
LEMMA ChangedLoads ==
  ASSUME NEW h \in Handler, NEW c \in Project, Loads(c), NEW d \in Changed(h, c),
         h.op = "start_milestone" => h.target \in Milestone /\ c.listed[h.target] = 1,
         h.op = "create_milestone" => c.listed[h.target] = 0
  PROVE  d \in Project /\ Loads(d)
<1> USE ContentsAssumption, NameAssumption
<1>0. c.listed \in [Milestone -> Nat] /\ c.active \in Lifecycle
      /\ (\A m \in Milestone : c.listed[m] <= 1)
      /\ (c.active # None => c.listed[c.active] = 1)
  BY DEF Project, Loads
<1>1. ASSUME NEW p \in Project, \A m \in Milestone : p.listed[m] <= 1,
             p.active # None => p.listed[p.active] = 1
      PROVE  Loads(p)
  BY <1>1 DEF Loads
<1>2. NoProject \in Project /\ NewProject \in Project /\ Loads(NoProject) /\ Loads(NewProject)
  <2>1. NoProject \in Project /\ NewProject \in Project
    BY NoProjectType
  <2>2. /\ \A m \in Milestone : NoProject.listed[m] = 0 /\ NewProject.listed[m] = 0
        /\ NoProject.active = None /\ NewProject.active = None
    BY DEF NoProject, NewProject
  <2> QED
    BY <1>1, <2>1, <2>2
<1>3. CASE h.op = "create"
  BY <1>2, <1>3 DEF Changed
<1>4. CASE h.op = "edit"
  BY <1>2, <1>4 DEF Changed
<1>5. CASE h.op = "create_milestone"
  <2>1. d = [c EXCEPT !.listed[h.target] = @ + 1]
    BY <1>5 DEF Changed
  <2>2. d \in Project /\ d.active = c.active
    BY <2>1 DEF Project
  <2>3. ASSUME NEW m \in Milestone
        PROVE  d.listed[m] = IF m = h.target THEN c.listed[m] + 1 ELSE c.listed[m]
    BY <1>0, <2>1 DEF Project
  <2>4. \A m \in Milestone : d.listed[m] <= 1
    BY <1>0, <1>5, <2>3
  <2>5. d.active # None => d.listed[d.active] = 1
    BY <1>0, <1>5, <2>2, <2>3 DEF Lifecycle
  <2> QED
    BY <1>1, <2>2, <2>4, <2>5
<1>6. CASE h.op = "start_milestone"
  <2>1. d = [c EXCEPT !.active = h.target]
    BY <1>6 DEF Changed
  <2>2. d \in Project /\ d.active = h.target /\ d.listed = c.listed
    BY <1>6, <2>1 DEF Project, Lifecycle
  <2> QED
    BY <1>0, <1>1, <1>6, <2>2
<1>7. CASE h.op \notin {"create", "edit", "create_milestone", "start_milestone"}
  BY <1>7 DEF Changed
<1> QED
  BY <1>3, <1>4, <1>5, <1>6, <1>7

\* No request gets to the writing, or to the choice of a milestone, another way.
LEMMA PlaceStep == ASSUME Typed, PlaceInv, [Next]_vars PROVE PlaceInv'
<1> USE DEF files, supervisors, server, bounds, history
<1>1. ASSUME UNCHANGED thread PROVE PlaceInv'
  BY <1>1 DEF PlaceInv, PlaceOk
<1>2. CASE Restart
  BY <1>2 DEF Restart, PlaceInv, PlaceOk, Idle
<1>3. ASSUME NEW r \in Thread, Receive(r) \/ Handle(r) PROVE PlaceInv'
  <2> DEFINE h == thread[r]
  <2>0. thread \in [Thread -> Handler] /\ h \in Handler /\ PlaceOk(h) /\ WellFormed(h)
    BY DEF Typed, TypeOK, PayloadInv, PlaceInv
  <2>1. ASSUME PlaceOk(thread'[r]) PROVE PlaceInv'
    <3>1. \A q \in Thread : PlaceOk(thread'[q])
      BY <1>3, <2>1, OthersStay DEF PlaceInv, PlaceOk
    <3> QED
      BY <3>1 DEF PlaceInv, PlaceOk
  <2>2. ASSUME NEW g, Set(r, g), PlaceOk(g) PROVE PlaceInv'
    BY <2>0, <2>1, <2>2 DEF Set
  <2>3. ASSUME Reply(r) PROVE PlaceInv'
    <3>1. PlaceOk(Idle)
      BY DEF PlaceOk, Idle
    <3> QED
      BY <2>2, <2>3, <3>1 DEF Reply
  <2>4. ASSUME NEW pc, Goto(r, pc), pc = "save" => h.op \notin {"none", "start", "stop"},
               pc = "open" => h.op \notin {"none", "start", "stop"},
               pc = "read" => h.op \notin {"none", "start", "stop"},
               pc \notin {"check", "guard", "write", "replace"}
        PROVE  PlaceInv'
    <3>1. [h EXCEPT !.pc = pc].op = h.op /\ [h EXCEPT !.pc = pc].pc = pc
      BY <2>0 DEF Handler
    <3>2. PlaceOk([h EXCEPT !.pc = pc])
      BY <2>4, <3>1 DEF PlaceOk
    <3> QED
      BY <2>2, <2>4, <3>2 DEF Goto
  <2>5. CASE Receive(r)
    <3>1. PICK op \in Operation : Set(r, [Idle EXCEPT !.op = op, !.pc = FirstStep(op)])
      BY <2>5 DEF Receive
    <3>2. /\ FirstStep(op) \in {"check", "read", "load"}
          /\ FirstStep(op) = "read" => op \in {"edit", "create"}
          /\ FirstStep(op) = "check" => op = "stop"
      BY DEF FirstStep
    <3> DEFINE g == [Idle EXCEPT !.op = op, !.pc = FirstStep(op)]
    <3>3. g.op = op /\ g.pc = FirstStep(op)
      BY DEF Idle
    <3> HIDE DEF g
    <3>4. PlaceOk(g)
      BY <3>2, <3>3 DEF PlaceOk
    <3> QED
      BY <2>2, <3>1, <3>4 DEF g
  <2>6. CASE Load(r)
    <3> DEFINE g == [h EXCEPT !.pc = "check", !.seen = config, !.phase = PhaseOf(config.active)]
    <3>1. g.pc = "check"
      BY <2>0 DEF Handler
    <3>2. CASE Loads(config) /\ Present(config)
      <4>1. Set(r, g)
        BY <2>6, <3>2 DEF Load
      <4> HIDE DEF g
      <4>2. PlaceOk(g)
        BY <3>1 DEF PlaceOk
      <4> QED
        BY <2>2, <4>1, <4>2
    <3> QED
      BY <2>3, <2>6, <3>2 DEF Load
  <2>7. CASE Check(r)
    <3>1. CASE Running # None
      <4> DEFINE g == [h EXCEPT !.pc = "terminate", !.pid = Running]
      <4>1. Reply(r) \/ Set(r, g)
        BY <2>7, <3>1 DEF Check
      <4>2. g.pc = "terminate"
        BY <2>0 DEF Handler
      <4> HIDE DEF g
      <4>3. PlaceOk(g)
        BY <4>2 DEF PlaceOk
      <4> QED
        BY <2>2, <2>3, <4>1, <4>3
    <3>2. CASE Running = None
      <4>1. h.pc = "check" /\ AfterCheck(r)
        BY <2>7, <3>2 DEF Check, At
      <4>2. CASE h.op = "start"
        <5> DEFINE g == [Idle EXCEPT !.op = "start", !.pc = "spawn"]
        <5>1. g.pc = "spawn"
          BY DEF Idle
        <5>2. Set(r, g)
          BY <4>1, <4>2 DEF AfterCheck
        <5> HIDE DEF g
        <5>3. PlaceOk(g)
          BY <5>1 DEF PlaceOk
        <5> QED
          BY <2>2, <5>2, <5>3
      <4>3. CASE h.op = "lifecycle"
        BY <2>4, <4>1, <4>3 DEF AfterCheck
      <4>4. CASE h.op = "edit"
        BY <2>4, <4>1, <4>4 DEF AfterCheck
      <4>5. CASE h.op \in {"create_milestone", "start_milestone"}
        <5>1. Reply(r) \/ \E m \in Milestone, pc \in {"read", "guard"} :
                             /\ Set(r, [h EXCEPT !.pc = pc, !.target = m])
                             /\ pc = "guard" => h.op = "start_milestone"
          BY <4>1, <4>5 DEF AfterCheck
        <5>2. ASSUME NEW m \in Milestone, NEW pc \in {"read", "guard"},
                     pc = "guard" => h.op = "start_milestone"
              PROVE  PlaceOk([h EXCEPT !.pc = pc, !.target = m])
          <6> DEFINE g == [h EXCEPT !.pc = pc, !.target = m]
          <6>1. g.pc = pc /\ g.op = h.op
            BY <2>0 DEF Handler
          <6> HIDE DEF g
          <6>2. PlaceOk(g)
            BY <4>5, <5>2, <6>1 DEF PlaceOk
          <6> QED
            BY <6>2 DEF g
        <5> QED
          BY <2>2, <2>3, <5>1, <5>2
      <4>6. CASE h.op \notin {"start", "lifecycle", "edit", "create_milestone", "start_milestone"}
        BY <2>3, <4>1, <4>6 DEF AfterCheck
      <4> QED
        BY <4>2, <4>3, <4>4, <4>5, <4>6
    <3> QED
      BY <3>1, <3>2
  <2>8. CASE Spawn(r)
    <3> DEFINE g == [Idle EXCEPT !.op = "start", !.pc = "persist", !.pid = NewPid]
    <3>1. g.pc = "persist"
      BY DEF Idle
    <3>2. Set(r, g)
      BY <2>8 DEF Spawn
    <3> HIDE DEF g
    <3>3. PlaceOk(g)
      BY <3>1 DEF PlaceOk
    <3> QED
      BY <2>2, <3>2, <3>3
  <2>9. CASE SpawnRefused(r) \/ Persist(r) \/ Terminate(r) \/ Refuse(r) \/ SaveFirstPhase(r)
    BY <2>3, <2>9 DEF SpawnRefused, Persist, Terminate, Refuse, SaveFirstPhase
  <2>10. CASE Guard(r)
    BY <2>0, <2>3, <2>4, <2>10 DEF Guard, At, PlaceOk
  <2>11. CASE Read(r)
    <3>1. ASSUME NEW c, Set(r, [h EXCEPT !.payload = c, !.pc = IF h.op = "edit" THEN "check" ELSE "open"])
          PROVE  PlaceInv'
      <4>0. PICK pc \in {"check", "open"} : pc = IF h.op = "edit" THEN "check" ELSE "open"
        OBVIOUS
      <4> DEFINE g == [h EXCEPT !.payload = c, !.pc = pc]
      <4>1. g.pc = pc /\ g.op = h.op
        BY <2>0 DEF Handler
      <4>2. Set(r, g)
        BY <3>1, <4>0
      <4> HIDE DEF g
      <4>3. h.op \notin {"none", "start", "stop"}
        BY <2>0, <2>11 DEF Read, At, PlaceOk
      <4>4. PlaceOk(g)
        BY <4>0, <4>1, <4>3 DEF PlaceOk
      <4> QED
        BY <2>2, <4>2, <4>4
    <3> QED
      BY <2>3, <2>11, <3>1 DEF Read
  <2>12. CASE Open(r) \/ Write(r)
    <3>1. \/ thread'[r] = [h EXCEPT !.pc = "write", !.handle = "tmp"]
          \/ thread'[r] = [h EXCEPT !.pc = "replace", !.payload = None, !.handle = "none"]
      BY <2>0, <2>12 DEF Open, Write, Set
    <3>2. thread'[r].pc \in {"write", "replace"} /\ thread'[r].op = h.op
      BY <2>0, <3>1 DEF Handler
    <3>3. h.op \notin {"none", "start", "stop"}
      BY <2>0, <2>12 DEF Open, Write, At, PlaceOk
    <3> QED
      BY <2>1, <3>2, <3>3 DEF PlaceOk
  <2>13. CASE Replace(r)
    <3>1. PICK g \in (IF tmp = None THEN {Idle} ELSE AfterReplace(h)) : thread'[r] = g
      BY <2>0, <2>13 DEF Replace
    <3>2. \/ g = Idle
          \/ g = [Idle EXCEPT !.op = h.op, !.pc = "save", !.target = h.target]
          \/ g = [Idle EXCEPT !.op = "start_milestone", !.pc = "load", !.target = h.target]
      BY <3>1, ReplacedIsIdle
    <3>3. g.pc \in {"idle", "save", "load"} /\ (g.pc = "save" => g.op = h.op)
      <4>1. CASE g = Idle
        BY <4>1 DEF Idle
      <4>2. CASE g = [Idle EXCEPT !.op = h.op, !.pc = "save", !.target = h.target]
        BY <4>2 DEF Idle
      <4>3. CASE g = [Idle EXCEPT !.op = "start_milestone", !.pc = "load", !.target = h.target]
        BY <4>3 DEF Idle
      <4> QED
        BY <3>2, <4>1, <4>2, <4>3
    <3>4. h.op \notin {"none", "start", "stop"}
      BY <2>0, <2>13 DEF Replace, At, PlaceOk
    <3> QED
      BY <2>1, <3>1, <3>3, <3>4 DEF PlaceOk
  <2>14. CASE UpdateLifecycle(r)
    BY <2>3, <2>4, <2>14 DEF UpdateLifecycle
  <2> QED
    BY <1>3, <2>5, <2>6, <2>7, <2>8, <2>9, <2>10, <2>11, <2>12, <2>13, <2>14 DEF Handle
<1> QED
  BY <1>1, <1>2, <1>3
     DEF Next, vars, Poll, LoadConfig, TakeLock, Advance, Exit, LaunchFromShell

\* Only a request that changes the configuration writes, and what it writes loads.
LEMMA ConfigStep ==
  ASSUME Typed, PlaceInv, NEW r \in Thread, Receive(r) \/ Handle(r),
         config \in Project, Loads(config), Changing(r) => Ready(thread[r])
  PROVE  /\ config' \in Project /\ Loads(config')
         /\ Changing(r) \/ (UNCHANGED <<config, tmp>> /\ ~ Replace(r))
<1> USE DEF files, supervisors, server, bounds, history
<1>0. thread[r] \in Handler /\ PlaceOk(thread[r])
  BY DEF Typed, TypeOK, PlaceInv
<1>1. thread[r].pc \in {"open", "write", "replace"} => Changing(r) /\ Ready(thread[r])
  BY <1>0 DEF Changing, PlaceOk, At
<1>2. CASE Open(r)
  BY <1>1, <1>2 DEF Open, At
<1>3. CASE Write(r)
  BY <1>1, <1>3 DEF Write, At, Ready
<1>4. CASE Replace(r)
  BY <1>1, <1>4 DEF Replace, At, Ready
<1>5. CASE ~ Open(r) /\ ~ Write(r) /\ ~ Replace(r)
  <2>1. UNCHANGED <<config, tmp>>
    BY <1>5 DEF Handle, Receive, Load, Check, Spawn, SpawnRefused, Persist, Terminate, Guard, Read,
                Refuse, UpdateLifecycle, SaveFirstPhase
  <2> QED
    BY <1>5, <2>1
<1> QED
  BY <1>2, <1>3, <1>4, <1>5

\* A request that begins to change the configuration notes whether another one does, and
\* one that changes it alone remains ready.
LEMMA OwnStep ==
  ASSUME Typed, PlaceInv, NEW r \in Thread, Receive(r) \/ Handle(r),
         config \in Project, Loads(config), Changing(r) => Ready(thread[r]),
         (Changing(r))'
  PROVE  /\ (Ready(thread[r]))'
         /\ Changing(r) \/ NoteOverlap(r)
<1> USE DEF files, supervisors, server, bounds, history
<1> DEFINE h == thread[r]
<1> DEFINE Goal == /\ (Ready(thread[r]))'
                   /\ Changing(r) \/ NoteOverlap(r)
<1>0. thread \in [Thread -> Handler] /\ h \in Handler /\ PlaceOk(h) /\ WellFormed(h)
  BY DEF Typed, TypeOK, PayloadInv, PlaceInv
<1>1. /\ thread'[r].op \notin {"none", "start", "stop"} /\ thread'[r].pc \notin {"load", "save"}
      /\ thread'[r].pc = "read" => thread'[r].op \in {"create_milestone", "start_milestone"}
  BY DEF Changing, At
<1>2. ASSUME NEW g, Set(r, g) PROVE thread'[r] = g
  BY <1>0, <1>2 DEF Set
<1>3. ~ Reply(r)
  BY <1>1, <1>2 DEF Reply, Idle
<1>4. /\ h.op \notin {"none", "start", "stop"} /\ h.pc \in {"open", "write", "replace"} => Changing(r)
      /\ h.op \in {"create_milestone", "start_milestone"} /\ h.pc \in {"check", "guard", "read"} => Changing(r)
      /\ h.op = "edit" /\ h.pc = "check" => Changing(r)
  BY DEF Changing, At
<1>5. ASSUME NEW pc, Goto(r, pc)
      PROVE  /\ thread'[r].pc = pc /\ thread'[r].op = h.op /\ thread'[r].seen = h.seen
             /\ thread'[r].target = h.target /\ thread'[r].payload = h.payload
  <2>1. thread'[r] = [h EXCEPT !.pc = pc]
    BY <1>2, <1>5 DEF Goto
  <2> QED
    BY <1>0, <2>1 DEF Handler
<1>6. ASSUME Receive(r) PROVE FALSE
  <2>1. PICK op \in Operation : Set(r, [Idle EXCEPT !.op = op, !.pc = FirstStep(op)])
    BY <1>6 DEF Receive
  <2>2. /\ FirstStep(op) \in {"check", "read", "load"}
        /\ FirstStep(op) = "check" => op = "stop"
        /\ FirstStep(op) = "read" => op \in {"edit", "create"}
    BY DEF FirstStep
  <2> DEFINE g == [Idle EXCEPT !.op = op, !.pc = FirstStep(op)]
  <2>3. g.op = op /\ g.pc = FirstStep(op)
    BY DEF Idle
  <2>4. thread'[r] = g
    BY <1>2, <2>1
  <2> HIDE DEF g
  <2> QED
    BY <1>1, <2>2, <2>3, <2>4
<1>7. CASE Load(r)
  <2> DEFINE g == [h EXCEPT !.pc = "check", !.seen = config, !.phase = PhaseOf(config.active)]
  <2>1. Set(r, g) /\ NoteOverlap(r) /\ config' = config /\ h.pc = "load"
    BY <1>3, <1>7 DEF Load, At
  <2>2. g.pc = "check" /\ g.seen = config /\ g.op = h.op
    BY <1>0 DEF Handler
  <2>3. thread'[r] = g
    BY <1>2, <2>1
  <2> HIDE DEF g
  <2>4. h.op # "start" /\ h.op # "edit"
    BY <1>0, <1>1, <2>1, <2>2, <2>3 DEF WellFormed
  <2>5. (Ready(thread[r]))'
    BY <2>1, <2>2, <2>3, <2>4 DEF Ready
  <2> QED
    BY <2>1, <2>4, <2>5
<1>8. CASE Check(r)
  <2>1. h.pc = "check" /\ UNCHANGED <<config, tmp>>
    BY <1>8 DEF Check, At
  <2>2. ASSUME Running # None PROVE FALSE
    <3> DEFINE g == [h EXCEPT !.pc = "terminate", !.pid = Running]
    <3>1. Set(r, g) /\ h.op = "stop"
      BY <1>3, <1>8, <2>2 DEF Check
    <3>2. g.op = h.op
      BY <1>0 DEF Handler
    <3>3. thread'[r] = g
      BY <1>2, <3>1
    <3> HIDE DEF g
    <3> QED
      BY <1>1, <3>1, <3>2, <3>3
  <2>3. AfterCheck(r)
    BY <1>8, <2>2 DEF Check
  <2>4. ASSUME h.op = "start" PROVE FALSE
    <3>1. Set(r, [Idle EXCEPT !.op = "start", !.pc = "spawn"])
      BY <2>3, <2>4 DEF AfterCheck
    <3>2. [Idle EXCEPT !.op = "start", !.pc = "spawn"].op = "start"
      BY DEF Idle
    <3> QED
      BY <1>1, <1>2, <3>1, <3>2
  <2>5. ASSUME h.op = "lifecycle" PROVE FALSE
    <3>1. thread'[r].pc = "save"
      BY <1>5, <2>3, <2>5 DEF AfterCheck
    <3> QED
      BY <1>1, <3>1
  <2>6. CASE h.op = "edit"
    <3>1. thread'[r].pc = "open" /\ thread'[r].payload = h.payload
      BY <1>5, <2>3, <2>6 DEF AfterCheck
    <3>2. Changing(r) /\ Loads(h.payload)
      BY <1>4, <2>1, <2>6 DEF Ready
    <3> QED
      BY <3>1, <3>2 DEF Ready
  <2>7. CASE h.op = "create_milestone"
    <3>1. PICK m \in Milestone : h.seen.listed[m] = 0 /\ Set(r, [h EXCEPT !.pc = "read", !.target = m])
      BY <1>3, <2>3, <2>7 DEF AfterCheck
    <3> DEFINE g == [h EXCEPT !.pc = "read", !.target = m]
    <3>2. g.pc = "read" /\ g.op = h.op /\ g.target = m
      BY <1>0 DEF Handler
    <3>3. thread'[r] = g
      BY <1>2, <3>1
    <3> HIDE DEF g
    <3>4. Changing(r) /\ h.seen = config
      BY <1>4, <2>1, <2>7 DEF Ready
    <3> QED
      BY <2>1, <2>7, <3>1, <3>2, <3>3, <3>4 DEF Ready
  <2>8. CASE h.op = "start_milestone"
    <3>1. PICK m \in Milestone : h.seen.listed[m] = 1 /\ Set(r, [h EXCEPT !.pc = "guard", !.target = m])
      BY <1>3, <2>3, <2>8 DEF AfterCheck
    <3> DEFINE g == [h EXCEPT !.pc = "guard", !.target = m]
    <3>2. g.pc = "guard" /\ g.op = h.op /\ g.target = m
      BY <1>0 DEF Handler
    <3>3. thread'[r] = g
      BY <1>2, <3>1
    <3> HIDE DEF g
    <3>4. Changing(r) /\ h.seen = config
      BY <1>4, <2>1, <2>8 DEF Ready
    <3> QED
      BY <2>1, <2>8, <3>1, <3>2, <3>3, <3>4 DEF Ready
  <2>9. ASSUME h.op \notin {"start", "lifecycle", "edit", "create_milestone", "start_milestone"}
        PROVE  FALSE
    BY <1>3, <2>3, <2>9 DEF AfterCheck
  <2> QED
    BY <2>4, <2>5, <2>6, <2>7, <2>8, <2>9
<1>9. ASSUME Spawn(r) PROVE FALSE
  <2>1. Set(r, [Idle EXCEPT !.op = "start", !.pc = "persist", !.pid = NewPid])
    BY <1>9 DEF Spawn
  <2>2. [Idle EXCEPT !.op = "start", !.pc = "persist", !.pid = NewPid].op = "start"
    BY DEF Idle
  <2> QED
    BY <1>1, <1>2, <2>1, <2>2
<1>10. ~ (SpawnRefused(r) \/ Persist(r) \/ Terminate(r) \/ Refuse(r) \/ SaveFirstPhase(r))
  BY <1>3 DEF SpawnRefused, Persist, Terminate, Refuse, SaveFirstPhase
<1>11. CASE Guard(r)
  <2>1. h.pc = "guard" /\ Goto(r, "read") /\ UNCHANGED <<config, tmp>>
    BY <1>3, <1>11 DEF Guard, At
  <2>2. /\ thread'[r].pc = "read" /\ thread'[r].op = h.op /\ thread'[r].target = h.target
    BY <1>5, <2>1
  <2>3. Changing(r)
    BY <1>0, <1>4, <2>1 DEF PlaceOk
  <2>4. h.op = "start_milestone"
    BY <1>0, <2>1 DEF PlaceOk
  <2> QED
    BY <2>1, <2>2, <2>3, <2>4 DEF Ready
<1>12. CASE Read(r)
  <2>1. PICK d \in Changed(h, config) :
          Set(r, [h EXCEPT !.payload = d, !.pc = IF h.op = "edit" THEN "check" ELSE "open"])
    BY <1>3, <1>12 DEF Read
  <2>2. h.pc = "read" /\ NoteOverlap(r)
    BY <1>12 DEF Read, At
  <2>3. h.op \notin {"none", "start", "stop"}
    BY <1>0, <2>2 DEF PlaceOk
  <2>4. h.op \in {"create_milestone", "start_milestone"} => Changing(r)
    BY <1>4, <2>2
  <2>5. Loads(d)
    BY <1>0, <2>2, <2>4, ChangedLoads DEF Ready, WellFormed
  <2>6. PICK pc \in {"check", "open"} : pc = IF h.op = "edit" THEN "check" ELSE "open"
    OBVIOUS
  <2> DEFINE g == [h EXCEPT !.payload = d, !.pc = pc]
  <2>7. g.payload = d /\ g.pc = pc /\ g.op = h.op
    BY <1>0 DEF Handler
  <2>8. thread'[r] = g
    BY <1>2, <2>1, <2>6
  <2> HIDE DEF g
  <2> QED
    BY <2>2, <2>3, <2>5, <2>6, <2>7, <2>8 DEF Ready
<1>13. CASE Open(r)
  <2> DEFINE g == [h EXCEPT !.pc = "write", !.handle = "tmp"]
  <2>1. g.pc = "write" /\ g.handle = "tmp" /\ g.payload = h.payload
    BY <1>0 DEF Handler
  <2>2. thread'[r] = g /\ tmp' = Empty /\ h.pc = "open"
    BY <1>2, <1>13 DEF Open, At
  <2> HIDE DEF g
  <2>3. Changing(r) /\ Loads(h.payload)
    BY <1>0, <1>4, <2>2 DEF PlaceOk, Ready
  <2> QED
    BY <2>1, <2>2, <2>3 DEF Ready
<1>14. CASE Write(r)
  <2> DEFINE g == [h EXCEPT !.pc = "replace", !.payload = None, !.handle = "none"]
  <2>1. g.pc = "replace"
    BY <1>0 DEF Handler
  <2>2. thread'[r] = g /\ h.pc = "write"
    BY <1>2, <1>14 DEF Write, At
  <2> HIDE DEF g
  <2>3. Changing(r) /\ Loads(h.payload) /\ h.payload \in Project /\ h.handle = "tmp" /\ tmp = Empty
    BY <1>0, <1>4, <2>2 DEF PlaceOk, Ready, WellFormed
  <2>4. tmp' = h.payload
    BY <1>14, <2>3 DEF Write
  <2> QED
    BY <2>1, <2>2, <2>3, <2>4 DEF Ready
<1>15. ASSUME Replace(r) PROVE FALSE
  <2>1. PICK g \in (IF tmp = None THEN {Idle} ELSE AfterReplace(h)) : thread'[r] = g
    BY <1>0, <1>15 DEF Replace
  <2>2. \/ g = Idle
        \/ g = [Idle EXCEPT !.op = h.op, !.pc = "save", !.target = h.target]
        \/ g = [Idle EXCEPT !.op = "start_milestone", !.pc = "load", !.target = h.target]
    BY <2>1, ReplacedIsIdle
  <2>3. g # Idle
    BY <1>1, <2>1 DEF Idle
  <2>4. g # [Idle EXCEPT !.op = "start_milestone", !.pc = "load", !.target = h.target]
    <3>1. [Idle EXCEPT !.op = "start_milestone", !.pc = "load", !.target = h.target].pc = "load"
      BY DEF Idle
    <3> QED
      BY <1>1, <2>1, <3>1
  <2>5. g # [Idle EXCEPT !.op = h.op, !.pc = "save", !.target = h.target]
    <3>1. [Idle EXCEPT !.op = h.op, !.pc = "save", !.target = h.target].pc = "save"
      BY DEF Idle
    <3> QED
      BY <1>1, <2>1, <3>1
  <2> QED
    BY <2>2, <2>3, <2>4, <2>5
<1>16. ASSUME UpdateLifecycle(r) PROVE FALSE
  <2>1. Goto(r, "read") /\ h.op = "lifecycle"
    BY <1>3, <1>16 DEF UpdateLifecycle
  <2>2. thread'[r].pc = "read" /\ thread'[r].op = "lifecycle"
    BY <1>5, <2>1
  <2> QED
    BY <1>1, <2>2
<1> QED
  BY <1>6, <1>7, <1>8, <1>9, <1>10, <1>11, <1>12, <1>13, <1>14, <1>15, <1>16 DEF Handle

LEMMA SoleStep == ASSUME Typed, PlaceInv, SoleInv, [Next]_vars PROVE SoleInv'
<1> USE DEF files, supervisors, server, bounds, history
<1> SUFFICES ASSUME ~ overlapped'
             PROVE  /\ config' \in Project /\ Loads(config')
                    /\ \A q, r \in Thread : (Changing(q))' /\ (Changing(r))' => q = r
                    /\ \A r \in Thread : (Changing(r))' => (Ready(thread[r]))'
  BY DEF SoleInv, Loads
<1>1. ASSUME ~ overlapped, UNCHANGED <<thread, config, tmp>>
      PROVE  /\ config' \in Project /\ Loads(config')
             /\ \A q, r \in Thread : (Changing(q))' /\ (Changing(r))' => q = r
             /\ \A r \in Thread : (Changing(r))' => (Ready(thread[r]))'
  BY <1>1 DEF SoleInv, Changing, At, Ready
<1>2. CASE Restart
  <2>1. \A r \in Thread : ~ (Changing(r))'
    BY <1>2 DEF Restart, Changing, Idle
  <2> QED
    BY <1>2, <2>1 DEF Restart, SoleInv
<1>3. ASSUME NEW r \in Thread, Receive(r) \/ Handle(r)
      PROVE  /\ config' \in Project /\ Loads(config')
             /\ \A p, q \in Thread : (Changing(p))' /\ (Changing(q))' => p = q
             /\ \A q \in Thread : (Changing(q))' => (Ready(thread[q]))'
  <2>1. ~ overlapped
    BY <1>3 DEF Handle, Receive, Load, NoteOverlap, Check, Spawn, SpawnRefused, Persist, Terminate, Guard,
                Read, Refuse, Open, Write, Replace, UpdateLifecycle, SaveFirstPhase
  <2>2. /\ config \in Project /\ Loads(config)
        /\ \A p, q \in Thread : Changing(p) /\ Changing(q) => p = q
        /\ \A q \in Thread : Changing(q) => Ready(thread[q])
    BY <2>1 DEF SoleInv
  <2>3. /\ config' \in Project /\ Loads(config')
        /\ Changing(r) \/ (UNCHANGED <<config, tmp>> /\ ~ Replace(r))
    BY <1>3, <2>2, ConfigStep
  <2>4. ASSUME NEW q \in Thread \ {r}
        PROVE  (Changing(q))' <=> Changing(q)
    BY <1>3, OthersStay DEF Changing, At
  <2>5. ASSUME (Changing(r))'
        PROVE  (Ready(thread[r]))' /\ \A q \in Thread \ {r} : ~ Changing(q)
    <3>1. (Ready(thread[r]))' /\ (Changing(r) \/ NoteOverlap(r))
      BY <1>3, <2>2, <2>5, OwnStep
    <3> QED
      BY <2>2, <2>5, <3>1 DEF NoteOverlap
  <2>6. ASSUME NEW q \in Thread \ {r}, (Changing(q))'
        PROVE  (Ready(thread[q]))'
    <3>1. Changing(q) /\ ~ Changing(r) /\ Ready(thread[q])
      BY <2>2, <2>4, <2>6
    <3>2. UNCHANGED <<config, tmp>> /\ ~ Replace(r)
      BY <2>3, <3>1
    <3>3. /\ thread'[q].op = thread[q].op /\ thread'[q].pc = thread[q].pc
          /\ thread'[q].seen = thread[q].seen /\ thread'[q].target = thread[q].target
          /\ thread'[q].payload = thread[q].payload /\ thread'[q].handle = thread[q].handle
      BY <1>3, <3>2, OthersStay
    <3> QED
      BY <3>1, <3>2, <3>3 DEF Ready
  <2>7. ASSUME NEW p \in Thread, NEW q \in Thread, (Changing(p))', (Changing(q))' PROVE p = q
    BY <2>2, <2>4, <2>5, <2>7
  <2> QED
    BY <2>3, <2>5, <2>6, <2>7
<1>4. ASSUME ~ \E r \in Thread : Receive(r) \/ Handle(r), ~ Restart
      PROVE  ~ overlapped /\ UNCHANGED <<thread, config, tmp>>
  BY <1>4 DEF Next, vars, Poll, LoadConfig, TakeLock, Advance, Exit, LaunchFromShell
<1> QED
  BY <1>1, <1>2, <1>3, <1>4

\* Without overlapping changes config.yaml loads at every moment, also after the server died
\* while it was written: the temporary file loads before it is renamed, and what a request
\* saw when it chose a milestone is still there when it writes.
THEOREM ConfigurationLoads == Spec => []ConfigLoads
<1>1. Init => PlaceInv /\ SoleInv
  <2> SUFFICES ASSUME Init PROVE PlaceInv /\ SoleInv
    OBVIOUS
  <2>1. \A r \in Thread : thread[r] = Idle
    BY DEF Init
  <2>2. PlaceInv /\ \A r \in Thread : ~ Changing(r)
    BY <2>1 DEF PlaceInv, PlaceOk, Changing, Idle
  <2>3. config \in Project
    BY NoProjectType DEF Init
  <2>4. \A m \in Milestone : config.listed[m] = 0
    BY DEF Init, NoProject, NewProject
  <2>5. config.active = None
    BY DEF Init, NoProject, NewProject
  <2>6. Loads(config)
    BY <2>3, <2>4, <2>5, ContentsAssumption DEF Loads
  <2> QED
    BY <2>2, <2>3, <2>6 DEF SoleInv
<1>2. Typed /\ PlaceInv /\ SoleInv /\ [Next]_vars => PlaceInv' /\ SoleInv'
  BY PlaceStep, SoleStep
<1>3. SoleInv => ConfigLoads
  BY ContentsAssumption DEF SoleInv, ConfigLoads
<1> QED
  BY <1>1, <1>2, <1>3, TypedInvariant, PTL DEF Spec
====
