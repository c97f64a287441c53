----------------------------- MODULE StateFiles -----------------------------
(***************************************************************************)
(* A JSON state file, its .bak and its .tmp, as the lifecycle state        *)
(* (lifecycle.py) and the supervisor memory (supervisor_memory.py) keep    *)
(* them.  The two are saved and loaded by different protocols; kind says   *)
(* which one a behaviour is about.  The process that saves may die between *)
(* any two calls of the operating system, and the file may be damaged      *)
(* while nobody writes it.  Contents are the numbers of the saves that     *)
(* wrote them; 0 stands for the defaults used when there is no file.       *)
(***************************************************************************)
EXTENDS Integers, Values

CONSTANTS Corrupt,     \* contents that do not parse, or no readable file at all
          MaxSave,     \* bound: saves ever begun
          MaxDamage    \* bound: times the file is damaged

ASSUME SaveAssumption == MaxSave \in Nat /\ MaxDamage \in Nat
ASSUME FileAssumption == None \notin Int /\ Corrupt \notin Int /\ Corrupt # None

VARIABLES
  kind,                    \* "lifecycle" or "memory"
  primary, backup, tmp,    \* the three files; None when there is no such file
  step,                    \* the next call of a save; "idle", or "down" without a process
  current,                 \* the state the process holds
  issued,                  \* saves begun
  damages                  \* times the file was damaged

vars == <<kind, primary, backup, tmp, step, current, issued, damages>>

Version == 1..MaxSave
File == Version \cup {None, Corrupt}
Saving == {"copy", "copying", "write", "retire", "replace"}

TypeOK ==
  /\ kind \in {"lifecycle", "memory"}
  /\ primary \in File /\ backup \in File /\ tmp \in File
  /\ step \in Saving \cup {"down", "idle"}
  /\ issued \in 0..MaxSave
  /\ current \in 0..issued
  /\ damages \in 0..MaxDamage

Init ==
  /\ kind \in {"lifecycle", "memory"}
  /\ primary = None /\ backup = None /\ tmp = None
  /\ step = "down" /\ current = 0 /\ issued = 0 /\ damages = 0

Readable(f) == f \notin {None, Corrupt}

\* load_lifecycle_state: the backup stands in for a primary that does not parse.
LoadLifecycle ==
  IF primary = None THEN 0
  ELSE IF Readable(primary) THEN primary
  ELSE IF Readable(backup) THEN backup
  ELSE Corrupt

\* Mutant: a missing primary is taken for a project that has no memory yet.
LoadMemoryWithoutBackup ==
  IF primary = None THEN 0
  ELSE IF Readable(primary) THEN primary
  ELSE IF Readable(backup) THEN backup
  ELSE Corrupt

\* load_memory: the backup also stands in for a primary that is missing.
LoadMemory ==
  IF primary = None /\ backup = None THEN 0
  ELSE IF Readable(primary) THEN primary
  ELSE IF Readable(backup) THEN backup
  ELSE Corrupt

Loaded == IF kind = "lifecycle" THEN LoadLifecycle ELSE LoadMemory

------------------------------------------------------------------------------
\* Mutant: what does not load is carried on with.
OpenAnyway ==
  /\ step = "down"
  /\ current' = Loaded
  /\ step' = "idle"
  /\ UNCHANGED <<kind, primary, backup, tmp, issued, damages>>

\* A process starts; it refuses to when its state does not load.
Open ==
  /\ step = "down"
  /\ Loaded # Corrupt
  /\ current' = Loaded
  /\ step' = "idle"
  /\ UNCHANGED <<kind, primary, backup, tmp, issued, damages>>

\* A state is to be saved.  save_lifecycle_state copies the old file first.
BeginSave ==
  /\ step = "idle" /\ issued < MaxSave
  /\ issued' = issued + 1 /\ current' = issued + 1
  /\ step' = IF kind = "lifecycle" /\ primary # None THEN "copy" ELSE "write"
  /\ UNCHANGED <<kind, primary, backup, tmp, damages>>

\* shutil.copy2 empties the backup ...
TruncateBackup ==
  /\ step = "copy"
  /\ backup' = Corrupt
  /\ step' = "copying"
  /\ UNCHANGED <<kind, primary, tmp, current, issued, damages>>

\* ... and fills it with whatever the primary holds.
FillBackup ==
  /\ step = "copying"
  /\ backup' = primary
  /\ step' = "write"
  /\ UNCHANGED <<kind, primary, tmp, current, issued, damages>>

WriteTmp ==
  /\ step = "write"
  /\ tmp' = current
  /\ step' = IF kind = "memory" /\ primary # None THEN "retire" ELSE "replace"
  /\ UNCHANGED <<kind, primary, backup, current, issued, damages>>

\* save_memory renames the old file to the backup: for a moment there is no primary.
Retire ==
  /\ step = "retire"
  /\ backup' = primary /\ primary' = None
  /\ step' = "replace"
  /\ UNCHANGED <<kind, tmp, current, issued, damages>>

\* Mutant: the file that was written is not put in place.
ReplaceForgotten ==
  /\ step = "replace"
  /\ step' = "idle"
  /\ UNCHANGED <<kind, primary, backup, tmp, current, issued, damages>>

Replace ==
  /\ step = "replace"
  /\ primary' = tmp /\ tmp' = None
  /\ step' = "idle"
  /\ UNCHANGED <<kind, backup, current, issued, damages>>

Crash ==
  /\ step # "down"
  /\ step' = "down"
  /\ UNCHANGED <<kind, primary, backup, tmp, current, issued, damages>>

DamagePrimary ==
  /\ step \in {"down", "idle"} /\ primary # None /\ damages < MaxDamage
  /\ primary' = Corrupt
  /\ damages' = damages + 1
  /\ UNCHANGED <<kind, backup, tmp, step, current, issued>>

Next ==
  \/ Open \/ BeginSave \/ TruncateBackup \/ FillBackup \/ WriteTmp \/ Retire \/ Replace
  \/ Crash \/ DamagePrimary

Spec == Init /\ [][Next]_vars

------------------------------------------------------------------------------
\* What a running process holds is what a restart would load, as long as nothing
\* was damaged: a save that returned is durable (save_memory, save_lifecycle_state).
IdleIsDurable == step = "idle" /\ damages = 0 => Loaded = current

Reg == INSTANCE Register WITH
         value   <- Loaded,
         pending <- IF step \in Saving THEN current ELSE None,
         damaged <- damages > 0,
         Lost    <- Corrupt

\* Both protocols implement an atomic register, whenever the process dies: a
\* reader finds the old state or the new one, and never an unreadable file that
\* nobody damaged.
ImplementsRegister == Reg!Spec

\* "Corrupt runtime state can recover from its last known-good backup": what can
\* be loaded can still be loaded after any step of the program, a crash included.
RecoveryIsKept ==
  [][kind = "lifecycle" /\ Loaded # Corrupt /\ damages' = damages => Loaded' # Corrupt]_vars
====
