-------------------------- MODULE StateFilesProofs --------------------------
(***************************************************************************)
(* Both save protocols implement Register, for any number of saves,        *)
(* crashes and damages.                                                    *)
(***************************************************************************)
EXTENDS StateFiles, TLAPS

\* The contents a file may have by now.
Written == (1..issued) \cup {None, Corrupt}

FilesInv ==
  /\ TypeOK
  /\ primary \in Written /\ backup \in Written
  /\ step \in Saving => current = issued /\ issued > 0
  /\ step \in {"retire", "replace"} => tmp = current
  /\ step \in {"copy", "copying"} => kind = "lifecycle" /\ primary # None
  /\ step = "retire" => kind = "memory" /\ primary # None
  /\ damages = 0 => primary # Corrupt /\ (kind = "memory" => backup # Corrupt)
  /\ IdleIsDurable

\* A load returns a state that was saved, the defaults, or nothing readable.
LEMMA LoadedType == FilesInv => Loaded \in (0..issued) \cup {Corrupt}
BY SaveAssumption, FileAssumption
DEF FilesInv, Written, TypeOK, Loaded, LoadLifecycle, LoadMemory, Readable

\* The same, after a step.
LEMMA LoadedTypeNext == FilesInv' => (Loaded \in (0..issued) \cup {Corrupt})'
BY LoadedType, PTL

LEMMA FilesInit == Init => FilesInv
BY SaveAssumption, FileAssumption
DEF Init, FilesInv, TypeOK, Written, File, Saving, IdleIsDurable, Loaded, LoadLifecycle, LoadMemory

\* What a load returns does not change with a step of a save, up to the last.
LEMMA SaveKeepsLoaded ==
  ASSUME FilesInv, damages = 0, TruncateBackup \/ FillBackup \/ WriteTmp \/ Retire
  PROVE  Loaded' = Loaded
<1> USE FileAssumption DEF FilesInv, Loaded, LoadLifecycle, LoadMemory, Readable
<1>1. CASE TruncateBackup \/ FillBackup
  BY <1>1 DEF TruncateBackup, FillBackup
<1>2. CASE WriteTmp
  BY <1>2 DEF WriteTmp
<1>3. CASE Retire
  BY <1>3 DEF Retire
<1> QED
  BY <1>1, <1>2, <1>3

\* The last step of a save makes its state the one that loads.
LEMMA ReplaceLoadsCurrent ==
  ASSUME FilesInv, Replace
  PROVE  Loaded' = current
BY SaveAssumption, FileAssumption
DEF FilesInv, TypeOK, Saving, Replace, Loaded, LoadLifecycle, LoadMemory, Readable

LEMMA FilesStep == FilesInv /\ [Next]_vars => FilesInv'
<1> SUFFICES ASSUME FilesInv, [Next]_vars PROVE FilesInv'
  OBVIOUS
<1> USE SaveAssumption, FileAssumption DEF FilesInv, TypeOK, Written, File, Version, Saving
<1>1. CASE Open
  BY <1>1, LoadedType DEF Open, IdleIsDurable, Loaded, LoadLifecycle, LoadMemory
<1>2. CASE BeginSave
  BY <1>2 DEF BeginSave, IdleIsDurable
<1>3. CASE TruncateBackup \/ FillBackup
  BY <1>3 DEF TruncateBackup, FillBackup, IdleIsDurable
<1>4. CASE WriteTmp
  BY <1>4 DEF WriteTmp, IdleIsDurable
<1>5. CASE Retire
  BY <1>5 DEF Retire, IdleIsDurable
<1>6. CASE Replace
  <2>1. IdleIsDurable'
    BY <1>6, ReplaceLoadsCurrent DEF Replace, IdleIsDurable
  <2> QED
    BY <1>6, <2>1 DEF Replace
<1>7. CASE Crash
  BY <1>7 DEF Crash, IdleIsDurable
<1>8. CASE DamagePrimary
  BY <1>8 DEF DamagePrimary, IdleIsDurable
<1>9. CASE UNCHANGED vars
  BY <1>9 DEF vars, IdleIsDurable, Loaded, LoadLifecycle, LoadMemory
<1> QED
  BY <1>1, <1>2, <1>3, <1>4, <1>5, <1>6, <1>7, <1>8, <1>9 DEF Next

LEMMA FilesCorrect == Spec => []FilesInv
BY FilesInit, FilesStep, PTL DEF Spec

\* No process goes on with a state that does not load.
THEOREM FileTypes == Spec => []TypeOK
<1>1. FilesInv => TypeOK
  BY DEF FilesInv
<1> QED
  BY <1>1, FilesCorrect, PTL

\* A save that returned is what the next process loads.
THEOREM SavesAreDurable == Spec => []IdleIsDurable
<1>1. FilesInv => IdleIsDurable
  BY DEF FilesInv
<1> QED
  BY <1>1, FilesCorrect, PTL

\* A reader finds the old state or the new one, whenever the process that saves dies.
THEOREM FilesImplementRegister == Spec => ImplementsRegister
<1>1. Init => Reg!Init
  BY DEF Init, Reg!Init, Saving, Loaded, LoadLifecycle, LoadMemory
<1>2. ASSUME FilesInv, FilesInv', [Next]_vars
      PROVE  [Reg!Next]_<<Loaded, IF step \in Saving THEN current ELSE None, damages > 0>>
  <2> USE <1>2
  <2>1. CASE Open \/ (Crash /\ step = "idle")
    BY <2>1 DEF Open, Crash, Saving, Loaded, LoadLifecycle, LoadMemory
  <2>2. CASE BeginSave
    <3>1. Reg!Begin
      BY <2>2, SaveAssumption
      DEF BeginSave, Reg!Begin, Reg!Value, Saving, FilesInv, TypeOK, Loaded, LoadLifecycle, LoadMemory
    <3> QED
      BY <3>1 DEF Reg!Next
  <2>3. CASE TruncateBackup \/ FillBackup \/ WriteTmp \/ Retire
    <3>1. UNCHANGED <<IF step \in Saving THEN current ELSE None, damages>>
      BY <2>3 DEF TruncateBackup, FillBackup, WriteTmp, Retire, Saving
    <3>2. CASE damages = 0
      BY <2>3, <3>1, <3>2, SaveKeepsLoaded
    <3>3. CASE damages # 0
      <4>1. (damages > 0) = TRUE /\ (damages > 0)' = TRUE
        BY <3>1, <3>3 DEF FilesInv, TypeOK
      <4>2. Loaded' \in Reg!Value \cup {Corrupt}
        BY LoadedTypeNext, SaveAssumption DEF FilesInv, TypeOK, Reg!Value
      <4>3. Reg!Damage
        BY <3>1, <4>1, <4>2 DEF Reg!Damage
      <4> QED
        BY <4>3 DEF Reg!Next
    <3> QED
      BY <3>2, <3>3
  <2>4. CASE Replace
    <3>1. Reg!Commit
      BY <2>4, ReplaceLoadsCurrent, FileAssumption
      DEF Replace, Reg!Commit, Saving, FilesInv, TypeOK
    <3> QED
      BY <3>1 DEF Reg!Next
  <2>5. CASE Crash /\ step \in Saving
    <3>1. Reg!Fail
      BY <2>5, FileAssumption
      DEF Crash, Reg!Fail, Saving, FilesInv, TypeOK, Loaded, LoadLifecycle, LoadMemory
    <3> QED
      BY <3>1 DEF Reg!Next
  <2>6. CASE DamagePrimary
    <3>1. (damages > 0)' = TRUE
      BY <2>6 DEF DamagePrimary, FilesInv, TypeOK
    <3>2. Loaded' \in Reg!Value \cup {Corrupt}
      BY LoadedTypeNext, SaveAssumption DEF FilesInv, TypeOK, Reg!Value
    <3>3. Reg!Damage
      BY <2>6, <3>1, <3>2 DEF DamagePrimary, Reg!Damage, Saving
    <3> QED
      BY <3>3 DEF Reg!Next
  <2>7. CASE UNCHANGED vars
    BY <2>7 DEF vars, Loaded, LoadLifecycle, LoadMemory
  <2> QED
    BY <2>1, <2>2, <2>3, <2>4, <2>5, <2>6, <2>7 DEF Next, Crash, FilesInv, TypeOK, Saving
<1> QED
  BY <1>1, <1>2, FilesCorrect, PTL DEF Spec, ImplementsRegister, Reg!Spec
====
