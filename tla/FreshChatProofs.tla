--------------------------- MODULE FreshChatProofs ---------------------------
(***************************************************************************)
(* Fresh chats are spaced, for every delay and however often the process   *)
(* dies: the time on disk is never older than the last chat, and neither   *)
(* is any copy of it that may still be written over it.                    *)
(***************************************************************************)
EXTENDS FreshChat, TLAPS

Covers(t) == started # None => t # None /\ t >= started

SpacedInv ==
  /\ TypeOK
  /\ Covers(stamp)
  /\ pc # "down" => Covers(last_at)
  /\ pc \notin {"down", "reload"} => Covers(mem_stamp)
  /\ pc \in {"mark", "mark_next"} => last_at = None \/ now - last_at >= Delay
  /\ pc \in {"open", "open_next"} =>
       last_at # None /\ stamp = last_at /\ (started # None => last_at - started >= Delay)
  /\ pc = "open" => mem_stamp = last_at
  \* The URL on disk is one the process may resume.
  /\ pc = "resume" => mem_url # None

LEMMA SpacedInit == Init => SpacedInv
BY DelayAssumption DEF Init, SpacedInv, TypeOK, Covers, Time, Location

LEMMA SpacedStep == SpacedInv /\ [Next]_vars => SpacedInv'
<1> SUFFICES ASSUME SpacedInv, [Next]_vars PROVE SpacedInv'
  OBVIOUS
<1> USE DelayAssumption, NoTimeAssumption
    DEF SpacedInv, TypeOK, Covers, Time, Location, file, memory, history
<1>1. CASE Tick
  BY <1>1 DEF Tick
<1>2. CASE Start
  BY <1>2 DEF Start
<1>3. CASE Resume
  BY <1>3 DEF Resume
<1>4. CASE Wait
  BY <1>4 DEF Wait
<1>5. CASE Mark
  BY <1>5 DEF Mark
<1>6. CASE MarkNext
  BY <1>6 DEF MarkNext
<1>7. CASE Open
  BY <1>7 DEF Open
<1>8. CASE Reload
  BY <1>8 DEF Reload
<1>9. CASE SaveResponse
  BY <1>9 DEF SaveResponse
<1>10. CASE Transition \/ End
  BY <1>10 DEF Transition, End
<1>11. CASE UNCHANGED vars
  BY <1>11 DEF vars
<1> QED
  BY <1>1, <1>2, <1>3, <1>4, <1>5, <1>6, <1>7, <1>8, <1>9, <1>10, <1>11 DEF Next

LEMMA SpacedInvariant == Spec => []SpacedInv
BY SpacedInit, SpacedStep, PTL DEF Spec

\* The clock, the times and the conversations keep their types.
THEOREM FreshChatTypes == Spec => []TypeOK
<1>1. SpacedInv => TypeOK
  BY DEF SpacedInv
<1> QED
  BY <1>1, SpacedInvariant, PTL

\* A chat is opened at least Delay after the recorded start of the one before it.
THEOREM ChatsAreSpaced == Spec => FreshChatsAreSpaced
<1>1. ASSUME SpacedInv, [Next]_vars
      PROVE  [chats' # chats /\ started # None => now - started >= Delay]_vars
  <2>1. CASE Open
    BY <1>1, <2>1, DelayAssumption, NoTimeAssumption DEF Open, SpacedInv, TypeOK, Covers, Time
  <2>2. CASE ~Open
    BY <1>1, <2>2 DEF Next, vars, history, Tick, Start, Resume, Wait, Mark, MarkNext, Reload,
                      SaveResponse, Transition, End
  <2> QED
    BY <2>1, <2>2
<1> QED
  BY <1>1, SpacedInvariant, PTL DEF Spec, FreshChatsAreSpaced
====
