------------------------------ MODULE FreshChat ------------------------------
(***************************************************************************)
(* Which conversation a supervisor talks in, and how far apart it starts   *)
(* fresh ones (supervisor.py).  A run resumes the conversation whose URL   *)
(* is in supervisor_state.json, or starts a fresh one; so does every phase *)
(* transition, which writes the file through a memory object of its own.   *)
(* Conversations are numbered in the order they are started; the clock is  *)
(* the wall clock, which does not go back.                                 *)
(***************************************************************************)
EXTENDS Integers, Values

CONSTANTS Delay,      \* min_fresh_chat_delay_seconds
          MaxTime,    \* bound: the clock stops here
          MaxChat     \* bound: conversations ever started

ASSUME DelayAssumption == Delay \in Nat /\ MaxTime \in Nat /\ MaxChat \in Nat
ASSUME NoTimeAssumption == None \notin Int

VARIABLES
  now,
  (* On disk: conversation_url and last_fresh_chat_at. *)
  url, stamp,
  (* In the process. *)
  pc,                   \* where it is; "down" when there is none
  mem_url, mem_stamp,   \* the same fields of the memory object of the loop
  last_at,              \* self._last_fresh_chat_at
  page,                 \* the conversation on the page
  (* History. *)
  chats,                \* conversations started
  started               \* the time that was recorded for the last of them

file == <<url, stamp>>
memory == <<mem_url, mem_stamp>>
history == <<chats, started>>
vars == <<now, file, pc, memory, last_at, page, history>>

Time == 0..MaxTime

\* Waiting, marking and opening, at the start of a run and for the next phase.
Location == {"down", "resume", "wait", "mark", "open", "talk",
             "wait_next", "mark_next", "open_next", "reload"}

TypeOK ==
  /\ now \in Time
  /\ chats \in 0..MaxChat /\ started \in 0..now \cup {None}
  /\ url \in 1..chats \cup {None} /\ mem_url \in 1..chats \cup {None}
  /\ stamp \in 0..now \cup {None} /\ mem_stamp \in 0..now \cup {None}
  /\ last_at \in 0..now \cup {None}
  /\ pc \in Location
  /\ page \in 1..chats \cup {None}
  /\ pc \in {"talk", "wait_next", "mark_next", "open_next", "reload"} => page # None

Init ==
  /\ now = 0
  /\ url = None /\ stamp = None
  /\ pc = "down" /\ mem_url = None /\ mem_stamp = None /\ last_at = None /\ page = None
  /\ chats = 0 /\ started = None

------------------------------------------------------------------------------
Tick ==
  /\ now < MaxTime
  /\ now' = now + 1
  /\ UNCHANGED <<file, pc, memory, last_at, page, history>>

\* Mutant: a run resumes without looking whether there is anything to resume.
StartAlwaysResumes ==
  /\ pc = "down"
  /\ mem_url' = url /\ mem_stamp' = stamp /\ last_at' = stamp /\ page' = url
  /\ pc' = "talk"
  /\ UNCHANGED <<now, file, history>>

Start ==
  /\ pc = "down"
  /\ mem_url' = url /\ mem_stamp' = stamp /\ last_at' = stamp /\ page' = None
  /\ pc' = IF url # None THEN "resume" ELSE "wait"
  /\ UNCHANGED <<now, file, history>>

\* The persisted conversation opens, or is given up for a fresh one.
Resume ==
  /\ pc = "resume"
  /\ \/ page' = mem_url /\ pc' = "talk"
     \/ pc' = "wait" /\ UNCHANGED page
  /\ UNCHANGED <<now, file, memory, last_at, history>>

\* _wait_before_fresh_chat
Wait ==
  /\ \/ pc = "wait" /\ pc' = "mark"
     \/ pc = "wait_next" /\ pc' = "mark_next"
  /\ last_at # None => now - last_at >= Delay
  /\ UNCHANGED <<now, file, memory, last_at, page, history>>

\* _mark_fresh_chat_started with the memory object of the loop: its URL, which
\* could not be resumed, is saved with it.
Mark ==
  /\ pc = "mark"
  /\ last_at' = now /\ mem_stamp' = now
  /\ stamp' = now /\ url' = mem_url
  /\ pc' = "open"
  /\ UNCHANGED <<now, mem_url, page, history>>

\* In a transition the object is one just loaded; the loop's is left as it was.
MarkNext ==
  /\ pc = "mark_next"
  /\ last_at' = now
  /\ stamp' = now
  /\ pc' = "open_next"
  /\ UNCHANGED <<now, url, memory, page, history>>

\* _start_fresh_chat; the bootstrap prompt is sent in it.
Open ==
  /\ chats < MaxChat
  /\ \/ pc = "open" /\ pc' = "talk"
     \/ pc = "open_next" /\ pc' = "reload"
  /\ page' = chats + 1 /\ chats' = chats + 1 /\ started' = last_at
  /\ UNCHANGED <<now, file, memory, last_at>>

\* Mutant: the loop goes on with the object it has.
ReloadForgotten ==
  /\ pc = "reload"
  /\ pc' = "talk"
  /\ UNCHANGED <<now, file, memory, last_at, page, history>>

\* After the transition the loop loads what the transition saved.
Reload ==
  /\ pc = "reload"
  /\ mem_url' = url /\ mem_stamp' = stamp
  /\ pc' = "talk"
  /\ UNCHANGED <<now, file, last_at, page, history>>

\* A response, GitHub observed: the URL is noted and the whole object saved.
SaveResponse ==
  /\ pc = "talk"
  /\ mem_url' = page
  /\ \/ url' = page /\ stamp' = mem_stamp
     \/ UNCHANGED file                            \* the save failed
  /\ UNCHANGED <<now, pc, mem_stamp, last_at, page, history>>

\* A phase is complete and the next one is to have a conversation of its own.
Transition ==
  /\ pc = "talk"
  /\ pc' = "wait_next"
  /\ UNCHANGED <<now, file, memory, last_at, page, history>>

\* The run ends, or the process dies.
End ==
  /\ pc # "down"
  /\ pc' = "down"
  /\ UNCHANGED <<now, file, memory, last_at, page, history>>

Next ==
  \/ Tick \/ Start \/ Resume \/ Wait \/ Mark \/ MarkNext \/ Open \/ Reload
  \/ SaveResponse \/ Transition \/ End

Spec == Init /\ [][Next]_vars

------------------------------------------------------------------------------
\* Fresh chats are at least Delay apart, counted from the recorded start of the
\* last one, also across transitions, restarts, crashes and failed saves
\* (_wait_before_fresh_chat, and the reload after a transition).
FreshChatsAreSpaced ==
  [][chats' # chats /\ started # None => now - started >= Delay]_vars
====
