---------------------------- MODULE Conversation ----------------------------
(***************************************************************************)
(* The messages of a supervisor run: what is typed, sent and read in the   *)
(* conversations of FreshChat (browser/chatgpt.py, browser/detection.py).  *)
(* ChatGPT answers in its own time, also while no process listens.         *)
(*                                                                         *)
(* A message is sent in attempts: an error of the browser starts another   *)
(* one, whatever became of the first.  The answer is the last text of the  *)
(* page once the page looks different from before, the text has been the   *)
(* same for quiet_seconds, and no stop control shows; each poll looks at   *)
(* the texts first and at the control afterwards.                          *)
(***************************************************************************)
EXTENDS FreshChat, Sequences, SequencesExt

CONSTANTS MaxSend,   \* bound: messages ever sent; they are numbered
          MaxTry     \* bound: attempts of one message

ASSUME SendAssumption == MaxSend \in Nat /\ MaxTry \in Nat \ {0}

VARIABLES
  chat,      \* by conversation: what ChatGPT has of it
  draft,     \* messages in the composer of the page
  sent,      \* messages so far
  exchange,  \* the variables of the call that sends and waits
  odd        \* history of the exchange: what happened outside of the usual order

exchanges == <<chat, draft, sent, exchange, odd>>

Message == 1..MaxSend
Conversations == 1..MaxChat

\* A text of the page: the how-manieth answer it is, and whether it is all of it.
Text == [number : 1..(MaxSend * MaxTry), whole : BOOLEAN]

\* posts: the messages that were posted; answers: those whose answer stands on the page;
\* turns: the message ids the page shows; phase: of the answer to the last post.
Chat == [posts : Seq(Message), answers : Seq(Message), turns : 0..(MaxSend * MaxTry),
         phase : {"idle", "posted", "thinking", "writing"}]

\* before, before_ids, candidate (last_text), quiet: since last_change.
Exchange == [pc : {"none", "type", "press", "read", "observe", "returned", "saved"},
             try : 0..MaxTry, before : Text \cup {None}, before_ids : 0..(MaxSend * MaxTry),
             candidate : Text \cup {None}, quiet : BOOLEAN]

NoExchange == [pc |-> "none", try |-> 0, before |-> None, before_ids |-> 0,
               candidate |-> None, quiet |-> FALSE]

ConversationTypeOK ==
  /\ chat \in [Conversations -> Chat]
  /\ \A c \in Conversations :
       /\ c > chats => chat[c].posts = << >>
       /\ chat[c].phase # "idle" => chat[c].posts # << >>
  /\ draft \in Seq(Message) /\ sent \in 0..MaxSend
  /\ exchange \in Exchange /\ odd \subseteq {"busy", "failed", "raced"}

ConversationInit ==
  /\ Init
  /\ chat = [c \in Conversations |->
               [posts |-> << >>, answers |-> << >>, turns |-> 0, phase |-> "idle"]]
  /\ draft = << >> /\ sent = 0 /\ exchange = NoExchange /\ odd = {}

------------------------------------------------------------------------------
(* ChatGPT, outside. *)

\* _assistant_texts: the last one of the page.
LastText(c) ==
  LET writing == chat[c].phase = "writing"
      number  == Len(chat[c].answers) + (IF writing THEN 1 ELSE 0) IN
  IF number = 0 THEN None ELSE [number |-> number, whole |-> ~ writing]

\* The stop control shows.
Generating(c) == chat[c].phase \in {"thinking", "writing"}

Answered(c) == [chat[c] EXCEPT !.answers = Append(@, Last(chat[c].posts)), !.phase = "idle"]

Odd(what, c) == odd' = IF page = c /\ exchange.pc \in {"type", "press", "read", "observe"}
                       THEN odd \cup {what} ELSE odd

\* The turn of the answer shows, then its text begins, and it is finished.
Think(c) ==
  /\ chat[c].phase = "posted"
  /\ chat' = [chat EXCEPT ![c].phase = "thinking", ![c].turns = @ + 1]
  /\ UNCHANGED <<vars, draft, sent, exchange, odd>>

BeginText(c) ==
  /\ chat[c].phase = "thinking"
  /\ chat' = [chat EXCEPT ![c].phase = "writing"]
  /\ UNCHANGED <<vars, draft, sent, exchange, odd>>

Finish(c) ==
  /\ chat[c].phase = "writing"
  /\ chat' = [chat EXCEPT ![c] = Answered(c)]
  /\ IF exchange.pc = "observe" THEN Odd("raced", c) ELSE UNCHANGED odd
  /\ UNCHANGED <<vars, draft, sent, exchange>>

\* No answer comes; what was shown of its turn stays.
Fail(c) ==
  /\ chat[c].phase \in {"posted", "thinking"}
  /\ chat' = [chat EXCEPT ![c].phase = "idle"]
  /\ Odd("failed", c)
  /\ UNCHANGED <<vars, draft, sent, exchange>>

------------------------------------------------------------------------------
(* Sending: send_project_message_and_wait_for_response and send_message. *)

\* Mutant: the attempts of all messages are counted together.
AskCountingOn ==
  /\ pc \in {"talk", "reload"} /\ exchange.pc \in {"none", "saved"}
  /\ sent < MaxSend
  /\ sent' = sent + 1
  /\ exchange' = [NoExchange EXCEPT !.pc = "type", !.try = exchange.try + 1,
                                    !.before = LastText(page), !.before_ids = chat[page].turns]
  /\ odd' = IF chat[page].phase = "idle" THEN {} ELSE {"busy"}
  /\ UNCHANGED <<vars, chat, draft>>

\* What the page shows is noted, before anything is typed.
Ask ==
  /\ pc \in {"talk", "reload"} /\ exchange.pc \in {"none", "saved"}
  /\ sent < MaxSend
  /\ sent' = sent + 1
  /\ exchange' = [NoExchange EXCEPT !.pc = "type", !.try = 1, !.before = LastText(page),
                                    !.before_ids = chat[page].turns]
  /\ odd' = IF chat[page].phase = "idle" THEN {} ELSE {"busy"}
  /\ UNCHANGED <<vars, chat, draft>>

\* click and insert_text
Type ==
  /\ exchange.pc = "type"
  /\ draft' = Append(draft, sent)
  /\ exchange' = [exchange EXCEPT !.pc = "press"]
  /\ UNCHANGED <<vars, chat, sent, odd>>

\* The composer's contents become a message; an answer under way is cut off.
Post ==
  LET c == page
      cut == IF chat[c].phase = "writing" THEN Answered(c) ELSE chat[c] IN
  /\ chat' = [chat EXCEPT ![c] = [cut EXCEPT !.posts = Append(@, Last(draft)),
                                             !.phase = "posted"]]
  /\ draft' = << >>

\* Enter: the page may do nothing, as it does while it generates.  After it the call
\* waits, with or without evidence that the message was sent; or the browser reports an
\* error, and another attempt is made.
Press ==
  /\ exchange.pc = "press"
  /\ Post \/ UNCHANGED <<chat, draft>>
  /\ exchange' \in {[exchange EXCEPT !.pc = "read"],
                    [exchange EXCEPT !.pc = "type", !.try = @ + 1]}
  /\ exchange'.try <= MaxTry
  /\ UNCHANGED <<vars, sent, odd>>

------------------------------------------------------------------------------
(* Waiting: wait_for_response. *)

\* Mutant: whatever text the page shows.
IsThere(c) == LastText(c) # None

\* Message ids that changed, more texts, or another last text.
IsNew(c) ==
  \/ exchange.before_ids # 0 /\ chat[c].turns # exchange.before_ids
  \/ LastText(c) # exchange.before

\* The texts and the ids are read.
Read ==
  /\ exchange.pc = "read"
  /\ LastText(page) # None /\ IsNew(page)
  /\ exchange' = [exchange EXCEPT !.pc = "observe", !.candidate = LastText(page),
                                  !.quiet = @ /\ exchange.candidate = LastText(page)]
  /\ UNCHANGED <<vars, chat, draft, sent, odd>>

\* quiet_seconds pass between polls.  A post is taken up before that.
QuietPasses ==
  /\ exchange.pc = "read" /\ exchange.candidate # None
  /\ chat[page].phase # "posted"
  /\ exchange' = [exchange EXCEPT !.quiet = TRUE]
  /\ UNCHANGED <<vars, chat, draft, sent, odd>>

\* Mutant: the stop control is not looked at.
ObserveText ==
  /\ exchange.pc = "observe"
  /\ \E next \in {"read", "returned"} :
       /\ next = "returned" => exchange.quiet
       /\ exchange' = [exchange EXCEPT !.pc = next]
  /\ UNCHANGED <<vars, chat, draft, sent, odd>>

\* The controls are observed.  The composer has to be there as well (input_ready), which
\* the page may withhold at any poll.
Observe ==
  /\ exchange.pc = "observe"
  /\ \E next \in {"read", "returned"} :
       /\ next = "returned" => exchange.quiet /\ ~ Generating(page)
       /\ exchange' = [exchange EXCEPT !.pc = next]
  /\ UNCHANGED <<vars, chat, draft, sent, odd>>

\* An error of the browser between two polls or within one: another attempt is made, whose
\* wait starts anew but compares with the same texts as the first one.
WaitFails ==
  /\ exchange.pc \in {"read", "observe"} /\ exchange.try < MaxTry
  /\ exchange' = [exchange EXCEPT !.pc = "type", !.try = @ + 1, !.candidate = None, !.quiet = FALSE]
  /\ UNCHANGED <<vars, chat, draft, sent, odd>>

------------------------------------------------------------------------------
(* The steps of FreshChat, and when the run takes them. *)

\* Mutant: the conversation is noted once a message is on its way.
NoteConversationEarly ==
  /\ exchange.pc \in {"read", "observe", "returned"} /\ SaveResponse
  /\ exchange' = [exchange EXCEPT !.pc = IF @ = "returned" THEN "saved" ELSE @]
  /\ UNCHANGED <<chat, draft, sent, odd>>

NoteConversation ==
  /\ exchange.pc = "returned" /\ SaveResponse
  /\ exchange' = [exchange EXCEPT !.pc = "saved"]
  /\ UNCHANGED <<chat, draft, sent, odd>>

\* Another page is opened, and what was typed is gone; but a project's page that is
\* open already is not loaded again.
Navigate ==
  /\ \/ Resume /\ draft' = << >>
     \/ Open /\ draft' \in {<< >>, draft}
  /\ exchange' = NoExchange /\ odd' = {}
  /\ UNCHANGED <<chat, sent>>

RunStep ==
  /\ \/ Tick \/ Start \/ Wait \/ Mark \/ MarkNext
     \/ Transition /\ exchange.pc = "saved"
     \/ Reload /\ exchange.pc = "returned"
  /\ UNCHANGED exchanges

\* Also the timeouts of sending and of waiting.
RunEnds ==
  /\ End
  /\ exchange' = NoExchange /\ odd' = {}
  /\ UNCHANGED <<chat, draft, sent>>

ConversationNext ==
  \/ \E c \in Conversations : Think(c) \/ BeginText(c) \/ Finish(c) \/ Fail(c)
  \/ Ask \/ Type \/ Press \/ Read \/ QuietPasses \/ Observe \/ WaitFails
  \/ NoteConversation \/ Navigate \/ RunStep \/ RunEnds

ConversationSpec == ConversationInit /\ [][ConversationNext]_<<vars, exchanges>>

------------------------------------------------------------------------------
\* The message that the text which is returned answers.
Addressee(text) ==
  IF text.number <= Len(chat[page].answers) THEN chat[page].answers[text.number]
  ELSE Last(chat[page].posts)

\* What wait_for_response returns answers the message that was just sent, in whatever
\* attempt it went out, although earlier answers stand on the page and other runs have
\* left some; not so when an answer was under way at the start, none came, or the page
\* changed between the two looks of a poll.
AnswersThisMessage ==
  exchange.pc = "returned" /\ odd = {} => Addressee(exchange.candidate) = sent

\* "requires a conservative quiet period and no detected stop control" (README.md): what is
\* returned is the last text, and all of it, unless the page changed between the two looks.
ResponseIsWhole ==
  exchange.pc = "returned" /\ "raced" \notin odd =>
    exchange.candidate.whole /\ exchange.candidate = LastText(page)

\* A conversation that a later run may resume has an answer: one that was only opened, or
\* asked in vain, is never persisted (_start_or_resume_chat, _mark_fresh_chat_started).
PersistedConversationIsAnswered ==
  \A c \in {url, mem_url} \ {None} : chat[c].answers # << >>
====
