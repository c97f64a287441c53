------------------------- MODULE ConversationProofs -------------------------
(***************************************************************************)
(* The exchange of messages only restricts when the steps of FreshChat are *)
(* taken, so what is proved of FreshChat holds of the composition.  And    *)
(* the answer that is returned is whole, and the answer to the message     *)
(* that was sent: by an invariant that counts what the attempts may have   *)
(* posted, knows what the page showed when the message was typed, and says *)
(* of each step of the call how far ChatGPT can have come.                 *)
(***************************************************************************)
EXTENDS Conversation, FreshChatProofs

LEMMA ConversationStep == [ConversationNext]_<<vars, exchanges>> => [Next]_vars
<1> SUFFICES ASSUME [ConversationNext]_<<vars, exchanges>> PROVE [Next]_vars
  OBVIOUS
<1>1. CASE \E c \in Conversations : Think(c) \/ BeginText(c) \/ Finish(c) \/ Fail(c)
  BY <1>1 DEF Think, BeginText, Finish, Fail
<1>2. CASE Ask \/ Type \/ Press \/ Read \/ QuietPasses \/ Observe \/ WaitFails
  BY <1>2 DEF Ask, Type, Press, Read, QuietPasses, Observe, WaitFails
<1>3. CASE NoteConversation \/ Navigate
  BY <1>3 DEF NoteConversation, Navigate, Next
<1>4. CASE RunStep \/ RunEnds
  BY <1>4 DEF RunStep, RunEnds, Next
<1> QED
  BY <1>1, <1>2, <1>3, <1>4 DEF ConversationNext

\* The supervisor with its messages behaves as FreshChat does.
THEOREM ConversationIsFreshChat == ConversationSpec => Spec
<1>1. ConversationInit => Init
  BY DEF ConversationInit
<1> QED
  BY <1>1, ConversationStep, PTL DEF ConversationSpec, Spec

\* However messages are sent, repeated and answered, fresh chats keep their distance.
THEOREM ConversationsAreSpaced == ConversationSpec => FreshChatsAreSpaced
BY ConversationIsFreshChat, ChatsAreSpaced

\* The run's variables keep their types while messages are exchanged.
THEOREM ConversationTypes == ConversationSpec => []TypeOK
BY ConversationIsFreshChat, FreshChatTypes

------------------------------------------------------------------------------
(* The conversations. *)

\* No more is posted than attempts were made: all of every earlier message, and of the
\* one that is being sent those before the current one, which counts once it was made.
Spent ==
  CASE exchange.pc \in {"type", "press"}   -> (sent - 1) * MaxTry + (exchange.try - 1)
    [] exchange.pc \in {"read", "observe"} -> (sent - 1) * MaxTry + exchange.try
    [] OTHER                               -> sent * MaxTry

\* Each post has at most one turn and one answer, and the last one neither before ChatGPT
\* takes it up.
Sound(d) ==
  /\ d \in Chat
  /\ Len(d.answers) <= Len(d.posts)
  /\ d.phase # "idle" => Len(d.answers) < Len(d.posts)
  /\ d.turns <= Len(d.posts)
  /\ d.phase = "posted" => d.turns < Len(d.posts)

ChatsInv ==
  /\ chat \in [Conversations -> Chat]
  /\ \A c \in Conversations : /\ Sound(chat[c])
                              /\ Len(chat[c].posts) <= Spent
                              /\ c > chats => chat[c].posts = << >>

\* A message is typed, sent and waited for in an open conversation, and what is sent is
\* the message that was typed last.
ExchangeInv ==
  /\ exchange \in Exchange /\ sent \in 0..MaxSend /\ draft \in Seq(Message)
  /\ odd \subseteq {"busy", "failed", "raced"}
  /\ exchange.pc \notin {"none", "saved"} => pc \in {"talk", "reload"}
  /\ exchange.pc # "none" => sent > 0 /\ exchange.try > 0
  /\ exchange.pc = "press" => draft # << >> /\ Last(draft) = sent
  /\ exchange.pc \in {"type", "press"} => exchange.candidate = None /\ ~ exchange.quiet

LEMMA ProductFacts ==
  ASSUME NEW n \in Nat, NEW k \in Nat, NEW t \in Nat, n <= k
  PROVE  n * t \in Nat /\ n * t <= k * t /\ (n + 1) * t = n * t + t
<1>1. k - n \in Nat /\ (k - n) * t >= 0 /\ k * t = n * t + (k - n) * t
  OBVIOUS
<1>2. n * t \in Nat /\ (n + 1) * t = n * t + t
  OBVIOUS
<1> QED
  BY <1>1, <1>2

LEMMA AppendFacts ==
  ASSUME NEW s \in Seq(Message), NEW m \in Message
  PROVE  /\ Append(s, m) \in Seq(Message) /\ Len(Append(s, m)) = Len(s) + 1
         /\ Append(s, m) # << >> /\ Last(Append(s, m)) = m
BY DEF Last

LEMMA LastFacts ==
  ASSUME NEW s \in Seq(Message), Len(s) > 0 \/ s # << >>
  PROVE  Last(s) \in Message /\ s # << >> /\ Len(s) > 0
BY DEF Last

\* The attempts leave room for what they post.
LEMMA SpentFacts ==
  ASSUME ExchangeInv
  PROVE  /\ Spent \in Nat /\ Spent <= MaxSend * MaxTry /\ Spent <= sent * MaxTry
         /\ exchange.pc \in {"type", "press"} =>
              Spent + 1 <= sent * MaxTry /\ (sent - 1) * MaxTry \in Nat
         /\ sent * MaxTry \in Nat /\ sent * MaxTry <= MaxSend * MaxTry
<1>1. sent * MaxTry \in Nat /\ sent * MaxTry <= MaxSend * MaxTry
  BY ProductFacts, SendAssumption DEF ExchangeInv
<1>2. CASE exchange.pc \in {"type", "press", "read", "observe"}
  <2>1. sent - 1 \in Nat /\ sent - 1 <= sent /\ exchange.try \in 1..MaxTry
    BY <1>2, SendAssumption DEF ExchangeInv, Exchange
  <2>2. (sent - 1) * MaxTry \in Nat /\ (sent - 1 + 1) * MaxTry = (sent - 1) * MaxTry + MaxTry
    BY <2>1, ProductFacts, SendAssumption DEF ExchangeInv
  <2>3. sent - 1 + 1 = sent
    BY DEF ExchangeInv
  <2> DEFINE a == (sent - 1) * MaxTry
             b == sent * MaxTry
             m == MaxSend * MaxTry
  <2>4. b = a + MaxTry /\ a \in Nat /\ b \in Nat /\ b <= m /\ m \in Nat
    BY <1>1, <2>2, <2>3, ProductFacts, SendAssumption
  <2>5. /\ exchange.pc \in {"type", "press"} => Spent = a + (exchange.try - 1)
        /\ exchange.pc \in {"read", "observe"} => Spent = a + exchange.try
    BY DEF Spent
  <2> HIDE DEF a, b, m
  <2>6. /\ Spent \in Nat /\ Spent <= m /\ Spent <= b
        /\ exchange.pc \in {"type", "press"} => Spent + 1 <= b
    BY <1>2, <2>1, <2>4, <2>5, SendAssumption
  <2> QED
    BY <1>1, <2>2, <2>6 DEF a, b, m
<1>3. CASE exchange.pc \notin {"type", "press", "read", "observe"}
  BY <1>1, <1>3 DEF Spent
<1> QED
  BY <1>2, <1>3

\* What ChatGPT and the composer make of a conversation.
LEMMA Thinks ==
  ASSUME NEW d, Sound(d), Len(d.posts) <= MaxSend * MaxTry, MaxSend * MaxTry \in Nat,
         d.phase = "posted", NEW e, e = [d EXCEPT !.phase = "thinking", !.turns = @ + 1]
  PROVE  /\ Sound(e) /\ e.posts = d.posts /\ e.answers = d.answers
         /\ e.phase = "thinking"
<1>1. d.turns \in Nat /\ d.turns + 1 <= Len(d.posts) /\ d.turns + 1 \in 0..(MaxSend * MaxTry)
  BY DEF Sound, Chat
<1>2. e \in Chat
  BY <1>1, ZenonT(60) DEF Sound, Chat
<1>3. e.posts = d.posts /\ e.answers = d.answers /\ e.phase = "thinking" /\ e.turns = d.turns + 1
  BY DEF Sound, Chat
<1>4. Len(d.posts) \in Nat /\ Len(d.answers) \in Nat
  BY DEF Sound, Chat
<1> QED
  BY <1>1, <1>2, <1>3, <1>4 DEF Sound

LEMMA Begins ==
  ASSUME NEW d, Sound(d), d.phase = "thinking", NEW e, e = [d EXCEPT !.phase = "writing"]
  PROVE  /\ Sound(e) /\ e.posts = d.posts /\ e.answers = d.answers
         /\ e.phase = "writing"
<1>1. e \in Chat
  BY ZenonT(60) DEF Sound, Chat
<1>2. e.posts = d.posts /\ e.answers = d.answers /\ e.phase = "writing" /\ e.turns = d.turns
  BY DEF Sound, Chat
<1> QED
  BY <1>1, <1>2 DEF Sound

LEMMA Fails ==
  ASSUME NEW d, Sound(d), NEW e, e = [d EXCEPT !.phase = "idle"]
  PROVE  /\ Sound(e) /\ e.posts = d.posts /\ e.answers = d.answers
         /\ e.phase = "idle"
<1>1. e \in Chat
  BY ZenonT(60) DEF Sound, Chat
<1>2. e.posts = d.posts /\ e.answers = d.answers /\ e.phase = "idle" /\ e.turns = d.turns
  BY DEF Sound, Chat
<1>3. Len(d.posts) \in Nat /\ Len(d.answers) \in Nat /\ d.turns \in Nat
  BY DEF Sound, Chat
<1> QED
  BY <1>1, <1>2, <1>3 DEF Sound

LEMMA Answers ==
  ASSUME NEW d, Sound(d), d.phase = "writing",
         NEW e, e = [d EXCEPT !.answers = Append(@, Last(d.posts)), !.phase = "idle"]
  PROVE  /\ Sound(e) /\ e.posts = d.posts /\ e.answers = Append(d.answers, Last(d.posts))
         /\ e.answers # << >> /\ Last(e.answers) = Last(d.posts)
         /\ e.phase = "idle" /\ d.posts # << >> /\ e.turns = d.turns
<1>1. /\ Len(d.posts) \in Nat /\ Len(d.answers) \in Nat /\ d.turns \in Nat
      /\ Len(d.answers) + 1 <= Len(d.posts)
      /\ d.posts \in Seq(Message) /\ d.answers \in Seq(Message)
  BY DEF Sound, Chat
<1>2. Last(d.posts) \in Message /\ d.posts # << >>
  BY <1>1, LastFacts
<1> DEFINE a == Append(d.answers, Last(d.posts))
<1>3. a \in Seq(Message) /\ Len(a) = Len(d.answers) + 1 /\ a # << >> /\ Last(a) = Last(d.posts)
  BY <1>1, <1>2, AppendFacts
<1>4. e = [d EXCEPT !.answers = a, !.phase = "idle"]
  OBVIOUS
<1> HIDE DEF a
<1>5. e \in Chat
  BY <1>3, <1>4, ZenonT(60) DEF Sound, Chat
<1>6. e.posts = d.posts /\ e.answers = a /\ e.phase = "idle" /\ e.turns = d.turns
  BY <1>4 DEF Sound, Chat
<1> QED
  BY <1>1, <1>2, <1>3, <1>5, <1>6 DEF Sound, a

\* The conversation with one more post; an answer under way is cut off.
WithPost(d, m) ==
  [(IF d.phase = "writing" THEN [d EXCEPT !.answers = Append(@, Last(d.posts)), !.phase = "idle"]
    ELSE d) EXCEPT !.posts = Append(@, m), !.phase = "posted"]

LEMMA Posts ==
  ASSUME NEW d, Sound(d), NEW m \in Message
  PROVE  /\ Sound(WithPost(d, m)) /\ Last(WithPost(d, m).posts) = m
         /\ Len(WithPost(d, m).posts) = Len(d.posts) + 1 /\ WithPost(d, m).posts # << >>
         /\ WithPost(d, m).phase = "posted"
         /\ d.answers # << >> => WithPost(d, m).answers # << >>
<1> DEFINE cut == IF d.phase = "writing"
                  THEN [d EXCEPT !.answers = Append(@, Last(d.posts)), !.phase = "idle"] ELSE d
           e == WithPost(d, m)
<1>1. /\ cut \in Chat /\ cut.posts = d.posts /\ cut.turns = d.turns
      /\ Len(cut.answers) <= Len(d.posts) /\ d.turns <= Len(d.posts)
      /\ Len(cut.answers) \in Nat /\ Len(d.posts) \in Nat /\ d.turns \in Nat
      /\ d.answers # << >> => cut.answers # << >>
  <2>1. CASE d.phase = "writing"
    <3>1. /\ Sound(cut) /\ cut.posts = d.posts /\ cut.answers # << >>
          /\ cut.turns = d.turns /\ cut.phase = "idle"
      BY <2>1, Answers
    <3> QED
      BY <3>1 DEF Sound, Chat
  <2>2. CASE d.phase # "writing"
    BY <2>2 DEF Sound, Chat
  <2> QED
    BY <2>1, <2>2
<1> DEFINE p == Append(d.posts, m)
<1>2. p \in Seq(Message) /\ Len(p) = Len(d.posts) + 1 /\ p # << >> /\ Last(p) = m
  BY AppendFacts DEF Sound, Chat
<1>3. e = [cut EXCEPT !.posts = p, !.phase = "posted"]
  BY <1>1 DEF WithPost
<1> HIDE DEF p, cut, e
<1>4. e \in Chat
  BY <1>1, <1>2, <1>3, ZenonT(60) DEF Chat
<1>5. e.posts = p /\ e.answers = cut.answers /\ e.phase = "posted" /\ e.turns = cut.turns
  BY <1>1, <1>3 DEF Chat
<1> QED
  BY <1>1, <1>2, <1>4, <1>5 DEF Sound, p, e

\* A step that changes one conversation only.
LEMMA OneChat ==
  ASSUME chat \in [Conversations -> Chat], NEW c \in Conversations, NEW e \in Chat,
         chat' = [chat EXCEPT ![c] = e]
  PROVE  /\ chat' \in [Conversations -> Chat] /\ chat'[c] = e
         /\ \A d \in Conversations \ {c} : chat'[d] = chat[d]
OBVIOUS

------------------------------------------------------------------------------
(* The steps. *)

\* What a step of ChatGPT does to a conversation.
ChatMove(c) ==
  LET d == chat[c] e == chat'[c] IN
  /\ d.phase # "idle" /\ Sound(e) /\ e.posts = d.posts
  /\ \/ /\ e.answers = d.answers
        /\ \/ d.phase = "posted" /\ e.phase = "thinking" /\ UNCHANGED odd
           \/ d.phase = "thinking" /\ e.phase = "writing" /\ UNCHANGED odd
           \/ d.phase \in {"posted", "thinking"} /\ e.phase = "idle" /\ Odd("failed", c)
     \/ /\ d.phase = "writing" /\ e.phase = "idle" /\ e.answers # << >>
        /\ Last(e.answers) = Last(d.posts)
        /\ exchange.pc = "observe" => Odd("raced", c)
        /\ exchange.pc # "observe" => UNCHANGED odd
  /\ chat' \in [Conversations -> Chat]
  /\ \A b \in Conversations \ {c} : chat'[b] = chat[b]
  /\ UNCHANGED <<vars, draft, sent, exchange>>

LEMMA ChatMoves ==
  ASSUME ChatsInv, ExchangeInv, NEW c \in Conversations, Think(c) \/ BeginText(c) \/ Finish(c) \/ Fail(c)
  PROVE  ChatMove(c)
<1> DEFINE d == chat[c]
<1>1. d \in Chat /\ Sound(d) /\ chat \in [Conversations -> Chat]
  BY DEF ChatsInv
<1>2. MaxSend * MaxTry \in Nat /\ Len(d.posts) <= MaxSend * MaxTry
  <2>1. Len(d.posts) \in Nat /\ Len(d.posts) <= Spent
    BY DEF ChatsInv, Chat
  <2>2. Spent \in Nat /\ Spent <= MaxSend * MaxTry /\ MaxSend * MaxTry \in Nat
    BY SpentFacts, ProductFacts, SendAssumption
  <2> QED
    BY <2>1, <2>2
<1>3. CASE Think(c)
  <2> DEFINE e == [d EXCEPT !.phase = "thinking", !.turns = @ + 1]
  <2>1. /\ chat' = [chat EXCEPT ![c] = e] /\ d.phase = "posted"
        /\ UNCHANGED <<vars, draft, sent, exchange, odd>>
    BY <1>1, <1>3 DEF Think
  <2>2. Sound(e) /\ e.posts = d.posts /\ e.answers = d.answers /\ e.phase = "thinking"
    BY <1>1, <1>2, <2>1, Thinks
  <2>3. e \in Chat
    BY <2>2 DEF Sound
  <2> HIDE DEF e
  <2>4. /\ chat'[c] = e /\ chat' \in [Conversations -> Chat]
        /\ \A b \in Conversations \ {c} : chat'[b] = chat[b]
    BY <1>1, <2>1, <2>3, OneChat
  <2> QED
    BY <2>1, <2>2, <2>4 DEF ChatMove
<1>4. CASE BeginText(c)
  <2> DEFINE e == [d EXCEPT !.phase = "writing"]
  <2>1. /\ chat' = [chat EXCEPT ![c] = e] /\ d.phase = "thinking"
        /\ UNCHANGED <<vars, draft, sent, exchange, odd>>
    BY <1>1, <1>4 DEF BeginText
  <2>2. Sound(e) /\ e.posts = d.posts /\ e.answers = d.answers /\ e.phase = "writing"
    BY <1>1, <2>1, Begins
  <2>3. e \in Chat
    BY <2>2 DEF Sound
  <2> HIDE DEF e
  <2>4. /\ chat'[c] = e /\ chat' \in [Conversations -> Chat]
        /\ \A b \in Conversations \ {c} : chat'[b] = chat[b]
    BY <1>1, <2>1, <2>3, OneChat
  <2> QED
    BY <2>1, <2>2, <2>4 DEF ChatMove
<1>5. CASE Finish(c)
  <2> DEFINE e == [d EXCEPT !.answers = Append(@, Last(d.posts)), !.phase = "idle"]
  <2>1. /\ chat' = [chat EXCEPT ![c] = e] /\ d.phase = "writing" /\ UNCHANGED <<vars, draft, sent, exchange>>
        /\ IF exchange.pc = "observe" THEN Odd("raced", c) ELSE UNCHANGED odd
    BY <1>5 DEF Finish, Answered
  <2>2. /\ Sound(e) /\ e.posts = d.posts /\ e.answers # << >> /\ Last(e.answers) = Last(d.posts)
        /\ e.phase = "idle"
    BY <1>1, <2>1, Answers
  <2>3. e \in Chat
    BY <2>2 DEF Sound
  <2> HIDE DEF e
  <2>4. /\ chat'[c] = e /\ chat' \in [Conversations -> Chat]
        /\ \A b \in Conversations \ {c} : chat'[b] = chat[b]
    BY <1>1, <2>1, <2>3, OneChat
  <2> QED
    BY <2>1, <2>2, <2>4 DEF ChatMove
<1>6. CASE Fail(c)
  <2> DEFINE e == [d EXCEPT !.phase = "idle"]
  <2>1. /\ chat' = [chat EXCEPT ![c] = e] /\ d.phase \in {"posted", "thinking"}
        /\ UNCHANGED <<vars, draft, sent, exchange>> /\ Odd("failed", c)
    BY <1>1, <1>6 DEF Fail
  <2>2. Sound(e) /\ e.posts = d.posts /\ e.answers = d.answers /\ e.phase = "idle"
    BY <1>1, <2>1, Fails
  <2>3. e \in Chat
    BY <2>2 DEF Sound
  <2> HIDE DEF e
  <2>4. /\ chat'[c] = e /\ chat' \in [Conversations -> Chat]
        /\ \A b \in Conversations \ {c} : chat'[b] = chat[b]
    BY <1>1, <2>1, <2>3, OneChat
  <2> QED
    BY <2>1, <2>2, <2>4 DEF ChatMove
<1> QED
  BY <1>3, <1>4, <1>5, <1>6

\* What Enter does: the page may do nothing.
PressMove ==
  LET d == chat[page] e == chat'[page] IN
  /\ page \in Conversations /\ page <= chats
  /\ exchange.pc = "press" /\ UNCHANGED <<vars, sent, odd>>
  /\ \/ UNCHANGED <<chat, draft>>
     \/ /\ Sound(e) /\ e.phase = "posted" /\ e.posts # << >> /\ Last(e.posts) = sent
        /\ Len(e.posts) = Len(d.posts) + 1
        /\ d.answers # << >> => e.answers # << >>
        /\ chat' \in [Conversations -> Chat] /\ draft' = << >>
        /\ \A b \in Conversations \ {page} : chat'[b] = chat[b]
  /\ \/ exchange' = [exchange EXCEPT !.pc = "read"]
     \/ exchange' = [exchange EXCEPT !.pc = "type", !.try = @ + 1]
  /\ exchange'.try <= MaxTry

LEMMA PressMoves ==
  ASSUME TypeOK, ChatsInv, ExchangeInv, Press
  PROVE  PressMove
<1>1. /\ exchange.pc = "press" /\ pc \in {"talk", "reload"} /\ page \in 1..chats /\ page \in Conversations
      /\ UNCHANGED <<vars, sent, odd>>
  <2>1. exchange.pc = "press" /\ pc \in {"talk", "reload"} /\ UNCHANGED <<vars, sent, odd>>
    BY DEF Press, ExchangeInv
  <2>2. page \in 1..chats /\ chats \in 0..MaxChat
    BY <2>1 DEF TypeOK
  <2> QED
    BY <2>1, <2>2, DelayAssumption DEF Conversations
<1>2. draft # << >> /\ Last(draft) = sent /\ sent \in Message /\ draft \in Seq(Message)
  BY <1>1, SendAssumption DEF ExchangeInv, Message
<1>3. ASSUME Post
      PROVE  /\ Sound(chat'[page]) /\ chat'[page].phase = "posted" /\ chat'[page].posts # << >>
             /\ Last(chat'[page].posts) = sent
             /\ Len(chat'[page].posts) = Len(chat[page].posts) + 1
             /\ chat[page].answers # << >> => chat'[page].answers # << >>
             /\ chat' \in [Conversations -> Chat] /\ draft' = << >>
             /\ \A b \in Conversations \ {page} : chat'[b] = chat[b]
  <2> DEFINE d == chat[page]
             e == WithPost(d, sent)
  <2>1. Sound(d) /\ chat \in [Conversations -> Chat]
    BY <1>1 DEF ChatsInv
  <2>2. chat' = [chat EXCEPT ![page] = e] /\ draft' = << >>
    BY <1>2, <1>3 DEF Post, Answered, WithPost
  <2>3. /\ Sound(e) /\ e.phase = "posted" /\ e.posts # << >> /\ Last(e.posts) = sent
        /\ Len(e.posts) = Len(d.posts) + 1
        /\ d.answers # << >> => e.answers # << >>
    BY <1>2, <2>1, Posts
  <2>4. e \in Chat
    BY <2>3 DEF Sound
  <2> HIDE DEF e
  <2>5. /\ chat'[page] = e /\ chat' \in [Conversations -> Chat]
        /\ \A b \in Conversations \ {page} : chat'[b] = chat[b]
    BY <1>1, <2>1, <2>2, <2>4, OneChat
  <2> QED
    BY <2>2, <2>3, <2>5
<1>4. page <= chats
  BY <1>1 DEF TypeOK
<1>5. /\ \/ exchange' = [exchange EXCEPT !.pc = "read"]
         \/ exchange' = [exchange EXCEPT !.pc = "type", !.try = @ + 1]
      /\ exchange'.try <= MaxTry
      /\ Post \/ UNCHANGED <<chat, draft>>
  BY DEF Press
<1> QED
  BY <1>1, <1>3, <1>4, <1>5 DEF PressMove

\* The last text, as far as it matters: there is one as soon as an answer began, and a whole
\* one is the last answer.
LEMMA LastTexts ==
  ASSUME ChatsInv, ExchangeInv, NEW c \in Conversations
  PROVE  /\ LastText(c) \in Text \cup {None}
         /\ LastText(c) # None => chat[c].answers # << >> \/ chat[c].phase = "writing"
         /\ LastText(c) # None /\ chat[c].phase # "writing" =>
              LastText(c).whole /\ LastText(c).number = Len(chat[c].answers)
<1> DEFINE d == chat[c]
           n == Len(d.answers) + (IF d.phase = "writing" THEN 1 ELSE 0)
<1>1. Sound(d) /\ Len(d.posts) <= Spent
  BY DEF ChatsInv
<1>2. Spent \in Nat /\ Spent <= MaxSend * MaxTry /\ MaxSend * MaxTry \in Nat
  BY SpentFacts, ProductFacts, SendAssumption
<1>3. Len(d.answers) \in Nat /\ Len(d.posts) \in Nat
  BY <1>1 DEF Sound, Chat
<1>4. n \in Nat /\ n <= Len(d.posts)
  <2>1. CASE d.phase = "writing"
    <3>1. Len(d.answers) < Len(d.posts) /\ n = Len(d.answers) + 1
      BY <1>1, <2>1 DEF Sound
    <3> HIDE DEF n
    <3> QED
      BY <1>3, <3>1
  <2>2. CASE d.phase # "writing"
    <3>1. Len(d.answers) <= Len(d.posts) /\ n = Len(d.answers)
      BY <1>1, <1>3, <2>2 DEF Sound
    <3> HIDE DEF n
    <3> QED
      BY <1>3, <3>1
  <2> QED
    BY <2>1, <2>2
<1>5. n <= MaxSend * MaxTry
  <2> HIDE DEF n
  <2> QED
    BY <1>1, <1>2, <1>3, <1>4
<1>6. LastText(c) = IF n = 0 THEN None ELSE [number |-> n, whole |-> d.phase # "writing"]
  BY DEF LastText
<1>7. n # 0 => n \in 1..(MaxSend * MaxTry)
  <2> HIDE DEF n
  <2> QED
    BY <1>2, <1>4, <1>5
<1>8. LastText(c) \in Text \cup {None}
  <2> HIDE DEF n
  <2> QED
    BY <1>6, <1>7 DEF Text
<1>9. d.phase # "writing" => n = Len(d.answers)
  BY <1>3
<1> HIDE DEF n
<1>10. n # 0 => d.answers # << >> \/ d.phase = "writing"
  <2>1. Len(<< >>) = 0
    OBVIOUS
  <2> QED
    BY <1>9, <2>1
<1>11. CASE n = 0
  BY <1>6, <1>8, <1>11
<1>12. CASE n # 0
  <2>1. LastText(c) = [number |-> n, whole |-> d.phase # "writing"]
    BY <1>6, <1>12
  <2>2. LastText(c).number = n
    BY <2>1
  <2>3. d.phase # "writing" => LastText(c).whole
    <3>1. ASSUME d.phase # "writing" PROVE LastText(c) = [number |-> n, whole |-> TRUE]
      BY <2>1, <3>1
    <3>2. [number |-> n, whole |-> TRUE].whole = TRUE
      OBVIOUS
    <3> QED
      BY <3>1, <3>2, Zenon
  <2>4. LastText(c) # None /\ d.phase # "writing" =>
          LastText(c).whole /\ LastText(c).number = Len(d.answers)
    BY <1>9, <2>2, <2>3, Zenon
  <2> QED
    BY <1>8, <1>10, <1>12, <2>4
<1> QED
  BY <1>11, <1>12

LEMMA NoExchangeType == NoExchange \in Exchange /\ NoExchange.pc = "none"
<1>1. 0 \in 0..MaxTry /\ 0 \in 0..(MaxSend * MaxTry)
  BY SendAssumption, ProductFacts
<1> QED
  BY <1>1 DEF NoExchange, Exchange

\* The page does not change while a message is under way, and the run does not leave it.
LEMMA RunStays ==
  ASSUME TypeOK, ExchangeInv, exchange.pc \notin {"none", "saved"},
         RunStep \/ NoteConversation
  PROVE  pc' \in {"talk", "reload"} /\ page' = page
BY DEF ExchangeInv, RunStep, NoteConversation, Tick, Start, Wait, Mark, MarkNext, Transition, Reload,
       SaveResponse, history, memory, file

\* Where the page is, while a message is under way.
LEMMA PageIsOpen ==
  ASSUME TypeOK, pc \in {"talk", "reload"}
  PROVE  page \in Conversations /\ page <= chats
<1>1. page \in 1..chats /\ chats \in 0..MaxChat
  BY DEF TypeOK
<1> QED
  BY <1>1, DelayAssumption DEF Conversations

LEMMA AskMoves ==
  ASSUME TypeOK, ChatsInv, ExchangeInv, Ask
  PROVE  /\ exchange' \in Exchange /\ sent' \in 1..MaxSend /\ sent' = sent + 1
         /\ exchange'.pc = "type" /\ exchange'.try = 1 /\ exchange'.candidate = None /\ ~ exchange'.quiet
         /\ exchange'.before = LastText(page) /\ exchange'.before_ids = chat[page].turns
         /\ exchange.pc \in {"none", "saved"} /\ pc \in {"talk", "reload"}
<1>1. /\ pc \in {"talk", "reload"} /\ exchange.pc \in {"none", "saved"} /\ sent < MaxSend /\ sent' = sent + 1
      /\ exchange' = [NoExchange EXCEPT !.pc = "type", !.try = 1, !.before = LastText(page),
                                        !.before_ids = chat[page].turns]
  BY DEF Ask
<1>2. page \in Conversations
  BY <1>1, PageIsOpen
<1>3. LastText(page) \in Text \cup {None} /\ chat[page].turns \in 0..(MaxSend * MaxTry)
  BY <1>2, LastTexts DEF ChatsInv, Chat
<1>4. 1 \in 0..MaxTry /\ NoExchange \in Exchange
  BY SendAssumption, NoExchangeType
<1> DEFINE t == LastText(page)
           k == chat[page].turns
<1>5. exchange' = [NoExchange EXCEPT !.pc = "type", !.try = 1, !.before = t, !.before_ids = k]
  BY <1>1
<1> HIDE DEF t, k
<1>6. exchange' \in Exchange
  BY <1>3, <1>4, <1>5, ZenonT(60) DEF Exchange, t, k
<1>7. /\ exchange'.pc = "type" /\ exchange'.try = 1 /\ exchange'.candidate = None
      /\ exchange'.before = t /\ exchange'.before_ids = k
  BY <1>5 DEF NoExchange
<1>8. ~ exchange'.quiet
  <2>1. exchange'.quiet = FALSE
    BY <1>5 DEF NoExchange
  <2> QED
    BY <2>1
<1>9. sent' \in 1..MaxSend
  BY <1>1, SendAssumption DEF ExchangeInv
<1> QED
  BY <1>1, <1>6, <1>7, <1>8, <1>9 DEF t, k

\* Reading and comparing.
LEMMA ReadMoves ==
  ASSUME TypeOK, ChatsInv, ExchangeInv, Read
  PROVE  /\ exchange' \in Exchange /\ exchange'.pc = "observe" /\ exchange'.try = exchange.try
         /\ exchange'.candidate = LastText(page)
         /\ exchange'.quiet => exchange.quiet
         /\ exchange'.before = exchange.before /\ exchange'.before_ids = exchange.before_ids
         /\ page \in Conversations /\ LastText(page) # None
<1>1. /\ exchange.pc = "read" /\ LastText(page) # None
      /\ exchange' = [exchange EXCEPT !.pc = "observe", !.candidate = LastText(page),
                                      !.quiet = @ /\ exchange.candidate = LastText(page)]
  BY DEF Read
<1>2. page \in Conversations
  BY <1>1, PageIsOpen DEF ExchangeInv
<1>3. LastText(page) \in Text \cup {None}
  BY <1>2, LastTexts
<1> DEFINE t == LastText(page)
           q == exchange.quiet /\ exchange.candidate = LastText(page)
<1>4. exchange' = [exchange EXCEPT !.pc = "observe", !.candidate = t, !.quiet = q]
  BY <1>1
<1>5. q \in BOOLEAN /\ (q => exchange.quiet)
  OBVIOUS
<1> HIDE DEF t, q
<1>6. exchange' \in Exchange
  BY <1>3, <1>4, <1>5, ZenonT(60) DEF ExchangeInv, Exchange, t
<1>7. /\ exchange'.pc = "observe" /\ exchange'.candidate = t /\ exchange'.try = exchange.try
      /\ exchange'.before = exchange.before /\ exchange'.before_ids = exchange.before_ids
  BY <1>4 DEF ExchangeInv, Exchange
<1>8. exchange'.quiet = q
  BY <1>4, Zenon DEF ExchangeInv, Exchange
<1> QED
  BY <1>1, <1>2, <1>5, <1>6, <1>7, <1>8 DEF t

LEMMA WaitMoves ==
  ASSUME ExchangeInv, QuietPasses \/ Observe
  PROVE  /\ exchange' \in Exchange /\ exchange'.try = exchange.try
         /\ exchange'.candidate = exchange.candidate
         /\ exchange'.before = exchange.before /\ exchange'.before_ids = exchange.before_ids
         /\ QuietPasses => /\ exchange.pc = "read" /\ exchange'.pc = "read"
                           /\ chat[page].phase # "posted"
         /\ Observe => /\ exchange.pc = "observe" /\ exchange'.quiet = exchange.quiet
                       /\ exchange'.pc \in {"returned", "read"}
                       /\ exchange'.pc = "returned" => exchange.quiet /\ ~ Generating(page)
<1>0. exchange \in Exchange
  BY DEF ExchangeInv
<1>1. CASE QuietPasses
  <2>1. exchange' = [exchange EXCEPT !.quiet = TRUE] /\ exchange.pc = "read" /\ chat[page].phase # "posted"
    BY <1>1 DEF QuietPasses
  <2>2. /\ exchange' \in Exchange /\ exchange'.try = exchange.try /\ exchange'.pc = exchange.pc
        /\ exchange'.candidate = exchange.candidate
        /\ exchange'.before = exchange.before /\ exchange'.before_ids = exchange.before_ids
    BY <1>0, <2>1 DEF Exchange
  <2> QED
    BY <2>1, <2>2 DEF Observe
<1>2. CASE Observe
  <2>1. PICK p \in {"returned", "read"} :
          /\ exchange' = [exchange EXCEPT !.pc = p]
          /\ p = "returned" => exchange.quiet /\ ~ Generating(page)
    BY <1>2 DEF Observe
  <2>2. exchange.pc = "observe"
    BY <1>2 DEF Observe
  <2>3. /\ exchange' \in Exchange /\ exchange'.try = exchange.try /\ exchange'.pc = p
        /\ exchange'.candidate = exchange.candidate /\ exchange'.quiet = exchange.quiet
        /\ exchange'.before = exchange.before /\ exchange'.before_ids = exchange.before_ids
    BY <1>0, <2>1 DEF Exchange
  <2> QED
    BY <2>1, <2>2, <2>3 DEF QuietPasses
<1> QED
  BY <1>1, <1>2

LEMMA PressExchange ==
  ASSUME ExchangeInv, PressMove
  PROVE  /\ exchange' \in Exchange
         /\ \/ exchange'.pc = "read" /\ exchange'.try = exchange.try
            \/ exchange'.pc = "type" /\ exchange'.try = exchange.try + 1
         /\ exchange'.candidate = None /\ ~ exchange'.quiet
         /\ exchange'.before = exchange.before /\ exchange'.before_ids = exchange.before_ids
<1>0. exchange \in Exchange /\ exchange.pc = "press" /\ exchange.candidate = None /\ ~ exchange.quiet
      /\ exchange.try \in 0..MaxTry
  BY DEF ExchangeInv, PressMove, Exchange
<1>1. CASE exchange' = [exchange EXCEPT !.pc = "read"]
  BY <1>0, <1>1 DEF Exchange
<1>2. CASE exchange' = [exchange EXCEPT !.pc = "type", !.try = @ + 1]
  <2> DEFINE n == exchange.try + 1
  <2>1. exchange' = [exchange EXCEPT !.pc = "type", !.try = n] /\ exchange'.try <= MaxTry
    BY <1>2 DEF PressMove
  <2>2. n \in Nat
    BY <1>0
  <2> HIDE DEF n
  <2>3. exchange'.try = n /\ exchange'.pc = "type"
    BY <1>0, <2>1 DEF Exchange
  <2>4. n \in 0..MaxTry
    BY <2>1, <2>2, <2>3, SendAssumption
  <2>5. exchange' \in Exchange
    BY <1>0, <2>1, <2>4, ZenonT(60) DEF Exchange
  <2>6. /\ exchange'.candidate = exchange.candidate
        /\ exchange'.before = exchange.before /\ exchange'.before_ids = exchange.before_ids
    BY <1>0, <2>1 DEF Exchange
  <2>7. exchange'.quiet = exchange.quiet
    BY <1>0, <2>1 DEF Exchange
  <2> QED
    BY <1>0, <2>3, <2>5, <2>6, <2>7 DEF n
<1> QED
  BY <1>1, <1>2 DEF PressMove

LEMMA TypeMoves ==
  ASSUME ExchangeInv, Type
  PROVE  /\ exchange' \in Exchange /\ exchange'.pc = "press" /\ exchange'.try = exchange.try
         /\ exchange'.candidate = None /\ ~ exchange'.quiet
         /\ exchange'.before = exchange.before /\ exchange'.before_ids = exchange.before_ids
         /\ draft' \in Seq(Message) /\ draft' # << >> /\ Last(draft') = sent
         /\ exchange.pc = "type" /\ UNCHANGED <<vars, chat, sent, odd>>
<1>1. exchange.pc = "type" /\ draft' = Append(draft, sent) /\ exchange' = [exchange EXCEPT !.pc = "press"]
      /\ UNCHANGED <<vars, chat, sent, odd>>
  BY DEF Type
<1>2. sent \in Message /\ draft \in Seq(Message) /\ exchange \in Exchange
      /\ exchange.candidate = None /\ ~ exchange.quiet
  BY <1>1, SendAssumption DEF ExchangeInv, Message
<1>3. draft' \in Seq(Message) /\ draft' # << >> /\ Last(draft') = sent
  BY <1>1, <1>2, AppendFacts
<1>4. /\ exchange' \in Exchange /\ exchange'.pc = "press" /\ exchange'.try = exchange.try
      /\ exchange'.candidate = exchange.candidate /\ exchange'.quiet = exchange.quiet
      /\ exchange'.before = exchange.before /\ exchange'.before_ids = exchange.before_ids
  BY <1>1, <1>2 DEF Exchange
<1> QED
  BY <1>1, <1>2, <1>3, <1>4

LEMMA WaitFailsMoves ==
  ASSUME ExchangeInv, WaitFails
  PROVE  /\ exchange' \in Exchange /\ exchange'.pc = "type" /\ exchange'.try = exchange.try + 1
         /\ exchange'.candidate = None /\ ~ exchange'.quiet
         /\ exchange'.before = exchange.before /\ exchange'.before_ids = exchange.before_ids
         /\ exchange.pc \in {"read", "observe"} /\ UNCHANGED <<vars, chat, draft, sent, odd>>
<1> DEFINE n == exchange.try + 1
<1>1. /\ exchange.pc \in {"read", "observe"} /\ exchange.try < MaxTry
      /\ exchange' = [exchange EXCEPT !.pc = "type", !.try = n, !.candidate = None, !.quiet = FALSE]
      /\ UNCHANGED <<vars, chat, draft, sent, odd>>
  BY DEF WaitFails
<1>2. exchange \in Exchange /\ exchange.try \in 0..MaxTry
  BY DEF ExchangeInv, Exchange
<1>3. n \in 0..MaxTry
  BY <1>1, <1>2, SendAssumption
<1> HIDE DEF n
<1>4. exchange' \in Exchange
  BY <1>1, <1>2, <1>3, ZenonT(60) DEF Exchange
<1>5. /\ exchange'.pc = "type" /\ exchange'.try = n /\ exchange'.candidate = None
      /\ exchange'.before = exchange.before /\ exchange'.before_ids = exchange.before_ids
  BY <1>1, <1>2 DEF Exchange
<1>6. exchange'.quiet = FALSE
  BY <1>1, <1>2 DEF Exchange
<1> QED
  BY <1>1, <1>4, <1>5, <1>6 DEF n

LEMMA NoDraft == << >> \in Seq(Message)
OBVIOUS

LEMMA ExchangeStep ==
  ASSUME TypeOK, ChatsInv, ExchangeInv, [ConversationNext]_<<vars, exchanges>>
  PROVE  ExchangeInv'
<1>0. exchange \in Exchange /\ sent \in 0..MaxSend /\ draft \in Seq(Message)
      /\ odd \subseteq {"busy", "failed", "raced"}
  BY DEF ExchangeInv
<1>1. ASSUME NEW c \in Conversations, Think(c) \/ BeginText(c) \/ Finish(c) \/ Fail(c)
      PROVE  ExchangeInv'
  <2>1. odd' \subseteq {"busy", "failed", "raced"}
    BY <1>0, <1>1 DEF Think, BeginText, Finish, Fail, Odd
  <2>2. UNCHANGED <<vars, draft, sent, exchange>>
    BY <1>1 DEF Think, BeginText, Finish, Fail
  <2> QED
    BY <2>1, <2>2 DEF ExchangeInv, vars
<1>2. CASE Ask
  <2>1. UNCHANGED <<pc, draft>> /\ odd' \subseteq {"busy", "failed", "raced"}
    BY <1>2 DEF Ask, vars
  <2> QED
    BY <1>0, <1>2, <2>1, AskMoves DEF ExchangeInv
<1>3. CASE Type
  <2>1. UNCHANGED pc
    BY <1>3, TypeMoves DEF vars
  <2> QED
    BY <1>3, <2>1, TypeMoves DEF ExchangeInv
<1>4. CASE Press
  <2>1. PressMove
    BY <1>4, PressMoves
  <2>2. UNCHANGED <<pc, sent, odd>> /\ draft' \in Seq(Message)
    <3>1. UNCHANGED <<vars, sent, odd>> /\ draft' \in {<< >>, draft}
      BY <2>1 DEF PressMove
    <3>2. draft' \in Seq(Message)
      BY <1>0, <3>1, NoDraft, Zenon
    <3> QED
      BY <3>1, <3>2 DEF vars
  <2>3. exchange'.try > 0
    <3>1. exchange.try > 0 /\ exchange.try \in Nat
      BY <1>0, <2>1 DEF PressMove, ExchangeInv, Exchange
    <3> QED
      BY <2>1, <3>1, PressExchange
  <2>4. exchange.pc = "press"
    BY <2>1 DEF PressMove
  <2> QED
    BY <2>1, <2>2, <2>3, <2>4, PressExchange DEF ExchangeInv
<1>5. CASE Read
  <2>1. UNCHANGED <<pc, draft, sent, odd>> /\ exchange.pc = "read"
    BY <1>5 DEF Read, vars
  <2> QED
    BY <1>5, <2>1, ReadMoves DEF ExchangeInv
<1>6. CASE QuietPasses \/ Observe
  <2>1. UNCHANGED <<pc, draft, sent, odd>> /\ exchange.pc \in {"read", "observe"}
    BY <1>6 DEF QuietPasses, Observe, vars
  <2> QED
    BY <1>6, <2>1, WaitMoves DEF ExchangeInv
<1>7. CASE NoteConversation
  <2>1. UNCHANGED <<draft, sent, odd>> /\ exchange.pc = "returned"
        /\ exchange' = [exchange EXCEPT !.pc = "saved"]
    BY <1>7 DEF NoteConversation
  <2>2. exchange' \in Exchange /\ exchange'.pc = "saved" /\ exchange'.try = exchange.try
    BY <1>0, <2>1 DEF Exchange
  <2> QED
    BY <2>1, <2>2 DEF ExchangeInv
<1>8. CASE Navigate \/ RunEnds
  <2>1. exchange' = NoExchange /\ odd' = {} /\ UNCHANGED sent /\ draft' \in {<< >>, draft}
    BY <1>8 DEF Navigate, RunEnds
  <2>2. draft' \in Seq(Message)
    BY <1>0, <2>1, NoDraft, Zenon
  <2> QED
    BY <1>0, <2>1, <2>2, NoExchangeType DEF ExchangeInv
<1>9. CASE RunStep
  <2>1. UNCHANGED exchanges
    BY <1>9 DEF RunStep
  <2>2. exchange.pc \notin {"none", "saved"} => pc' \in {"talk", "reload"}
    BY <1>9, RunStays
  <2> QED
    BY <2>1, <2>2 DEF ExchangeInv, exchanges
<1>10. CASE UNCHANGED <<vars, exchanges>>
  BY <1>10 DEF ExchangeInv, vars, exchanges
<1>11. CASE WaitFails
  <2>1. UNCHANGED <<pc, draft, sent, odd>> /\ exchange.pc \in {"read", "observe"}
    BY <1>11, WaitFailsMoves DEF vars
  <2>2. exchange'.try > 0
    <3>1. exchange.try \in Nat
      BY <1>0 DEF Exchange
    <3> QED
      BY <1>11, <3>1, WaitFailsMoves
  <2> QED
    BY <1>11, <2>1, <2>2, WaitFailsMoves DEF ExchangeInv
<1> QED
  BY <1>1, <1>2, <1>3, <1>4, <1>5, <1>6, <1>7, <1>8, <1>9, <1>10, <1>11 DEF ConversationNext

\* A post is paid for by the attempt that makes it.
LEMMA SpentStep ==
  ASSUME TypeOK, ChatsInv, ExchangeInv, [ConversationNext]_<<vars, exchanges>>
  PROVE  /\ Spent' \in Nat /\ Spent <= Spent'
         /\ Press => Spent + 1 <= Spent'
<1>0. Spent \in Nat /\ sent * MaxTry \in Nat /\ Spent <= sent * MaxTry
  BY SpentFacts
<1>p. Press => exchange.pc = "press" /\ exchange'.pc \in {"read", "type"}
  BY PressMoves, PressExchange DEF PressMove
\* Until it waits no more, a call has spent the attempts it has made.
<1>1. ASSUME sent' = sent, exchange.pc \in {"read", "observe"}, ~ Press,
             \/ exchange'.pc \in {"read", "observe"} /\ exchange'.try = exchange.try
             \/ exchange'.pc = "type" /\ exchange'.try = exchange.try + 1
      PROVE  Spent' = Spent
  <2> DEFINE a == (sent - 1) * MaxTry
             k == exchange'.try
  <2>1. Spent = a + exchange.try
    BY <1>1 DEF Spent
  <2>2. sent' - 1 = sent - 1
    BY <1>1
  <2>3. Spent' = IF exchange'.pc = "type" THEN (sent' - 1) * MaxTry + (k - 1) ELSE (sent' - 1) * MaxTry + k
    BY <1>1 DEF Spent
  <2>4. Spent' = IF exchange'.pc = "type" THEN a + (k - 1) ELSE a + k
    BY <2>2, <2>3
  <2>5. exchange.try \in Nat /\ a \in Nat
    <3>1. sent - 1 \in Nat
      BY <1>1 DEF ExchangeInv
    <3> QED
      BY <3>1, ProductFacts, SendAssumption DEF ExchangeInv, Exchange
  <2> HIDE DEF a
  <2> QED
    BY <1>1, <2>1, <2>4, <2>5
<1>2. CASE Ask
  <2>1. exchange'.pc = "type" /\ exchange'.try = 1 /\ sent' = sent + 1 /\ exchange.pc \in {"none", "saved"}
    BY <1>2, AskMoves
  <2>2. Spent = sent * MaxTry
    BY <2>1 DEF Spent
  <2>3. Spent' = (sent' - 1) * MaxTry + (1 - 1)
    BY <2>1 DEF Spent
  <2>4. sent' - 1 = sent
    BY <2>1 DEF ExchangeInv
  <2>5. Spent' = Spent
    BY <1>0, <2>2, <2>3, <2>4
  <2> QED
    BY <1>0, <1>2, <2>5 DEF Ask, Press
<1>3. CASE Type
  <2>1. /\ exchange.pc = "type" /\ exchange'.pc = "press" /\ exchange'.try = exchange.try /\ sent' = sent
    BY <1>3, TypeMoves
  <2>2. Spent' = Spent
    BY <2>1 DEF Spent
  <2> QED
    BY <1>0, <2>1, <2>2 DEF Press
<1>4. CASE Press
  <2>1. PressMove /\ exchange.pc = "press" /\ sent' = sent
    BY <1>4, PressMoves DEF PressMove
  <2>2. Spent + 1 <= sent * MaxTry /\ (sent - 1) * MaxTry \in Nat
    BY <2>1, SpentFacts
  <2>3. CASE exchange'.pc = "read" /\ exchange'.try = exchange.try
    <3> DEFINE a == (sent - 1) * MaxTry
               k == exchange'.try
    <3>1. Spent = a + (exchange.try - 1)
      BY <2>1 DEF Spent
    <3>2. sent' - 1 = sent - 1
      BY <2>1
    <3>3. Spent' = (sent' - 1) * MaxTry + k
      BY <2>3 DEF Spent
    <3>4. Spent' = a + k
      BY <3>2, <3>3
    <3>5. exchange.try \in Nat /\ a \in Nat /\ k = exchange.try
      BY <2>2, <2>3 DEF ExchangeInv, Exchange
    <3> HIDE DEF a, k
    <3> QED
      BY <1>0, <3>1, <3>4, <3>5
  <2>4. CASE exchange'.pc = "type" /\ exchange'.try = exchange.try + 1
    <3> DEFINE a == (sent - 1) * MaxTry
               k == exchange'.try
    <3>1. Spent = a + (exchange.try - 1)
      BY <2>1 DEF Spent
    <3>2. sent' - 1 = sent - 1
      BY <2>1
    <3>3. Spent' = (sent' - 1) * MaxTry + (k - 1)
      BY <2>4 DEF Spent
    <3>4. Spent' = a + (k - 1)
      BY <3>2, <3>3
    <3>5. exchange.try \in Nat /\ a \in Nat /\ k = exchange.try + 1
      BY <2>2, <2>4 DEF ExchangeInv, Exchange
    <3> HIDE DEF a, k
    <3> QED
      BY <1>0, <3>1, <3>4, <3>5
  <2> QED
    BY <2>1, <2>3, <2>4, PressExchange
<1>5. CASE Navigate \/ RunEnds
  <2>1. sent' = sent /\ exchange'.pc = "none" /\ ~ Press
    BY <1>5, <1>p, NoExchangeType DEF Navigate, RunEnds
  <2>2. Spent' = sent * MaxTry
    BY <2>1 DEF Spent
  <2> QED
    BY <1>0, <2>1, <2>2
<1>6. CASE Read
  <2>1. sent' = sent /\ exchange'.pc = "observe" /\ exchange.pc = "read" /\ exchange'.try = exchange.try
    BY <1>6, ReadMoves DEF Read
  <2>2. ~ Press
    BY <2>1 DEF Press
  <2> QED
    BY <1>0, <1>1, <2>1, <2>2
<1>7. CASE QuietPasses \/ Observe
  <2>1. sent' = sent /\ exchange.pc \in {"read", "observe"} /\ exchange'.try = exchange.try
        /\ exchange'.pc \in {"read", "returned"}
    BY <1>7, WaitMoves DEF QuietPasses, Observe
  <2>2. ~ Press
    BY <2>1 DEF Press
  <2>3. CASE exchange'.pc = "read"
    BY <1>0, <1>1, <2>1, <2>2, <2>3
  <2>4. CASE exchange'.pc = "returned"
    <3>1. Spent' = sent * MaxTry
      BY <2>1, <2>4 DEF Spent
    <3> QED
      BY <1>0, <2>2, <3>1
  <2> QED
    BY <2>1, <2>3, <2>4
<1>8. CASE NoteConversation
  <2>1. sent' = sent /\ exchange'.pc = "saved" /\ exchange.pc = "returned"
    BY <1>8 DEF NoteConversation, ExchangeInv, Exchange
  <2>2. Spent' = Spent
    BY <2>1 DEF Spent
  <2> QED
    BY <1>0, <2>1, <2>2 DEF Press
<1>12. CASE WaitFails
  <2>1. sent' = sent /\ exchange.pc \in {"read", "observe"} /\ exchange'.pc = "type"
        /\ exchange'.try = exchange.try + 1
    BY <1>12, WaitFailsMoves
  <2>2. ~ Press
    BY <2>1 DEF Press
  <2> QED
    BY <1>0, <1>1, <2>1, <2>2
<1>9. ASSUME UNCHANGED <<sent, exchange>> PROVE Spent' = Spent /\ (Press => FALSE)
  <2>1. Spent' = Spent
    BY <1>9 DEF Spent
  <2>2. ASSUME Press PROVE FALSE
    BY <1>9, <1>p, <2>2
  <2> QED
    BY <2>1, <2>2
<1>10. CASE \E c \in Conversations : Think(c) \/ BeginText(c) \/ Finish(c) \/ Fail(c)
  BY <1>0, <1>9, <1>10 DEF Think, BeginText, Finish, Fail
<1>11. CASE RunStep \/ UNCHANGED <<vars, exchanges>>
  BY <1>0, <1>9, <1>11 DEF RunStep, exchanges
<1> QED
  BY <1>2, <1>3, <1>4, <1>5, <1>6, <1>7, <1>8, <1>10, <1>11, <1>12 DEF ConversationNext

LEMMA ChatsGrow ==
  ASSUME TypeOK, [ConversationNext]_<<vars, exchanges>> PROVE chats' \in Nat /\ chats <= chats'
<1>1. [Next]_vars /\ chats \in Nat
  BY ConversationStep DEF TypeOK
<1> QED
  BY <1>1 DEF Next, vars, history, Tick, Start, Resume, Wait, Mark, MarkNext, Open, Reload,
              SaveResponse, Transition, End

LEMMA ChatsStep ==
  ASSUME TypeOK, ChatsInv, ExchangeInv, [ConversationNext]_<<vars, exchanges>>
  PROVE  ChatsInv'
<1>0. /\ chat \in [Conversations -> Chat] /\ chats' \in Nat /\ chats <= chats' /\ chats \in Nat
      /\ Spent \in Nat /\ Spent' \in Nat /\ Spent <= Spent'
      /\ \A c \in Conversations : /\ Sound(chat[c]) /\ Len(chat[c].posts) <= Spent
                                  /\ Len(chat[c].posts) \in Nat
                                  /\ c > chats => chat[c].posts = << >>
  BY SpentStep, SpentFacts, ChatsGrow DEF ChatsInv, TypeOK, Sound, Chat
<1>1. ASSUME chat' \in [Conversations -> Chat], NEW b \in Conversations,
             b <= chats \/ chat'[b].posts = chat[b].posts,
             Sound(chat'[b]), Len(chat'[b].posts) <= Spent',
             \A c \in Conversations \ {b} : chat'[c] = chat[c]
      PROVE  ChatsInv'
  <2>1. ASSUME NEW c \in Conversations
        PROVE  /\ Sound(chat'[c])
               /\ Len(chat'[c].posts) <= Spent'
               /\ c > chats' => chat'[c].posts = << >>
    <3>0. c \in Nat /\ (c > chats' => c > chats)
      BY <1>0 DEF Conversations
    <3>1. CASE c = b
      BY <1>0, <1>1, <3>0, <3>1
    <3>2. CASE c # b
      BY <1>0, <1>1, <3>0, <3>2
    <3> QED
      BY <3>1, <3>2
  <2> QED
    BY <1>1, <2>1 DEF ChatsInv, Sound
<1>2. ASSUME NEW c \in Conversations, Think(c) \/ BeginText(c) \/ Finish(c) \/ Fail(c)
      PROVE  ChatsInv'
  <2>1. ChatMove(c)
    BY <1>2, ChatMoves
  <2>2. /\ chat' \in [Conversations -> Chat] /\ Sound(chat'[c]) /\ chat'[c].posts = chat[c].posts
        /\ \A b \in Conversations \ {c} : chat'[b] = chat[b]
    BY <2>1 DEF ChatMove
  <2>3. Len(chat'[c].posts) <= Spent'
    BY <1>0, <2>2
  <2> QED
    BY <1>1, <2>2, <2>3
<1>3. ASSUME UNCHANGED chat PROVE ChatsInv'
  <2>1. ASSUME NEW c \in Conversations
        PROVE  /\ Sound(chat'[c])
               /\ Len(chat'[c].posts) <= Spent'
               /\ c > chats' => chat'[c].posts = << >>
    <3>0. c \in Nat /\ (c > chats' => c > chats)
      BY <1>0 DEF Conversations
    <3> QED
      BY <1>0, <1>3, <3>0
  <2> QED
    BY <1>0, <1>3, <2>1 DEF ChatsInv, Sound
<1>4. CASE Press
  <2>1. PressMove /\ Spent + 1 <= Spent'
    BY <1>4, PressMoves, SpentStep
  <2>2. CASE UNCHANGED chat
    BY <1>3, <2>2
  <2>3. CASE ~ UNCHANGED chat
    <3>1. /\ page \in Conversations /\ page <= chats
          /\ Sound(chat'[page]) /\ Len(chat'[page].posts) = Len(chat[page].posts) + 1
          /\ chat' \in [Conversations -> Chat]
          /\ \A b \in Conversations \ {page} : chat'[b] = chat[b]
      BY <2>1, <2>3 DEF PressMove
    <3>2. Len(chat'[page].posts) <= Spent'
      BY <1>0, <2>1, <3>1
    <3> QED
      BY <1>1, <3>1, <3>2
  <2> QED
    BY <2>2, <2>3
<1>5. CASE ~ Press /\ ~ \E c \in Conversations : Think(c) \/ BeginText(c) \/ Finish(c) \/ Fail(c)
  BY <1>3, <1>5 DEF ConversationNext, Ask, Type, Read, QuietPasses, Observe, WaitFails, NoteConversation,
                    Navigate, RunStep, RunEnds, exchanges
<1> QED
  BY <1>2, <1>4, <1>5

------------------------------------------------------------------------------
(* Waiting for the answer. *)

Waiting == exchange.pc \in {"read", "observe", "returned"}

\* A post is taken up before quiet_seconds have passed; a text that was read remains, or is
\* still being written; what changes while it is compared is noted.
WaitInv ==
  /\ Waiting /\ exchange.quiet => chat[page].phase # "posted"
  /\ Waiting /\ exchange.candidate # None =>
       chat[page].answers # << >> \/ chat[page].phase = "writing"
  /\ exchange.pc \in {"observe", "returned"} => exchange.candidate # None
  /\ exchange.pc = "returned" => chat[page].phase = "idle"
  /\ exchange.pc \in {"observe", "returned"} /\ chat[page].phase # "writing" /\ "raced" \notin odd =>
       exchange.candidate = LastText(page)

\* A conversation on disk, or in the memory object, was noted with an answer.
NotedInv == \A c \in {url, mem_url} \ {None} : chat[c].answers # << >>

------------------------------------------------------------------------------
(* Whose answer it is. *)

\* Nothing was posted, so that nothing has changed; or this message was, and is not answered
\* yet; or it is.
Unchanged == /\ chat[page].phase = "idle" /\ exchange.before = LastText(page)
             /\ exchange.before_ids = chat[page].turns
Pending == chat[page].phase # "idle" /\ Last(chat[page].posts) = sent
Done == chat[page].phase = "idle" /\ chat[page].answers # << >> /\ Last(chat[page].answers) = sent

AskedInv ==
  odd = {} =>
    /\ exchange.pc \in {"type", "press", "read"} => Unchanged \/ Pending \/ Done
    /\ exchange.pc \in {"observe", "returned"} => Pending \/ Done

------------------------------------------------------------------------------

\* A conversation that looks the same has the same last text.
LEMMA SameText ==
  ASSUME page' = page, chat'[page].phase = chat[page].phase, chat'[page].answers = chat[page].answers
  PROVE  (LastText(page))' = LastText(page)
BY DEF LastText

LEMMA SameQuietText ==
  ASSUME page' = page, chat'[page].phase # "writing", chat[page].phase # "writing",
         chat'[page].answers = chat[page].answers
  PROVE  (LastText(page))' = LastText(page)
BY DEF LastText

\* What ChatGPT does elsewhere is not seen, and of the page nothing once it has answered.
LEMMA ChatWaits ==
  ASSUME TypeOK, ChatsInv, ExchangeInv, WaitInv, NEW c \in Conversations, ChatMove(c)
  PROVE  WaitInv'
<1>1. UNCHANGED <<page, exchange>> /\ (c # page => UNCHANGED odd)
  BY DEF ChatMove, vars, Odd
<1>2. CASE ~ Waiting
  BY <1>1, <1>2 DEF WaitInv, Waiting
<1>3. CASE Waiting
  <2>1. page \in Conversations
    BY <1>3, PageIsOpen DEF Waiting, ExchangeInv
  <2>2. CASE c # page
    <3>1. chat'[page] = chat[page] /\ UNCHANGED odd
      BY <1>1, <2>1, <2>2 DEF ChatMove
    <3>2. (LastText(page))' = LastText(page)
      BY <1>1, <3>1, SameText
    <3> QED
      BY <1>1, <3>1, <3>2 DEF WaitInv, Waiting
  <2>3. CASE c = page
    <3> DEFINE d == chat[page]
               e == chat'[page]
    <3>1. /\ d.phase # "idle" /\ exchange.pc # "returned" /\ e.phase # "posted"
          /\ d.answers # << >> => e.answers # << >>
          /\ d.phase = "writing" => e.answers # << >>
      BY <2>3 DEF WaitInv, ChatMove
    <3>2. exchange.candidate # None => e.answers # << >> \/ e.phase = "writing"
      BY <1>3, <3>1 DEF WaitInv
    <3>3. ASSUME exchange.pc = "observe", e.phase # "writing", "raced" \notin odd'
          PROVE  exchange.candidate = (LastText(page))'
      <4>1. d.phase # "writing"
        BY <2>3, <3>3 DEF ChatMove, Odd
      <4>2. e.answers = d.answers
        BY <2>3, <4>1 DEF ChatMove
      <4>3. (LastText(page))' = LastText(page)
        BY <1>1, <3>3, <4>1, <4>2, SameQuietText
      <4>4. "raced" \notin odd
        BY <2>3, <3>3 DEF ChatMove, Odd
      <4> QED
        BY <3>3, <4>1, <4>3, <4>4 DEF WaitInv
    <3> QED
      BY <1>1, <3>1, <3>2, <3>3 DEF WaitInv, Waiting
  <2> QED
    BY <2>2, <2>3
<1> QED
  BY <1>2, <1>3

LEMMA WaitStep ==
  ASSUME TypeOK, ChatsInv, ExchangeInv, WaitInv, [ConversationNext]_<<vars, exchanges>>
  PROVE  WaitInv'
<1>1. ASSUME NEW c \in Conversations, Think(c) \/ BeginText(c) \/ Finish(c) \/ Fail(c)
      PROVE  WaitInv'
  BY <1>1, ChatMoves, ChatWaits
<1>2. ASSUME exchange'.pc \notin {"read", "observe", "returned"} PROVE WaitInv'
  BY <1>2 DEF WaitInv, Waiting
<1>3. CASE Ask
  BY <1>2, <1>3, AskMoves
<1>4. CASE Type \/ WaitFails
  BY <1>2, <1>4, TypeMoves, WaitFailsMoves
<1>5. CASE Press
  <2>1. exchange'.pc \in {"read", "type"} /\ exchange'.candidate = None /\ ~ exchange'.quiet
    BY <1>5, PressMoves, PressExchange
  <2> QED
    BY <2>1 DEF WaitInv, Waiting
<1>6. CASE Read
  <2>1. UNCHANGED <<page, chat, odd>> /\ exchange.pc = "read"
    BY <1>6 DEF Read, vars
  <2>2. (LastText(page))' = LastText(page)
    BY <2>1 DEF LastText
  <2>3. /\ exchange'.pc = "observe" /\ exchange'.candidate = LastText(page) /\ LastText(page) # None
        /\ exchange'.quiet => exchange.quiet
        /\ chat[page].answers # << >> \/ chat[page].phase = "writing"
    BY <1>6, ReadMoves, LastTexts
  <2> QED
    BY <2>1, <2>2, <2>3 DEF WaitInv, Waiting
<1>7. CASE QuietPasses \/ Observe
  <2>1. UNCHANGED <<page, chat, odd>> /\ exchange.pc \in {"read", "observe"}
    BY <1>7 DEF QuietPasses, Observe, vars
  <2>2. (LastText(page))' = LastText(page)
    BY <2>1 DEF LastText
  <2>3. CASE QuietPasses
    <3>1. /\ exchange'.pc = "read" /\ exchange'.candidate = exchange.candidate /\ exchange.pc = "read"
          /\ chat[page].phase # "posted"
      BY <2>3, WaitMoves
    <3> QED
      BY <2>1, <3>1 DEF WaitInv, Waiting
  <2>4. CASE Observe
    <3>1. /\ exchange'.pc \in {"read", "returned"} /\ exchange'.candidate = exchange.candidate
          /\ exchange.pc = "observe" /\ exchange'.quiet = exchange.quiet
          /\ exchange'.pc = "returned" => exchange.quiet /\ ~ Generating(page)
      BY <2>4, WaitMoves
    <3>2. exchange'.pc = "returned" => chat[page].phase = "idle"
      <4>1. chat[page] \in Chat
        BY <3>1, PageIsOpen DEF ExchangeInv, ChatsInv
      <4> QED
        BY <3>1, <4>1 DEF WaitInv, Waiting, Generating, Chat
    <3> QED
      BY <2>1, <2>2, <3>1, <3>2 DEF WaitInv, Waiting
  <2> QED
    BY <1>7, <2>3, <2>4
<1>8. CASE NoteConversation \/ Navigate \/ RunEnds
  <2>1. exchange'.pc \in {"saved", "none"}
    BY <1>8, NoExchangeType DEF NoteConversation, Navigate, RunEnds, ExchangeInv, Exchange
  <2> QED
    BY <1>2, <2>1
<1>9. CASE RunStep \/ UNCHANGED <<vars, exchanges>>
  <2>1. UNCHANGED <<chat, exchange, odd>>
    BY <1>9 DEF RunStep, exchanges
  <2>2. Waiting => page' = page
    BY <1>9, RunStays DEF Waiting, vars
  <2>3. Waiting => (LastText(page))' = LastText(page)
    BY <2>1, <2>2 DEF LastText
  <2> QED
    BY <2>1, <2>2, <2>3 DEF WaitInv, Waiting
<1> QED
  BY <1>1, <1>3, <1>4, <1>5, <1>6, <1>7, <1>8, <1>9 DEF ConversationNext

\* What is answered stays answered.
LEMMA AnswersRemain ==
  ASSUME TypeOK, ChatsInv, ExchangeInv, [ConversationNext]_<<vars, exchanges>>,
         NEW c \in Conversations, chat[c].answers # << >>
  PROVE  chat'[c].answers # << >>
<1>1. ASSUME NEW b \in Conversations, Think(b) \/ BeginText(b) \/ Finish(b) \/ Fail(b)
      PROVE  chat'[c].answers # << >>
  BY <1>1, ChatMoves DEF ChatMove
<1>2. CASE Press
  BY <1>2, PressMoves DEF PressMove
<1>3. CASE UNCHANGED chat
  BY <1>3
<1> QED
  BY <1>1, <1>2, <1>3 DEF ConversationNext, Ask, Type, Read, QuietPasses, Observe, WaitFails, NoteConversation,
                          Navigate, RunStep, RunEnds, exchanges

\* The conversations a run knows are those it knew, but for the one it notes.
LEMMA UrlsStay ==
  ASSUME [ConversationNext]_<<vars, exchanges>>, ~ NoteConversation
  PROVE  url' \in {url, mem_url} /\ mem_url' \in {url, mem_url}
<1>1. CASE \E c \in Conversations : Think(c) \/ BeginText(c) \/ Finish(c) \/ Fail(c)
  BY <1>1 DEF Think, BeginText, Finish, Fail, vars, file, memory
<1>2. CASE Ask \/ Type \/ Press \/ Read \/ QuietPasses \/ Observe \/ WaitFails
  BY <1>2 DEF Ask, Type, Press, Read, QuietPasses, Observe, WaitFails, vars, file, memory
<1>3. CASE Navigate \/ RunStep \/ RunEnds
  BY <1>3 DEF Navigate, RunStep, RunEnds, Tick, Start, Resume, Wait, Mark, MarkNext, Open, Reload,
              Transition, End, file, memory
<1>4. CASE UNCHANGED <<vars, exchanges>>
  BY <1>4 DEF vars, file, memory
<1> QED
  BY <1>1, <1>2, <1>3, <1>4 DEF ConversationNext

LEMMA NotedStep ==
  ASSUME TypeOK, ChatsInv, ExchangeInv, WaitInv, NotedInv, [ConversationNext]_<<vars, exchanges>>
  PROVE  NotedInv'
<1>1. \A c \in {url, mem_url} \ {None} : c \in Conversations
  BY DelayAssumption DEF TypeOK, Conversations
<1>2. CASE NoteConversation
  <2>1. exchange.pc = "returned" /\ SaveResponse /\ UNCHANGED chat
    BY <1>2 DEF NoteConversation
  <2>2. chat[page].answers # << >>
    BY <2>1 DEF WaitInv, Waiting
  <2>3. mem_url' = page /\ url' \in {page, url}
    BY <2>1 DEF SaveResponse, file
  <2> QED
    BY <2>1, <2>2, <2>3 DEF NotedInv
<1>3. CASE ~ NoteConversation
  <2>1. url' \in {url, mem_url} /\ mem_url' \in {url, mem_url}
    BY <1>3, UrlsStay
  <2>2. ASSUME NEW c \in {url', mem_url'} \ {None} PROVE chat'[c].answers # << >>
    <3>1. c \in {url, mem_url} \ {None}
      BY <2>1
    <3> QED
      BY <1>1, <3>1, AnswersRemain DEF NotedInv
  <2> QED
    BY <2>2 DEF NotedInv
<1> QED
  BY <1>2, <1>3

\* In the usual order, an answer of ChatGPT is to the message that was sent.
LEMMA ChatAnswers ==
  ASSUME TypeOK, ChatsInv, ExchangeInv, WaitInv, AskedInv, NEW c \in Conversations, ChatMove(c)
  PROVE  AskedInv'
<1>1. UNCHANGED <<page, exchange, sent>>
  BY DEF ChatMove, vars
<1>2. SUFFICES ASSUME odd' = {}, exchange.pc \in {"type", "press", "read", "observe", "returned"}
               PROVE  AskedInv'
  BY <1>1 DEF AskedInv
<1>3. odd = {}
  BY <1>2 DEF ChatMove, Odd
<1>4. page \in Conversations
  BY <1>2, PageIsOpen DEF ExchangeInv
<1>5. CASE c # page
  <2>1. chat'[page] = chat[page]
    BY <1>4, <1>5 DEF ChatMove
  <2>2. (LastText(page))' = LastText(page)
    BY <1>1, <2>1, SameText
  <2> QED
    BY <1>1, <1>3, <2>1, <2>2 DEF AskedInv, Unchanged, Pending, Done
<1>6. CASE c = page
  <2>1. chat[page].phase # "idle" /\ exchange.pc # "returned"
    BY <1>6 DEF ChatMove, WaitInv
  <2>2. Pending
    BY <1>2, <1>3, <2>1 DEF AskedInv, Unchanged, Done
  <2>3. ~ Odd("failed", page)
    BY <1>2, <2>1 DEF Odd
  <2>4. Pending' \/ Done'
    BY <1>1, <1>6, <2>2, <2>3 DEF ChatMove, Pending, Done
  <2> QED
    BY <2>4 DEF AskedInv
<1> QED
  BY <1>5, <1>6

LEMMA AskedStep ==
  ASSUME TypeOK, ChatsInv, ExchangeInv, WaitInv, AskedInv, [ConversationNext]_<<vars, exchanges>>
  PROVE  AskedInv'
<1>1. ASSUME NEW c \in Conversations, Think(c) \/ BeginText(c) \/ Finish(c) \/ Fail(c)
      PROVE  AskedInv'
  BY <1>1, ChatMoves, ChatAnswers
<1>2. ASSUME exchange'.pc \in {"none", "saved"} PROVE AskedInv'
  BY <1>2 DEF AskedInv
\* What was seen of the page before stays what is compared with.
<1>3. ASSUME UNCHANGED <<page, chat, sent, odd>>,
             exchange'.before = exchange.before, exchange'.before_ids = exchange.before_ids
      PROVE  /\ Unchanged' <=> Unchanged
             /\ Pending' <=> Pending
             /\ Done' <=> Done
  <2>1. (LastText(page))' = LastText(page)
    BY <1>3 DEF LastText
  <2> QED
    BY <1>3, <2>1 DEF Unchanged, Pending, Done
<1>4. CASE Ask
  <2>1. /\ exchange'.pc = "type" /\ exchange'.before = LastText(page)
        /\ exchange'.before_ids = chat[page].turns /\ UNCHANGED <<page, chat>>
        /\ odd' = {} => chat[page].phase = "idle"
    BY <1>4, AskMoves DEF Ask, vars
  <2>2. (LastText(page))' = LastText(page)
    BY <2>1 DEF LastText
  <2> QED
    BY <2>1, <2>2 DEF AskedInv, Unchanged
<1>5. CASE Type
  <2>1. UNCHANGED <<page, chat, sent, odd>>
    BY <1>5, TypeMoves DEF vars
  <2> QED
    BY <1>3, <1>5, <2>1, TypeMoves DEF AskedInv
<1>6. CASE Press
  <2>1. PressMove /\ UNCHANGED <<page, sent, odd>> /\ exchange.pc = "press"
    BY <1>6, PressMoves DEF PressMove, vars
  <2>2. CASE UNCHANGED chat
    BY <1>3, <2>1, <2>2, PressExchange DEF AskedInv
  <2>3. CASE ~ UNCHANGED chat
    <3>1. Pending'
      BY <2>1, <2>3 DEF PressMove, Pending
    <3> QED
      BY <3>1, <2>1, PressExchange DEF AskedInv
  <2> QED
    BY <2>2, <2>3
<1>7. CASE Read
  <2>1. UNCHANGED <<page, chat, sent, odd>> /\ exchange.pc = "read" /\ IsNew(page)
    BY <1>7 DEF Read, vars
  <2>2. ~ Unchanged
    BY <2>1 DEF IsNew, Unchanged
  <2> QED
    BY <1>3, <1>7, <2>1, <2>2, ReadMoves DEF AskedInv
<1>8. CASE QuietPasses \/ Observe
  <2>1. UNCHANGED <<page, chat, sent, odd>>
    BY <1>8 DEF QuietPasses, Observe, vars
  <2> QED
    BY <1>3, <1>8, <2>1, WaitMoves DEF AskedInv
<1>11. CASE WaitFails
  <2>1. UNCHANGED <<page, chat, sent, odd>>
    BY <1>11, WaitFailsMoves DEF vars
  <2> QED
    BY <1>3, <1>11, <2>1, WaitFailsMoves DEF AskedInv
<1>9. CASE NoteConversation \/ Navigate \/ RunEnds
  <2>1. exchange'.pc \in {"saved", "none"}
    BY <1>9, NoExchangeType DEF NoteConversation, Navigate, RunEnds, ExchangeInv, Exchange
  <2> QED
    BY <1>2, <2>1
<1>10. CASE RunStep \/ UNCHANGED <<vars, exchanges>>
  <2>1. UNCHANGED <<chat, sent, exchange, odd>>
    BY <1>10 DEF RunStep, exchanges
  <2>2. exchange.pc \notin {"none", "saved"} => page' = page
    BY <1>10, RunStays DEF vars
  <2>3. exchange.pc \notin {"none", "saved"} =>
          (Unchanged' <=> Unchanged) /\ (Pending' <=> Pending) /\ (Done' <=> Done)
    BY <1>3, <2>1, <2>2
  <2> QED
    BY <2>1, <2>3 DEF AskedInv
<1> QED
  BY <1>1, <1>4, <1>5, <1>6, <1>7, <1>8, <1>9, <1>10, <1>11 DEF ConversationNext

------------------------------------------------------------------------------
(* The invariant, and what it gives. *)

TalkInv == TypeOK /\ ChatsInv /\ ExchangeInv /\ WaitInv /\ NotedInv /\ AskedInv

LEMMA TalkInit == ConversationInit => TalkInv
<1> SUFFICES ASSUME ConversationInit PROVE TalkInv
  OBVIOUS
<1>1. TypeOK
  BY SpacedInit DEF ConversationInit, SpacedInv
<1>2. ExchangeInv
  <2>1. 0 \in 0..MaxSend
    BY SendAssumption
  <2>2. exchange = NoExchange /\ sent = 0 /\ draft = << >> /\ odd = {}
    BY DEF ConversationInit
  <2> QED
    BY <2>1, <2>2, NoDraft, NoExchangeType DEF ExchangeInv
<1>3. ChatsInv
  <2> DEFINE d == [posts |-> << >>, answers |-> << >>, turns |-> 0, phase |-> "idle"]
  <2>1. chat = [c \in Conversations |-> d]
    BY DEF ConversationInit
  <2>2. 0 \in 0..(MaxSend * MaxTry) /\ Len(<< >>) = 0
    BY SendAssumption, ProductFacts
  <2>3. d \in Chat
    BY <2>2, NoDraft DEF Chat
  <2>4. Sound(d) /\ d.posts = << >>
    BY <2>2, <2>3 DEF Sound
  <2> HIDE DEF d
  <2>5. chat \in [Conversations -> Chat] /\ \A c \in Conversations : chat[c] = d
    BY <2>1, <2>3
  <2>6. Len(d.posts) <= Spent
    BY <1>2, <2>2, <2>4, SpentFacts
  <2> QED
    BY <2>4, <2>5, <2>6 DEF ChatsInv
<1>4. exchange.pc = "none" /\ url = None /\ mem_url = None
  BY NoExchangeType DEF ConversationInit, Init
<1> QED
  BY <1>1, <1>2, <1>3, <1>4 DEF TalkInv, WaitInv, Waiting, NotedInv, AskedInv

LEMMA TalkStep == TalkInv /\ TypeOK' /\ [ConversationNext]_<<vars, exchanges>> => TalkInv'
BY ChatsStep, ExchangeStep, WaitStep, NotedStep, AskedStep DEF TalkInv

LEMMA TalkInvariant == ConversationSpec => []TalkInv
BY TalkInit, TalkStep, ConversationTypes, PTL DEF ConversationSpec

\* Conversations, composer and call keep their types: whatever is repeated, no more is posted
\* than attempts are made, and what ChatGPT shows stays within that.
THEOREM ConversationTypesCorrect == ConversationSpec => []ConversationTypeOK
<1>1. TalkInv => ConversationTypeOK
  <2> SUFFICES ASSUME TalkInv PROVE ConversationTypeOK
    OBVIOUS
  <2>1. ASSUME NEW c \in Conversations
        PROVE  /\ c > chats => chat[c].posts = << >>
               /\ chat[c].phase # "idle" => chat[c].posts # << >>
    <3>1. Sound(chat[c]) /\ (c > chats => chat[c].posts = << >>)
      BY DEF TalkInv, ChatsInv
    <3>2. Len(chat[c].answers) \in Nat /\ Len(<< >>) = 0
      BY <3>1 DEF Sound, Chat
    <3> QED
      BY <3>1, <3>2 DEF Sound
  <2> QED
    BY <2>1 DEF TalkInv, ChatsInv, ExchangeInv, ConversationTypeOK
<1> QED
  BY <1>1, TalkInvariant, PTL

\* What is returned is the last text of the page and all of it, whatever attempts were made
\* and however the polls fall between the steps of ChatGPT (wait_for_response).
THEOREM ResponsesAreWhole == ConversationSpec => []ResponseIsWhole
<1>1. TalkInv => ResponseIsWhole
  <2> SUFFICES ASSUME TalkInv, exchange.pc = "returned", "raced" \notin odd
               PROVE  exchange.candidate.whole /\ exchange.candidate = LastText(page)
    BY DEF ResponseIsWhole
  <2>1. exchange.candidate = LastText(page) /\ LastText(page) # None /\ chat[page].phase = "idle"
    BY DEF TalkInv, WaitInv
  <2>2. page \in Conversations
    BY PageIsOpen DEF TalkInv, ExchangeInv
  <2> QED
    BY <2>1, <2>2, LastTexts DEF TalkInv
<1> QED
  BY <1>1, TalkInvariant, PTL

\* In the usual order the text that is returned answers the message just sent, in whichever
\* attempt it went out (send_project_message_and_wait_for_response).
THEOREM AnswersAreToTheMessage == ConversationSpec => []AnswersThisMessage
<1>1. TalkInv => AnswersThisMessage
  <2> SUFFICES ASSUME TalkInv, exchange.pc = "returned", odd = {}
               PROVE  Addressee(exchange.candidate) = sent
    BY DEF AnswersThisMessage
  <2>1. exchange.candidate = LastText(page) /\ LastText(page) # None /\ chat[page].phase = "idle"
    BY DEF TalkInv, WaitInv
  <2>2. page \in Conversations
    BY PageIsOpen DEF TalkInv, ExchangeInv
  <2>3. exchange.candidate.number = Len(chat[page].answers)
    BY <2>1, <2>2, LastTexts DEF TalkInv
  <2>4. Last(chat[page].answers) = sent
    BY <2>1 DEF TalkInv, AskedInv, Pending, Done
  <2>5. Len(chat[page].answers) \in Nat
    BY <2>2 DEF TalkInv, ChatsInv, Chat
  <2> QED
    BY <2>3, <2>4, <2>5 DEF Addressee, Last
<1> QED
  BY <1>1, TalkInvariant, PTL

\* A conversation that a later run may resume has an answer: no run that dies, fails to save
\* or gives a conversation up leaves one behind that has none.
THEOREM PersistedConversationsAreAnswered == ConversationSpec => []PersistedConversationIsAnswered
<1>1. TalkInv => PersistedConversationIsAnswered
  BY DEF TalkInv, NotedInv, PersistedConversationIsAnswered
<1> QED
  BY <1>1, TalkInvariant, PTL
====
