--------------------------- MODULE EventHubProofs ---------------------------
(***************************************************************************)
(* No change is lost between the watcher, the queues and the streams, for  *)
(* any number of clients, however small the queues are.                    *)
(***************************************************************************)
EXTENDS EventHub, SequenceTheorems, TLAPS

Events == {"changed", "shutdown"}

ProducerState ==
  [pc : {"idle", "head", "config", "names", "project", "compare", "copy", "offer", "evict", "retry",
         "down", "dead"},
   todo : SUBSET Client, client : Client \cup {None}]

\* A thread that puts events has only subscribed queues left to do, and holds one only
\* between finding it full and trying again.
ProducerInv(s, subscribed) ==
  /\ s \in ProducerState
  /\ s.todo \subseteq subscribed
  /\ IF s.pc \in {"evict", "retry"} THEN s.client \in s.todo ELSE s.client = None
  /\ s.pc \notin {"offer", "evict", "retry"} => s.todo = {}

FilesInv ==
  /\ signature \in Signatures /\ text \in {"good", "refused", "malformed"}
  /\ snapshot \in Snapshot /\ scan \in Snapshot
  \* What was seen of a file is not newer than the file.
  /\ \A f \in File : snapshot[f] # None => snapshot[f] <= signature[f]
  /\ \A f \in File : scan[f] # None => scan[f] <= signature[f]

StreamInv ==
  /\ stop \in BOOLEAN /\ clients \subseteq Client
  /\ stream \in [Client -> {"none", "accepted", "connect", "head", "get", "write", "lost"}]
  /\ untold \in [Client -> SUBSET File]
  /\ \A c \in Client : Streaming(c) => c \in clients
  /\ \A c \in Client : ~ Streaming(c) => untold[c] = {}

QueueInv ==
  /\ queue \in [Client -> Seq(Events)]
  /\ \A c \in Client : Len(queue[c]) <= QueueSize /\ (c \notin clients => queue[c] = << >>)
  /\ producer \in [Producer -> ProducerState]
  /\ \A p \in Producer : ProducerInv(producer[p], clients)
  \* The last event is put by the thread that stops the server.
  /\ ~ stop => At("stopper", "idle") /\ \A c \in Client : queue[c] \in Seq({"changed"})

\* A change that was not told yet is on its way.
Pending(c) ==
  \/ stream[c] = "write" \/ queue[c] # << >>
  \/ c \in producer["watcher"].todo
  \/ snapshot # signature

TellInv == ~ stop => \A c \in Client : untold[c] # {} => Pending(c)

HubInv == FilesInv /\ StreamInv /\ QueueInv

LEMMA Sequence ==
  ASSUME NEW S, NEW q \in Seq(S), NEW e \in S
  PROVE  /\ Append(q, e) \in Seq(S) /\ Append(q, e) # << >> /\ Len(Append(q, e)) = Len(q) + 1
         /\ Len(q) \in Nat /\ (Len(q) = 0 <=> q = << >>)
         /\ q # << >> => /\ Head(q) \in S /\ Tail(q) \in Seq(S)
                         /\ Len(Tail(q)) = Len(q) - 1
<1>1. Append(q, e) \in Seq(S) /\ Append(q, e) # << >> /\ Len(Append(q, e)) = Len(q) + 1
  BY AppendProperties
<1>2. Len(q) \in Nat /\ (Len(q) = 0 <=> q = << >>)
  BY EmptySeq, LenProperties
<1>3. q # << >> => Head(q) \in S /\ Tail(q) \in Seq(S) /\ Len(Tail(q)) = Len(q) - 1
  BY HeadTailProperties
<1> QED
  BY <1>1, <1>2, <1>3

LEMMA EmptyQueue == << >> \in Seq(Events) /\ << >> \in Seq({"changed"}) /\ Len(<< >>) = 0
OBVIOUS

LEMMA HubInit == Init => HubInv /\ TellInv
<1> SUFFICES ASSUME Init PROVE HubInv /\ TellInv
  OBVIOUS
<1>1. FilesInv
  BY QueueAssumption DEF Init, FilesInv, Signatures, Snapshot, File
<1>2. StreamInv
  BY DEF Init, StreamInv, Streaming
<1>3. QueueInv
  BY QueueAssumption, EmptyQueue DEF Init, QueueInv, ProducerInv, ProducerState, Producer, At
<1>4. TellInv
  BY DEF Init, TellInv
<1> QED
  BY <1>1, <1>2, <1>3, <1>4 DEF HubInv

LEMMA FilesStep == ASSUME HubInv, [Next]_vars PROVE FilesInv'
<1> USE DEF hub, HubInv, FilesInv, Signatures, Snapshot, File
<1>1. CASE Change
  BY <1>1, QueueAssumption, NoSignatureAssumption DEF Change
<1>2. CASE ScanConfig
  BY <1>2 DEF ScanConfig
<1>3. CASE ScanProject
  BY <1>3 DEF ScanProject
<1>4. CASE Compare
  BY <1>4 DEF Compare
<1>5. CASE UNCHANGED <<signature, text, snapshot, scan>>
  BY <1>5
<1>6. ASSUME NEW p \in Producer, OfferSteps(p) PROVE UNCHANGED <<signature, text, snapshot, scan>>
  BY <1>6 DEF OfferSteps, Offer, Evict, Retry
<1>7. ASSUME NEW c \in Client, Accept(c) \/ Serve(c) \/ Lose(c) \/ Break(c)
      PROVE  UNCHANGED <<signature, text, snapshot, scan>>
  BY <1>7 DEF Accept, Serve, Lose, Break, Subscribe, Connect, LoopHead, Take, WriteEvent, KeepAlive
<1> QED
  BY <1>1, <1>2, <1>3, <1>4, <1>5, <1>6, <1>7
     DEF Next, vars, Watch, WatchHead, LoadNames, Stop, CopyClients

LEMMA StreamStep == ASSUME HubInv, [Next]_vars PROVE StreamInv'
<1> USE DEF hub, HubInv, StreamInv, Streaming
<1>1. CASE Change
  BY <1>1 DEF Change, File
<1>2. CASE UNCHANGED <<clients, stream, untold>> /\ stop' \in BOOLEAN
  BY <1>2
<1>3. ASSUME NEW p \in Producer, OfferSteps(p) PROVE UNCHANGED <<clients, stream, untold, stop>>
  BY <1>3 DEF OfferSteps, Offer, Evict, Retry
<1>4. ASSUME NEW c \in Client, Close(c), stop' = stop PROVE StreamInv'
  BY <1>4 DEF Close, Move
<1>5. ASSUME NEW c \in Client, Accept(c) \/ Serve(c) \/ Lose(c) \/ Break(c) PROVE StreamInv'
  <2>1. CASE Accept(c) \/ Subscribe(c) \/ Connect(c) \/ KeepAlive(c)
    BY <2>1 DEF Accept, Subscribe, Connect, KeepAlive, Move
  <2>2. CASE Lose(c) \/ WriteEvent(c)
    BY <2>2 DEF Lose, WriteEvent, Move
  <2>3. CASE LoopHead(c)
    BY <1>4, <2>3 DEF LoopHead, Move
  <2>4. CASE Take(c)
    BY <1>4, <2>4 DEF Take, Move
  <2>5. CASE Break(c)
    BY <1>4, <2>5 DEF Break
  <2> QED
    BY <1>5, <2>1, <2>2, <2>3, <2>4, <2>5 DEF Serve
<1>6. CASE Watch \/ Stop \/ CopyClients
  BY <1>6 DEF Watch, WatchHead, ScanConfig, LoadNames, ScanProject, Compare, Stop, CopyClients
<1> QED
  BY <1>1, <1>2, <1>3, <1>5, <1>6 DEF Next, vars

------------------------------------------------------------------------------
(* The queues. *)

QueueTyped(qs, q) == /\ q \in [Client -> Seq(Events)]
                     /\ \A c \in Client : Len(q[c]) <= QueueSize /\ (c \notin qs => q[c] = << >>)
                     /\ ~ stop => \A c \in Client : q[c] \in Seq({"changed"})

\* A thread moves, and the queues stay.
LEMMA MoveOn ==
  ASSUME HubInv, NEW p \in Producer, NEW s \in ProducerState, ProducerInv(s, clients),
         producer' = [producer EXCEPT ![p] = s],
         UNCHANGED <<queue, clients>>, stop => stop',
         ~ stop' => (p = "stopper" => s.pc = "idle")
  PROVE  QueueInv'
BY DEF HubInv, QueueInv, StreamInv, ProducerInv, At

\* A producer puts its event where there is room.
LEMMA PutKeeps ==
  ASSUME HubInv, NEW p \in Producer, NEW c \in clients, HasRoom(c), Put(p, c),
         ~ stop => p = "watcher"
  PROVE  QueueTyped(clients, queue') /\ queue'[c] # << >>
<1>1. c \in Client /\ queue \in [Client -> Seq(Events)]
  BY DEF HubInv, StreamInv, QueueInv
<1>2. Event(p) \in Events /\ (~ stop => Event(p) = "changed")
  BY DEF Event, Events
<1>3. /\ Append(queue[c], Event(p)) \in Seq(Events) /\ Append(queue[c], Event(p)) # << >>
      /\ Len(Append(queue[c], Event(p))) = Len(queue[c]) + 1 /\ Len(queue[c]) \in Nat
  BY <1>1, <1>2, Sequence
<1>4. ~ stop => Append(queue[c], Event(p)) \in Seq({"changed"})
  BY <1>1, <1>2, Sequence DEF HubInv, QueueInv
<1>5. Len(Append(queue[c], Event(p))) <= QueueSize
  BY <1>3, QueueAssumption DEF HasRoom
<1>6. queue' = [queue EXCEPT ![c] = Append(queue[c], Event(p))]
  BY DEF Put
<1> HIDE DEF Event
<1> QED
  BY <1>1, <1>3, <1>4, <1>5, <1>6 DEF QueueTyped, HubInv, QueueInv

\* It drops an event, when there is one.
LEMMA EvictKeeps ==
  ASSUME HubInv, NEW c \in clients,
         queue' = [queue EXCEPT ![c] = IF queue[c] = << >> THEN queue[c] ELSE Tail(queue[c])]
  PROVE  QueueTyped(clients, queue')
<1>1. c \in Client /\ queue \in [Client -> Seq(Events)]
  BY DEF HubInv, StreamInv, QueueInv
<1>2. CASE queue[c] = << >>
  BY <1>1, <1>2 DEF QueueTyped, HubInv, QueueInv
<1>3. CASE queue[c] # << >>
  <2>1. Tail(queue[c]) \in Seq(Events) /\ Len(Tail(queue[c])) = Len(queue[c]) - 1 /\ Len(queue[c]) \in Nat
    BY <1>1, <1>3, HeadTailProperties, LenProperties
  <2>2. ~ stop => Tail(queue[c]) \in Seq({"changed"})
    BY <1>1, <1>3, HeadTailProperties DEF HubInv, QueueInv
  <2>3. Len(Tail(queue[c])) <= QueueSize
    BY <1>1, <2>1, QueueAssumption DEF HubInv, QueueInv
  <2> QED
    BY <1>1, <1>3, <2>1, <2>2, <2>3 DEF QueueTyped, HubInv, QueueInv
<1> QED
  BY <1>2, <1>3

\* A handler that ends takes its queue out of everybody's hands.
LEMMA CloseKeeps == ASSUME HubInv, NEW c \in Client, Close(c), stop' = stop PROVE QueueInv'
<1>1. ASSUME NEW p \in Producer
      PROVE  /\ ProducerInv(producer'[p], clients')
             /\ producer[p].pc = "idle" => producer'[p].pc = "idle"
  <2>1. producer[p] \in ProducerState /\ ProducerInv(producer[p], clients)
    BY DEF HubInv, QueueInv
  <2>2. clients' = clients \ {c}
    BY DEF Close
  <2>3. CASE producer[p].client = c /\ producer[p].pc \in {"offer", "evict", "retry"}
    <3>1. producer'[p] = [pc |-> "offer", todo |-> producer[p].todo \ {c}, client |-> None]
      BY <2>3 DEF Close
    <3> QED
      BY <2>1, <2>2, <2>3, <3>1 DEF ProducerInv, ProducerState
  <2>4. CASE producer[p].client # c
    <3>1. producer'[p] = [producer[p] EXCEPT !.todo = @ \ {c}]
      BY <2>4 DEF Close
    <3>2. /\ producer'[p] \in ProducerState /\ producer'[p].pc = producer[p].pc
          /\ producer'[p].client = producer[p].client /\ producer'[p].todo = producer[p].todo \ {c}
      BY <2>1, <3>1 DEF ProducerState
    <3> QED
      BY <2>1, <2>2, <2>4, <3>2 DEF ProducerInv
  <2>5. producer[p].client = c => producer[p].pc \in {"evict", "retry"}
    BY <2>1, NoSignatureAssumption DEF ProducerInv
  <2> QED
    BY <2>3, <2>4, <2>5
<1>2. clients' = clients \ {c} /\ queue' = [queue EXCEPT ![c] = << >>]
  BY DEF Close
<1>3. /\ queue' \in [Client -> Seq(Events)]
      /\ \A d \in Client : Len(queue'[d]) <= QueueSize /\ (d \notin clients' => queue'[d] = << >>)
      /\ ~ stop => \A d \in Client : queue'[d] \in Seq({"changed"})
  BY <1>2, EmptyQueue, QueueAssumption DEF HubInv, QueueInv
<1>4. producer' \in [Producer -> ProducerState]
  <2>1. \A p \in Producer : producer'[p] \in ProducerState
    BY <1>1 DEF ProducerInv
  <2>2. producer' = [p \in Producer |-> producer'[p]]
    BY DEF Close
  <2> QED
    BY <2>1, <2>2
<1>5. ~ stop' => (At("stopper", "idle"))'
  BY <1>1 DEF At, HubInv, QueueInv, Producer
<1> QED
  BY <1>1, <1>3, <1>4, <1>5 DEF QueueInv

LEMMA QueueStep == ASSUME HubInv, [Next]_vars PROVE QueueInv'
<1> USE DEF hub
<1>0. /\ stop \in BOOLEAN /\ clients \subseteq Client /\ producer \in [Producer -> ProducerState]
      /\ \A p \in Producer : producer[p] \in ProducerState /\ ProducerInv(producer[p], clients)
      /\ "watcher" \in Producer /\ "stopper" \in Producer
  BY DEF HubInv, StreamInv, QueueInv, Producer
<1>1. ASSUME UNCHANGED <<clients, queue, producer, stop>> PROVE QueueInv'
  BY <1>1 DEF HubInv, QueueInv, ProducerInv, At
<1>2. ASSUME NEW p \in Producer, NEW pc \in {"idle", "head", "config", "names", "project", "compare",
                                               "copy", "down", "dead"},
             Goto(p, pc), producer[p].pc \notin {"evict", "retry"}, producer[p].todo = {},
             UNCHANGED <<queue, clients>>, stop => stop',
             ~ stop' => (p = "stopper" => pc = "idle")
      PROVE  QueueInv'
  <2> DEFINE s == [producer[p] EXCEPT !.pc = pc]
  <2>1. s \in ProducerState /\ s.pc = pc /\ s.todo = producer[p].todo /\ s.client = producer[p].client
    BY <1>0 DEF ProducerState
  <2>2. ProducerInv(s, clients)
    <3> HIDE DEF s
    <3> QED
      BY <1>0, <1>2, <2>1 DEF ProducerInv
  <2>3. producer' = [producer EXCEPT ![p] = s]
    BY <1>2 DEF Goto
  <2> QED
    BY <1>2, <2>1, <2>2, <2>3, MoveOn
<1>3. ASSUME NEW p \in Producer, NEW receivers \in SUBSET clients
      PROVE  /\ [pc |-> "offer", todo |-> receivers, client |-> None] \in ProducerState
             /\ ProducerInv([pc |-> "offer", todo |-> receivers, client |-> None], clients)
  BY <1>0 DEF ProducerState, ProducerInv
<1>4. CASE WatchHead \/ ScanConfig \/ LoadNames \/ ScanProject
  <2>1. producer["watcher"].pc \in {"head", "config", "names", "project"}
    BY <1>4 DEF WatchHead, ScanConfig, LoadNames, ScanProject, At
  <2>2. producer["watcher"].todo = {}
    BY <1>0, <2>1 DEF ProducerInv
  <2>3. \E pc \in {"down", "config", "names", "project", "compare", "dead"} : Goto("watcher", pc)
    BY <1>4 DEF WatchHead, ScanConfig, LoadNames, ScanProject
  <2>4. UNCHANGED <<queue, clients, stop>>
    BY <1>4 DEF WatchHead, ScanConfig, LoadNames, ScanProject
  <2> QED
    BY <1>0, <1>2, <2>1, <2>2, <2>3, <2>4
<1>5. CASE Compare
  <2>1. producer["watcher"].pc = "compare" /\ producer["watcher"].todo = {}
    BY <1>0, <1>5 DEF Compare, At, ProducerInv
  <2>2. CASE Goto("watcher", "head")
    BY <1>0, <1>2, <1>5, <2>1, <2>2 DEF Compare
  <2>3. CASE OfferTo("watcher", clients)
    BY <1>0, <1>3, <1>5, <2>3, MoveOn DEF Compare, OfferTo
  <2> QED
    BY <1>5, <2>2, <2>3 DEF Compare
<1>6. CASE Stop
  <2>1. producer["stopper"].pc = "idle" /\ producer["stopper"].todo = {}
    BY <1>0, <1>6 DEF Stop, At, ProducerInv
  <2> QED
    BY <1>0, <1>2, <1>6, <2>1 DEF Stop
<1>7. CASE CopyClients
  <2>1. stop
    BY <1>7 DEF CopyClients, At, HubInv, QueueInv
  <2> QED
    BY <1>0, <1>3, <1>7, <2>1, MoveOn DEF CopyClients, OfferTo
<1>8. ASSUME NEW p \in Producer, OfferSteps(p) PROVE QueueInv'
  <2>0. ~ stop => p = "watcher"
    BY <1>8 DEF OfferSteps, Offer, Evict, Retry, At, HubInv, QueueInv, Producer
  <2>1. ASSUME NEW s \in ProducerState, ProducerInv(s, clients), producer' = [producer EXCEPT ![p] = s],
               QueueTyped(clients, queue'), UNCHANGED <<clients, stop>>
        PROVE  QueueInv'
    <3>1. producer' \in [Producer -> ProducerState] /\ \A q \in Producer : ProducerInv(producer'[q], clients)
      BY <1>0, <2>1
    <3>2. ~ stop => producer'["stopper"].pc = "idle"
      BY <1>0, <2>0, <2>1 DEF At, HubInv, QueueInv
    <3> QED
      BY <2>1, <3>1, <3>2 DEF QueueInv, QueueTyped, At, ProducerInv
  <2>2. QueueTyped(clients, queue)
    BY DEF QueueTyped, HubInv, QueueInv
  <2>3. UNCHANGED <<clients, stop>>
    BY <1>8 DEF OfferSteps, Offer, Evict, Retry
  <2>4. ASSUME NEW c \in clients, Drop(p, c), QueueTyped(clients, queue') PROVE QueueInv'
    <3> DEFINE s == [pc |-> "offer", todo |-> producer[p].todo \ {c}, client |-> None]
    <3>1. producer[p].todo \ {c} \in SUBSET clients
      BY <1>0 DEF ProducerInv
    <3>2. s \in ProducerState /\ ProducerInv(s, clients)
      BY <1>3, <3>1
    <3>3. producer' = [producer EXCEPT ![p] = s]
      BY <2>4 DEF Drop, OfferTo
    <3> QED
      BY <2>1, <2>3, <2>4, <3>2, <3>3
  <2>5. CASE Offer(p)
    <3>1. producer[p].pc = "offer" /\ producer[p].client = None /\ producer[p].todo \subseteq clients
      BY <1>0, <2>5 DEF Offer, At, ProducerInv
    <3>2. CASE producer[p].todo = {}
      BY <1>0, <1>2, <2>0, <2>3, <2>5, <3>1, <3>2 DEF Offer, Producer
    <3>3. ASSUME NEW c \in producer[p].todo, HasRoom(c), Put(p, c), Drop(p, c) PROVE QueueInv'
      BY <2>0, <2>4, <3>1, <3>3, PutKeeps
    <3>4. ASSUME NEW c \in producer[p].todo, UNCHANGED queue,
                 producer' = [producer EXCEPT ![p].pc = "evict", ![p].client = c]
          PROVE  QueueInv'
      <4> DEFINE s == [producer[p] EXCEPT !.pc = "evict", !.client = c]
      <4>1. /\ s \in ProducerState /\ s.pc = "evict" /\ s.client = c /\ s.todo = producer[p].todo
        BY <1>0, <3>1 DEF ProducerState
      <4>2. ProducerInv(s, clients)
        <5> HIDE DEF s
        <5> QED
          BY <3>1, <4>1 DEF ProducerInv
      <4>3. producer' = [producer EXCEPT ![p] = s]
        BY <1>0, <3>4 DEF ProducerState
      <4> QED
        BY <2>1, <2>2, <2>3, <3>4, <4>1, <4>2, <4>3
    <3> QED
      BY <2>5, <3>2, <3>3, <3>4 DEF Offer
  <2>6. CASE Evict(p)
    <3> DEFINE c == producer[p].client
               s == [producer[p] EXCEPT !.pc = "retry"]
    <3>1. c \in producer[p].todo /\ producer[p].todo \subseteq clients
      BY <1>0, <2>6 DEF Evict, At, ProducerInv
    <3>2. s \in ProducerState /\ s.pc = "retry" /\ s.client = c /\ s.todo = producer[p].todo
      BY <1>0 DEF ProducerState
    <3>3. ProducerInv(s, clients)
      <4> HIDE DEF s
      <4> QED
        BY <3>1, <3>2 DEF ProducerInv
    <3>4. producer' = [producer EXCEPT ![p] = s]
      BY <2>6 DEF Evict, Goto
    <3>5. QueueTyped(clients, queue')
      BY <3>1, <2>6, EvictKeeps DEF Evict
    <3> QED
      BY <2>1, <2>3, <3>2, <3>3, <3>4, <3>5
  <2>7. CASE Retry(p)
    <3> DEFINE c == producer[p].client
    <3>1. c \in clients
      BY <1>0, <2>7 DEF Retry, At, ProducerInv
    <3>2. QueueTyped(clients, queue')
      BY <2>0, <2>2, <2>7, <3>1, PutKeeps DEF Retry
    <3> QED
      BY <2>4, <2>7, <3>1, <3>2 DEF Retry
  <2> QED
    BY <1>8, <2>5, <2>6, <2>7 DEF OfferSteps
<1>9. ASSUME NEW c \in Client, Subscribe(c) PROVE QueueInv'
  BY <1>0, <1>9 DEF Subscribe, HubInv, QueueInv, ProducerInv, At
<1>10. ASSUME NEW c \in Client, Take(c) PROVE QueueInv'
  <2>1. CASE Close(c)
    BY <1>10, <2>1, CloseKeeps DEF Take
  <2>2. CASE ~ Close(c)
    <3>1. queue[c] # << >> /\ queue' = [queue EXCEPT ![c] = Tail(queue[c])]
          /\ UNCHANGED <<producer, clients, stop>>
      BY <1>10, <2>2 DEF Take
    <3>2. c \in clients
      BY <1>10 DEF Take, HubInv, StreamInv, Streaming
    <3>3. QueueTyped(clients, queue')
      BY <3>1, <3>2, EvictKeeps
    <3> QED
      BY <3>1, <3>3 DEF QueueTyped, HubInv, QueueInv, ProducerInv, At
  <2> QED
    BY <2>1, <2>2
<1>11. ASSUME NEW c \in Client, LoopHead(c) \/ Break(c) PROVE QueueInv'
  BY <1>1, <1>11, CloseKeeps DEF LoopHead, Break
<1>12. ASSUME NEW c \in Client, Accept(c) \/ Connect(c) \/ Lose(c) \/ WriteEvent(c) \/ KeepAlive(c)
       PROVE  QueueInv'
  BY <1>1, <1>12 DEF Accept, Connect, Lose, WriteEvent, KeepAlive
<1>13. Change \/ UNCHANGED vars => QueueInv'
  BY <1>1 DEF Change, vars
<1> QED
  BY <1>4, <1>5, <1>6, <1>7, <1>8, <1>9, <1>10, <1>11, <1>12, <1>13 DEF Next, Watch, Serve

LEMMA HubInvariant == Spec => []HubInv
<1>1. HubInv /\ [Next]_vars => HubInv'
  BY FilesStep, StreamStep, QueueStep DEF HubInv
<1> QED
  BY <1>1, HubInit, PTL DEF Spec

------------------------------------------------------------------------------
(* What is pending stays pending until it is told. *)

LEMMA TellStep == ASSUME HubInv, TellInv, [Next]_vars PROVE TellInv'
<1> USE DEF hub
<1>0. /\ stop \in BOOLEAN /\ clients \subseteq Client /\ producer \in [Producer -> ProducerState]
      /\ stream \in [Client -> {"none", "accepted", "connect", "head", "get", "write", "lost"}]
      /\ untold \in [Client -> SUBSET File] /\ queue \in [Client -> Seq(Events)]
      /\ "watcher" \in Producer /\ "stopper" \in Producer
      /\ \A p \in Producer : producer[p] \in ProducerState /\ ProducerInv(producer[p], clients)
  BY DEF HubInv, StreamInv, QueueInv, Producer
<1> SUFFICES ASSUME ~ stop', NEW c \in Client, untold'[c] # {} PROVE Pending(c)'
  BY DEF TellInv
<1>1. ~ stop
  BY DEF Next, vars, Change, Watch, WatchHead, ScanConfig, LoadNames, ScanProject, Compare, Stop,
         CopyClients, OfferSteps, Offer, Evict, Retry, Accept, Serve, Subscribe, Connect, LoopHead, Take,
         WriteEvent, KeepAlive, Lose, Break
<1>2. untold[c] # {} => Pending(c)
  BY <1>1 DEF TellInv
<1>3. ASSUME UNCHANGED <<stream, queue, untold, snapshot, signature>>,
             producer'["watcher"].todo = producer["watcher"].todo
      PROVE  Pending(c)'
  BY <1>2, <1>3 DEF Pending
<1>4. ASSUME NEW pc, Goto("watcher", pc)
      PROVE  producer'["watcher"].todo = producer["watcher"].todo
  BY <1>0, <1>4 DEF Goto, ProducerState
<1>5. CASE Change
  <2>1. PICK f \in File : signature' = [signature EXCEPT ![f] = @ + 1]
    BY <1>5 DEF Change
  <2>2. signature'[f] = signature[f] + 1 /\ signature[f] \in Int /\ snapshot' = snapshot
    BY <1>5, <2>1, QueueAssumption DEF Change, HubInv, FilesInv, Signatures
  <2>3. snapshot[f] # None => snapshot[f] <= signature[f]
    BY DEF HubInv, FilesInv
  <2>4. signature[f] + 1 # None
    BY <2>2, NoSignatureAssumption, QueueAssumption DEF HubInv, FilesInv, Signatures
  <2>5. snapshot[f] # signature'[f]
    BY <2>2, <2>3, <2>4, QueueAssumption DEF HubInv, FilesInv, Snapshot
  <2> QED
    BY <2>2, <2>5 DEF Pending
<1>6. CASE WatchHead \/ ScanConfig \/ LoadNames \/ ScanProject
  <2>1. \E pc : Goto("watcher", pc)
    BY <1>6 DEF WatchHead, ScanConfig, LoadNames, ScanProject
  <2>2. UNCHANGED <<stream, queue, untold, snapshot, signature>>
    BY <1>6 DEF WatchHead, ScanConfig, LoadNames, ScanProject
  <2> QED
    BY <1>3, <1>4, <2>1, <2>2
<1>7. CASE Compare
  <2>1. CASE scan = snapshot
    BY <1>3, <1>4, <1>7, <2>1 DEF Compare
  <2>2. CASE scan # snapshot
    <3>1. producer'["watcher"].todo = clients
      BY <1>0, <1>7, <2>2 DEF Compare, OfferTo
    <3>2. c \in clients
      BY <1>7 DEF Compare, HubInv, StreamInv
    <3> QED
      BY <3>1, <3>2 DEF Pending
  <2> QED
    BY <2>1, <2>2
<1>8. ASSUME NEW p \in Producer, OfferSteps(p) PROVE Pending(c)'
  <2>0. p = "watcher"
    BY <1>1, <1>8 DEF OfferSteps, Offer, Evict, Retry, At, HubInv, QueueInv, Producer
  <2>1. UNCHANGED <<stream, untold, snapshot, signature>>
    BY <1>8 DEF OfferSteps, Offer, Evict, Retry
  <2>2. ASSUME c \in producer'["watcher"].todo \/ queue'[c] # << >> PROVE Pending(c)'
    BY <2>2 DEF Pending
  <2>3. ASSUME NEW d \in clients, Drop(p, d)
        PROVE  producer'["watcher"].todo = producer["watcher"].todo \ {d}
    BY <1>0, <2>0, <2>3 DEF Drop, OfferTo
  <2>4. ASSUME NEW d \in clients, HasRoom(d), Put(p, d), Drop(p, d) PROVE Pending(c)'
    <3>1. queue'[d] # << >> /\ d \in Client
      BY <1>0, <2>0, <2>4, PutKeeps
    <3>2. c # d => queue'[c] = queue[c]
      BY <1>0, <2>4 DEF Put
    <3>3. CASE c = d
      BY <2>2, <3>1, <3>3
    <3>4. CASE c # d
      BY <1>2, <2>1, <2>3, <2>4, <3>2, <3>4 DEF Pending
    <3> QED
      BY <3>3, <3>4
  <2>5. CASE Offer(p)
    <3>1. producer[p].todo \subseteq clients
      BY <1>0 DEF ProducerInv
    <3>2. CASE producer[p].todo = {}
      BY <1>3, <1>4, <2>0, <2>1, <2>5, <3>2 DEF Offer
    <3>3. ASSUME NEW d \in producer[p].todo, UNCHANGED queue,
                 producer' = [producer EXCEPT ![p].pc = "evict", ![p].client = d]
          PROVE  Pending(c)'
      <4>1. producer'["watcher"].todo = producer["watcher"].todo
        BY <1>0, <2>0, <3>3 DEF ProducerState
      <4> QED
        BY <1>3, <2>1, <3>3, <4>1
    <3> QED
      BY <2>4, <2>5, <3>1, <3>2, <3>3 DEF Offer
  <2>6. CASE Evict(p)
    <3>1. producer[p].client \in producer[p].todo
      BY <1>0, <2>6 DEF Evict, At, ProducerInv
    <3>2. producer'["watcher"].todo = producer["watcher"].todo
      BY <1>4, <2>0, <2>6 DEF Evict
    <3>3. c # producer[p].client => queue'[c] = queue[c]
      BY <1>0, <2>6 DEF Evict
    <3> QED
      BY <1>2, <2>0, <2>1, <3>1, <3>2, <3>3 DEF Pending
  <2>7. CASE Retry(p)
    <3> DEFINE d == producer[p].client
    <3>1. d \in clients /\ d \in Client
      BY <1>0, <2>7 DEF Retry, At, ProducerInv
    <3>2. CASE HasRoom(d)
      BY <2>4, <2>7, <3>1, <3>2 DEF Retry
    <3>3. CASE ~ HasRoom(d)
      <4>1. queue' = queue
        BY <2>7, <3>3 DEF Retry
      <4>2. queue[d] # << >>
        BY <1>0, <3>1, <3>3, EmptyQueue, QueueAssumption DEF HasRoom
      <4>3. producer'["watcher"].todo = producer["watcher"].todo \ {d}
        BY <2>3, <2>7, <3>1 DEF Retry
      <4> QED
        BY <1>2, <2>1, <4>1, <4>2, <4>3 DEF Pending
    <3> QED
      BY <3>2, <3>3
  <2> QED
    BY <1>8, <2>5, <2>6, <2>7 DEF OfferSteps
<1>9. ASSUME NEW d \in Client, Close(d), UNCHANGED <<signature, snapshot>> PROVE Pending(c)'
  <2>1. c # d
    BY <1>0, <1>9 DEF Close
  <2>2. untold'[c] = untold[c] /\ queue'[c] = queue[c] /\ stream'[c] = stream[c]
    BY <1>0, <1>9, <2>1 DEF Close, Move
  <2>3. c \in producer["watcher"].todo => c \in producer'["watcher"].todo
    BY <1>0, <1>9, <2>1 DEF Close, ProducerState
  <2> QED
    BY <1>2, <1>9, <2>2, <2>3 DEF Pending
<1>10. ASSUME NEW d \in Client, Accept(d) \/ Subscribe(d) \/ Connect(d) \/ Lose(d) \/ WriteEvent(d) \/ KeepAlive(d)
       PROVE  Pending(c)'
  <2>1. UNCHANGED <<producer, queue, snapshot, signature>>
    BY <1>10 DEF Accept, Subscribe, Connect, Lose, WriteEvent, KeepAlive
  <2>2. untold'[c] = untold[c]
    BY <1>0, <1>10 DEF Accept, Subscribe, Connect, Lose, WriteEvent, KeepAlive
  <2>3. stream[c] = "write" => stream'[c] = "write"
    BY <1>0, <1>10 DEF Accept, Subscribe, Connect, Lose, WriteEvent, KeepAlive, Move
  <2> QED
    BY <1>2, <2>1, <2>2, <2>3 DEF Pending
<1>11. ASSUME NEW d \in Client, LoopHead(d) PROVE Pending(c)'
  <2>1. Move(d, "get") /\ stream[d] = "head" /\ UNCHANGED <<producer, queue, untold, snapshot, signature>>
    BY <1>1, <1>11 DEF LoopHead
  <2> QED
    BY <1>0, <1>2, <2>1 DEF Pending, Move
<1>12. ASSUME NEW d \in Client, Take(d) PROVE Pending(c)'
  <2>1. CASE Close(d)
    BY <1>9, <1>12, <2>1 DEF Take
  <2>2. CASE ~ Close(d)
    <3>1. /\ queue' = [queue EXCEPT ![d] = Tail(@)] /\ Move(d, "write") /\ stream[d] = "get"
          /\ UNCHANGED <<producer, untold, snapshot, signature>>
      BY <1>12, <2>2 DEF Take
    <3>2. CASE c = d
      BY <1>0, <3>1, <3>2 DEF Pending, Move
    <3>3. CASE c # d
      BY <1>0, <1>2, <3>1, <3>3 DEF Pending, Move
    <3> QED
      BY <3>2, <3>3
  <2> QED
    BY <2>1, <2>2
<1>13. ASSUME NEW d \in Client, Break(d) PROVE Pending(c)'
  BY <1>9, <1>13 DEF Break
<1>14. CASE Stop \/ CopyClients
  <2>1. producer'["watcher"].todo = producer["watcher"].todo
    BY <1>0, <1>14 DEF Stop, CopyClients, Goto, OfferTo
  <2> QED
    BY <1>3, <1>14, <2>1 DEF Stop, CopyClients
<1>15. CASE UNCHANGED vars
  BY <1>3, <1>15 DEF vars
<1> QED
  BY <1>5, <1>6, <1>7, <1>8, <1>10, <1>11, <1>12, <1>13, <1>14, <1>15 DEF Next, Watch, Serve

\* For any number of streams and any size of their queues, a stream that waits while the
\* watcher has seen everything has told its browser everything.
THEOREM NoChangeIsLost == Spec => []ChangesAreTold
<1>1. ASSUME HubInv, TellInv PROVE ChangesAreTold
  <2> SUFFICES ASSUME NEW c \in Client, stream[c] = "get", queue[c] = << >>, At("watcher", "head"),
                      ~ stop, snapshot = signature, untold[c] # {}
               PROVE  FALSE
    BY DEF ChangesAreTold
  <2>1. producer["watcher"].todo = {}
    BY <1>1 DEF HubInv, QueueInv, ProducerInv, At, Producer
  <2>2. Pending(c)
    BY <1>1 DEF TellInv
  <2> QED
    BY <2>1, <2>2 DEF Pending
<1>2. HubInv /\ TellInv /\ [Next]_vars => TellInv'
  BY TellStep
<1>3. Init => TellInv
  BY HubInit
<1> QED
  BY <1>1, <1>2, <1>3, HubInvariant, PTL DEF Spec

\* The queues keep their bound and a queue that is not subscribed stays empty, whatever
\* threads put into it and take from it at the same time.
THEOREM EventHubTypes == Spec => []TypeOK
<1>1. HubInv => TypeOK
  BY DEF HubInv, FilesInv, StreamInv, QueueInv, ProducerState, TypeOK, Events
<1> QED
  BY <1>1, HubInvariant, PTL
====
