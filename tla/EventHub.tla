------------------------------ MODULE EventHub ------------------------------
(***************************************************************************)
(* The event stream of the dashboard (EventHub and _stream_events, web.py).*)
(* One watcher thread compares the files' signatures and puts an event in  *)
(* the queue of every client; a handler thread per client takes it out and *)
(* writes it to the browser, which then reads everything again.  The       *)
(* server's main thread puts a last event when it stops.                   *)
(*                                                                         *)
(* One project is watched: "config" is config.yaml, "project" the files    *)
(* below state/<project> that _event_snapshot looks at.                    *)
(***************************************************************************)
EXTENDS Integers, Sequences, SequencesExt, Values

CONSTANTS Client,
          QueueSize,   \* of a client's queue; 20 in the code
          MaxChange    \* bound: changes of files

ASSUME QueueAssumption == QueueSize \in Nat \ {0} /\ MaxChange \in Nat
ASSUME NoSignatureAssumption == None \notin Nat /\ None \notin Client

VARIABLES
  signature,   \* by file: how often it has changed
  text,        \* whether config.yaml loads; "malformed" is not YAML, or no mapping
  snapshot,    \* _snapshot
  scan,        \* the snapshot being taken
  producer,    \* the threads that put events: where each is
  stop,        \* _stop
  clients,     \* _clients
  queue,       \* by client: its queue
  stream,      \* by client: where its handler is
  untold       \* history, by client: what changed since it subscribed or was last written an event

hub == <<snapshot, scan, producer, stop>>
vars == <<signature, text, hub, clients, queue, stream, untold>>

File == {"config", "project"}
Producer == {"watcher", "stopper"}
Signatures == [File -> 0..MaxChange]
Snapshot == [File -> 0..MaxChange \cup {None}]

TypeOK ==
  /\ signature \in Signatures /\ text \in {"good", "refused", "malformed"}
  /\ snapshot \in Snapshot /\ scan \in Snapshot
  /\ producer \in [Producer -> [pc : {"idle", "head", "config", "names", "project", "compare",
                                      "copy", "offer", "evict", "retry", "down", "dead"},
                                todo : SUBSET Client, client : Client \cup {None}]]
  /\ stop \in BOOLEAN /\ clients \subseteq Client
  /\ \A c \in Client : /\ queue[c] \in Seq({"changed", "shutdown"})
                       /\ Len(queue[c]) <= QueueSize
                       /\ c \notin clients => queue[c] = << >>
  /\ stream \in [Client -> {"none", "accepted", "connect", "head", "get", "write", "lost"}]
  /\ untold \in [Client -> SUBSET File]

\* __init__ takes the first snapshot; start.
Init ==
  /\ signature = [f \in File |-> 0] /\ text = "good"
  /\ snapshot = signature /\ scan = signature
  /\ producer = [p \in Producer |-> [pc |-> IF p = "watcher" THEN "head" ELSE "idle",
                                     todo |-> {}, client |-> None]]
  /\ stop = FALSE
  /\ clients = {} /\ queue = [c \in Client |-> << >>]
  /\ stream = [c \in Client |-> "none"] /\ untold = [c \in Client |-> {}]

------------------------------------------------------------------------------
Streaming(c) == stream[c] \in {"connect", "head", "get", "write"}

\* A supervisor, a handler or the operator writes a file.
Change ==
  \E f \in File :
    /\ signature["config"] + signature["project"] < MaxChange
    /\ signature' = [signature EXCEPT ![f] = @ + 1]
    /\ IF f = "config" THEN text' \in {"good", "refused", "malformed"} ELSE UNCHANGED text
    /\ untold' = [c \in Client |-> IF Streaming(c) THEN untold[c] \cup {f} ELSE {}]
    /\ UNCHANGED <<hub, clients, queue, stream>>

------------------------------------------------------------------------------
(* The watcher, and what it shares with the thread that stops it. *)

At(p, pc) == producer[p].pc = pc
Goto(p, pc) == producer' = [producer EXCEPT ![p].pc = pc]
OfferTo(p, receivers) ==
  producer' = [producer EXCEPT ![p] = [pc |-> "offer", todo |-> receivers, client |-> None]]

\* Mutant: the watcher ends when nobody listens.
WatchHeadWhileNeeded ==
  /\ At("watcher", "head")
  /\ Goto("watcher", IF stop \/ clients = {} THEN "down" ELSE "config")
  /\ UNCHANGED <<signature, text, snapshot, scan, stop, clients, queue, stream, untold>>

\* The condition of the loop, and the pause.
WatchHead ==
  /\ At("watcher", "head")
  /\ Goto("watcher", IF stop THEN "down" ELSE "config")
  /\ UNCHANGED <<signature, text, snapshot, scan, stop, clients, queue, stream, untold>>

\* _event_snapshot, one file after the other.
ScanConfig ==
  /\ At("watcher", "config")
  /\ scan' = [f \in File |-> IF f = "config" THEN signature[f] ELSE None]
  /\ Goto("watcher", "names")
  /\ UNCHANGED <<signature, text, snapshot, stop, clients, queue, stream, untold>>

\* A configuration that is refused names no projects; an error of the YAML parser, or of
\* a document of another shape, is not caught and ends the thread.
LoadNames ==
  /\ At("watcher", "names")
  /\ Goto("watcher", CASE text = "good"    -> "project"
                       [] text = "refused" -> "compare"
                       [] OTHER            -> "dead")
  /\ UNCHANGED <<signature, text, snapshot, scan, stop, clients, queue, stream, untold>>

ScanProject ==
  /\ At("watcher", "project")
  /\ scan' = [scan EXCEPT !["project"] = signature["project"]]
  /\ Goto("watcher", "compare")
  /\ UNCHANGED <<signature, text, snapshot, stop, clients, queue, stream, untold>>

\* Mutant: the files are looked at again for the snapshot that is kept.
CompareAndRescan ==
  /\ At("watcher", "compare")
  /\ snapshot' = signature
  /\ IF scan = snapshot THEN Goto("watcher", "head") ELSE OfferTo("watcher", clients)
  /\ UNCHANGED <<signature, text, scan, stop, clients, queue, stream, untold>>

Compare ==
  /\ At("watcher", "compare")
  /\ snapshot' = scan
  /\ IF scan = snapshot THEN Goto("watcher", "head") ELSE OfferTo("watcher", clients)
  /\ UNCHANGED <<signature, text, scan, stop, clients, queue, stream, untold>>

\* serve_forever ends; stop()
Stop ==
  /\ At("stopper", "idle")
  /\ stop' = TRUE
  /\ Goto("stopper", "copy")
  /\ UNCHANGED <<signature, text, snapshot, scan, clients, queue, stream, untold>>

CopyClients ==
  /\ At("stopper", "copy")
  /\ OfferTo("stopper", clients)
  /\ UNCHANGED <<signature, text, snapshot, scan, stop, clients, queue, stream, untold>>

Event(p) == IF p = "watcher" THEN "changed" ELSE "shutdown"

\* Mutant: the queue has no bound.
AlwaysRoom(c) == TRUE

HasRoom(c) == Len(queue[c]) < QueueSize
Put(p, c) == queue' = [queue EXCEPT ![c] = Append(@, Event(p))]
Drop(p, c) == OfferTo(p, producer[p].todo \ {c})

\* _offer: put_nowait, ...
Offer(p) ==
  /\ At(p, "offer")
  /\ IF producer[p].todo = {}
     THEN Goto(p, IF p = "watcher" THEN "head" ELSE "down") /\ UNCHANGED queue
     ELSE \E c \in producer[p].todo :
            IF HasRoom(c)
            THEN Put(p, c) /\ Drop(p, c)
            ELSE /\ producer' = [producer EXCEPT ![p].pc = "evict", ![p].client = c]
                 /\ UNCHANGED queue
  /\ UNCHANGED <<signature, text, snapshot, scan, stop, clients, stream, untold>>

\* ... when it is full, get_nowait, unless the client has emptied it, ...
Evict(p) ==
  /\ At(p, "evict")
  /\ queue' = [queue EXCEPT ![producer[p].client] = IF @ = << >> THEN @ ELSE Tail(@)]
  /\ Goto(p, "retry")
  /\ UNCHANGED <<signature, text, snapshot, scan, stop, clients, stream, untold>>

\* ... and put_nowait, unless another thread has filled it.
Retry(p) ==
  /\ At(p, "retry")
  /\ LET c == producer[p].client IN
     /\ IF HasRoom(c) THEN Put(p, c) ELSE UNCHANGED queue
     /\ Drop(p, c)
  /\ UNCHANGED <<signature, text, snapshot, scan, stop, clients, stream, untold>>

------------------------------------------------------------------------------
(* _stream_events: the handler thread of a client. *)

Move(c, place) == stream' = [stream EXCEPT ![c] = place]

\* A browser connects, as long as connections are accepted.
Accept(c) ==
  /\ stream[c] = "none" /\ ~ stop
  /\ Move(c, "accepted")
  /\ UNCHANGED <<signature, text, hub, clients, queue, untold>>

Subscribe(c) ==
  /\ stream[c] = "accepted"
  /\ clients' = clients \cup {c}
  /\ Move(c, "connect")
  /\ UNCHANGED <<signature, text, hub, queue, untold>>

\* The head of the response and the first event are written.
Connect(c) ==
  /\ stream[c] = "connect"
  /\ Move(c, "head")
  /\ UNCHANGED <<signature, text, hub, clients, queue, untold>>

\* Writing the head fails outside of the try block: nobody unsubscribes the queue.
Lose(c) ==
  /\ stream[c] = "connect"
  /\ Move(c, "lost")
  /\ untold' = [untold EXCEPT ![c] = {}]
  /\ UNCHANGED <<signature, text, hub, clients, queue>>

\* What a thread still puts into the queue of a handler that is gone reaches nobody.
Close(c) ==
  /\ clients' = clients \ {c}
  /\ queue' = [queue EXCEPT ![c] = << >>]
  /\ producer' = [p \in Producer |->
                    IF producer[p].client = c
                    THEN [pc |-> "offer", todo |-> producer[p].todo \ {c}, client |-> None]
                    ELSE [producer[p] EXCEPT !.todo = @ \ {c}]]
  /\ untold' = [untold EXCEPT ![c] = {}]
  /\ Move(c, "none")

\* Mutant: the stream does not look whether the server stops.
LoopHeadUnchecked(c) ==
  /\ stream[c] = "head"
  /\ Move(c, "get") /\ UNCHANGED <<producer, clients, queue, untold>>
  /\ UNCHANGED <<signature, text, snapshot, scan, stop>>

LoopHead(c) ==
  /\ stream[c] = "head"
  /\ IF stop THEN Close(c) ELSE Move(c, "get") /\ UNCHANGED <<producer, clients, queue, untold>>
  /\ UNCHANGED <<signature, text, snapshot, scan, stop>>

Take(c) ==
  /\ stream[c] = "get" /\ queue[c] # << >>
  /\ IF Head(queue[c]) = "shutdown"
     THEN Close(c)
     ELSE /\ queue' = [queue EXCEPT ![c] = Tail(@)]
          /\ Move(c, "write")
          /\ UNCHANGED <<producer, clients, untold>>
  /\ UNCHANGED <<signature, text, snapshot, scan, stop>>

WriteEvent(c) ==
  /\ stream[c] = "write"
  /\ untold' = [untold EXCEPT ![c] = {}]
  /\ Move(c, "head")
  /\ UNCHANGED <<signature, text, hub, clients, queue>>

\* Nothing comes for 15 seconds.
KeepAlive(c) ==
  /\ stream[c] = "get" /\ queue[c] = << >>
  /\ Move(c, "head")
  /\ UNCHANGED <<signature, text, hub, clients, queue, untold>>

\* The browser is gone when something is written to it.
Break(c) ==
  /\ stream[c] \in {"connect", "write"} \/ (stream[c] = "get" /\ queue[c] = << >>)
  /\ Close(c)
  /\ UNCHANGED <<signature, text, snapshot, scan, stop>>

------------------------------------------------------------------------------
Watch == WatchHead \/ ScanConfig \/ LoadNames \/ ScanProject \/ Compare
OfferSteps(p) == Offer(p) \/ Evict(p) \/ Retry(p)
Serve(c) == Subscribe(c) \/ Connect(c) \/ LoopHead(c) \/ Take(c) \/ WriteEvent(c) \/ KeepAlive(c)

Next ==
  \/ Change \/ Watch \/ Stop \/ CopyClients
  \/ \E p \in Producer : OfferSteps(p)
  \/ \E c \in Client : Accept(c) \/ Serve(c) \/ Lose(c) \/ Break(c)

\* Threads are scheduled, and what is written is taken by the browser or fails.
Fairness ==
  /\ WF_vars(Watch) /\ WF_vars(CopyClients)
  /\ \A p \in Producer : WF_vars(OfferSteps(p))
  /\ \A c \in Client : WF_vars(Serve(c))

Spec == Init /\ [][Next]_vars /\ Fairness

------------------------------------------------------------------------------
\* A stream that waits with nothing in its queue, while the watcher rests and has seen
\* every file as it is, has written an event since the last change, also when its queue
\* overflowed or other queues were left behind (_watch, _offer, _stream_events).
ChangesAreTold ==
  \A c \in Client :
    stream[c] = "get" /\ queue[c] = << >> /\ At("watcher", "head") /\ ~ stop
      /\ snapshot = signature
      => untold[c] = {}

\* Every change that happens while a stream is open is told to its browser, unless the
\* stream or the server ends, the configuration does not load, or the watcher is dead.
EveryChangeIsTold ==
  \A c \in Client :
    untold[c] # {} ~> untold[c] = {} \/ stop \/ text # "good" \/ At("watcher", "dead")

\* Once the server stops, its threads end, also a stream whose last event was evicted or
\* found no room (stop, _offer, the condition of the loop in _stream_events).
StreamsEnd ==
  stop ~> /\ \A c \in Client : stream[c] \in {"none", "lost"}
          /\ At("watcher", "down") \/ At("watcher", "dead")
          /\ At("stopper", "down")

\* "event-driven supervisor state updates over Server-Sent Events" (README.md): while the
\* configuration loads, changes are told.
UpdatesComeByEvent ==
  \A c \in Client : "project" \in untold[c] ~> untold[c] = {} \/ stop \/ text # "good"
====
