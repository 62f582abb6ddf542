------------------------------ MODULE ServerLife ------------------------------
(***************************************************************************)
(* One API process from start to end: main opens what the server needs,    *)
(* serves, and on a signal drains the HTTP requests and closes everything, *)
(* while requests record their failures in the error table and file, and   *)
(* the WebSocket connections, which http.Server.Shutdown knows nothing of, *)
(* register at the hub, are broadcast to, and clean up after themselves.   *)
(* What a request or an event does to the data is left to other modules,   *)
(* the announcements and heartbeats of presence to Presence.               *)
(***************************************************************************)
EXTENDS Naturals, FiniteSets

CONSTANTS
  Requests,  \* HTTP requests
  Conns,     \* WebSocket connections
  QueueMax,  \* the capacity of a connection's queue
  MaxErrors, \* bound on the requests and connections that have an error to record
  MaxFaults  \* bound on failures of sinks and of Redis, and on panics in connections

ASSUME LifeAssumption ==
  Requests \cap Conns = {} /\ QueueMax \in Nat \ {0} /\ MaxErrors \in Nat /\ MaxFaults \in Nat

Tasks == Requests \cup Conns
Resources == {"database", "redis", "errors", "bus"}

VARIABLES
  main,       \* what main does next
  open,       \* the resources that are open
  hubDone,    \* the hub's context is cancelled
  phase,      \* how far each request and each connection has come
  registry,   \* hub.clients
  cancelled,  \* the connections whose own context is cancelled
  writers,    \* the connections whose writing loop runs
  queue,      \* how full each connection's queue is
  sending,    \* the connections the broadcast under way has still to reach
  entries,    \* the connections with an entry in the presence set
  failed,     \* those that answered with an error
  table, file,  \* those whose error is in the table "errors", and in the log file
  mishaps,    \* history: what failed, and for whom
  faults

process == <<main, open, hubDone>>
hub == <<registry, cancelled, writers, queue, sending, entries>>
audit == <<failed, table, file>>
vars == <<process, phase, hub, audit, mishaps, faults>>

Starting == {"openDatabase", "openRedis", "openErrors", "openStorage", "startBus"}
Closing == {"closeHub", "closeClients", "closeBus", "awaitBus", "closeDatabase", "closeRedis", "closeErrors"}
\* A start that failed, a listener that broke, a shutdown that timed out, and main's return.
Over == {"failed", "broken", "cut", "stopped"}

Phase == {"idle", "working", "accepted", "known", "serving", "table", "file", "left", "forgotten", "draining", "ended"}

TypeOK ==
  /\ main \in Starting \cup {"serving", "shutdown"} \cup Closing \cup Over
  /\ open \subseteq Resources /\ hubDone \in BOOLEAN
  /\ phase \in [Tasks -> Phase]
  /\ registry \subseteq Conns /\ cancelled \subseteq Conns /\ writers \subseteq Conns
  /\ queue \in [Conns -> 0 .. QueueMax]
  /\ sending \subseteq registry /\ entries \subseteq Conns
  /\ table \cup file \subseteq failed /\ failed \subseteq Tasks
  /\ mishaps \subseteq {"table", "file", "redis", "panic", "refused"} \X Tasks
  /\ faults \in 0 .. MaxFaults

Init ==
  /\ main = "openDatabase" /\ open = {} /\ hubDone = FALSE
  /\ phase = [x \in Tasks |-> "idle"]
  /\ registry = {} /\ cancelled = {} /\ writers = {} /\ sending = {} /\ entries = {}
  /\ queue = [c \in Conns |-> 0]
  /\ failed = {} /\ table = {} /\ file = {}
  /\ mishaps = {} /\ faults = 0

Fault(kind, x) == faults < MaxFaults /\ faults' = faults + 1 /\ mishaps' = mishaps \cup {<<kind, x>>}
NoFault == UNCHANGED <<mishaps, faults>>
Fail(x) == x \notin failed /\ Cardinality(failed) < MaxErrors /\ failed' = failed \cup {x}

-----------------------------------------------------------------------------
(* main *)

Then(from, to) == main = from /\ main' = to

\* Mutant of Undone: what was opened last stays open.
UndoneButLast ==
  [openDatabase |-> {}, openRedis |-> {}, openErrors |-> {"database"},
   openStorage |-> {"redis", "database"}, startBus |-> {"errors", "redis", "database"}]

\* What Connect closes when a step fails.
Undone ==
  [openDatabase |-> {}, openRedis |-> {"database"}, openErrors |-> {"redis", "database"},
   openStorage |-> {"errors", "redis", "database"}, startBus |-> {"errors", "redis", "database"}]

\* A step of Connect; main exits when it fails.
Open(step, opened, next) ==
  /\ \/ Then(step, next) /\ open' = open \cup opened
     \/ Then(step, "failed") /\ open' = open \ Undone[step]
  /\ UNCHANGED <<hubDone, phase, hub, audit, mishaps, faults>>

OpenDatabase == Open("openDatabase", {"database"}, "openRedis")
OpenRedis == Open("openRedis", {"redis"}, "openErrors")
OpenErrors == Open("openErrors", {"errors"}, "openStorage")
OpenStorage == Open("openStorage", {}, "startBus")
StartBus == Open("startBus", {"bus"}, "serving")

Main(from, to) == Then(from, to) /\ UNCHANGED <<phase, audit, mishaps, faults>>

ListenFails == Main("serving", "broken") /\ UNCHANGED <<open, hubDone, hub>>

\* The signal: Shutdown closes the listener and waits.
Signal == Main("serving", "shutdown") /\ UNCHANGED <<open, hubDone, hub>>

\* A connection counts until it is taken over from the HTTP server.
InProgress(x) == phase[x] = "working" \/ (x \in Requests /\ phase[x] \in {"table", "file"})

\* Mutant of Drained: Shutdown is called and not waited for.
DrainedAtOnce == Main("shutdown", "closeHub") /\ UNCHANGED <<open, hubDone, hub>>

Drained ==
  /\ \A x \in Tasks : ~InProgress(x)
  /\ Main("shutdown", "closeHub") /\ UNCHANGED <<open, hubDone, hub>>

\* os.Exit skips what was deferred.
TimesOut == Main("shutdown", "cut") /\ UNCHANGED <<open, hubDone, hub>>

\* Hub.Close: the hub's context, and every connection's with it, ...
CloseHub ==
  /\ Main("closeHub", "closeClients")
  /\ hubDone' = TRUE
  /\ UNCHANGED <<open, hub>>

\* ... then each client registered by now.
CloseClients ==
  /\ Main("closeClients", "closeBus")
  /\ cancelled' = cancelled \cup registry
  /\ UNCHANGED <<open, hubDone, registry, writers, queue, sending, entries>>

Close(resource, from, to) ==
  /\ Main(from, to)
  /\ open' = open \ {resource}
  /\ UNCHANGED <<hubDone, hub>>

\* The subscription is closed; then the subscriber, which may be in the middle of a
\* broadcast, is waited for.
CloseBus == Close("bus", "closeBus", "awaitBus")
AwaitBus == sending = {} /\ Main("awaitBus", "closeDatabase") /\ UNCHANGED <<open, hubDone, hub>>
CloseDatabase == Close("database", "closeDatabase", "closeRedis")
CloseRedis == Close("redis", "closeRedis", "closeErrors")
CloseErrors == Close("errors", "closeErrors", "stopped")

Shutdown ==
  \/ Drained \/ TimesOut
  \/ CloseHub \/ CloseClients \/ CloseBus \/ AwaitBus \/ CloseDatabase \/ CloseRedis \/ CloseErrors

-----------------------------------------------------------------------------
(* What requests and connections have in common *)

Alive == main \notin Over
GoTo(x, to) == phase' = [phase EXCEPT ![x] = to]
At(x, from, to) == Alive /\ phase[x] = from /\ GoTo(x, to)

\* ErrorAudit gives it an id; the router finds its handler.
Arrive(x) ==
  /\ main = "serving" /\ At(x, "idle", "working")
  /\ UNCHANGED <<process, hub, audit, mishaps, faults>>

\* Record's first sink, under a context of its own: it needs the database and a moment.
InsertError(x) ==
  /\ At(x, "table", "file")
  /\ \/ "database" \in open /\ table' = table \cup {x} /\ NoFault
     \/ "database" \notin open /\ UNCHANGED <<table, mishaps, faults>>
     \/ Fault("table", x) /\ UNCHANGED table
  /\ UNCHANGED <<process, hub, failed, file>>

\* The second sink, whatever the first came to.
AppendLine(x) ==
  /\ At(x, "file", IF x \in Conns THEN "serving" ELSE "ended")
  /\ \/ "errors" \in open /\ file' = file \cup {x} /\ NoFault
     \/ "errors" \notin open /\ UNCHANGED <<file, mishaps, faults>>
     \/ Fault("file", x) /\ UNCHANGED file
  /\ UNCHANGED <<process, hub, failed, table>>

-----------------------------------------------------------------------------
(* An HTTP request *)

Answer(r) ==
  /\ At(r, "working", "ended")
  /\ UNCHANGED <<process, hub, audit, mishaps, faults>>

\* The handlers, the authentication, the readiness checks and the missing route end so.
RespondError(r) ==
  /\ At(r, "working", "table")
  /\ Fail(r)
  /\ UNCHANGED <<process, hub, table, file, mishaps, faults>>

\* Mutant of Panic: the recovery is outside the audit.
PanicUnaudited(r) ==
  /\ At(r, "working", "ended")
  /\ Fail(r) \/ UNCHANGED failed
  /\ UNCHANGED <<process, hub, table, file, mishaps, faults>>

\* A handler panics: an error is answered unless an answer had begun.
Panic(r) ==
  /\ Alive /\ phase[r] = "working"
  /\ \/ GoTo(r, "table") /\ Fail(r)
     \/ GoTo(r, "ended") /\ UNCHANGED failed
  /\ UNCHANGED <<process, hub, table, file, mishaps, faults>>

-----------------------------------------------------------------------------
(* A WebSocket connection *)

\* Its context is done: its own or the hub's.
Told(c) == c \in cancelled \/ hubDone

\* A handshake that is refused is answered on the raw writer, which the audit does not see.
Refuse(c) ==
  /\ At(c, "working", "ended") /\ Fail(c)
  /\ mishaps' = mishaps \cup {<<"refused", c>>}
  /\ UNCHANGED <<process, hub, table, file, faults>>

\* The handshake: from here on the HTTP server does not know it.
Accept(c) ==
  /\ At(c, "working", "accepted")
  /\ UNCHANGED <<process, hub, audit, mishaps, faults>>

\* Registering and unregistering wait for the broadcast under way to release the hub.
Register(c) ==
  /\ At(c, "accepted", "known") /\ sending = {}
  /\ registry' = registry \cup {c}
  /\ UNCHANGED <<process, cancelled, writers, queue, sending, entries, audit, mishaps, faults>>

\* PresenceConnected and OnlinePeers, whose failures are only logged; then the loops start.
\* A cancelled call may have reached Redis or not.
StartLoops(c) ==
  /\ At(c, "known", "serving")
  /\ writers' = writers \cup {c}
  /\ \/ "redis" \in open /\ entries' = entries \cup {c} /\ NoFault
     \/ Told(c) /\ UNCHANGED <<entries, mishaps, faults>>
     \/ Fault("redis", c) /\ UNCHANGED entries
  /\ UNCHANGED <<process, registry, cancelled, queue, sending, audit>>

Running(c) == phase[c] \in {"accepted", "known", "serving", "table", "file"}

\* Mutant of Enqueue: it waits for room.
EnqueueWaiting(c) ==
  /\ queue[c] < QueueMax
  /\ queue' = [queue EXCEPT ![c] = @ + 1] /\ UNCHANGED cancelled

\* A full queue costs the connection its context.
Enqueue(c) ==
  IF queue[c] < QueueMax
  THEN queue' = [queue EXCEPT ![c] = @ + 1] /\ UNCHANGED cancelled
  ELSE cancelled' = cancelled \cup {c} /\ UNCHANGED queue

\* The reading loop hands an event to the service; what goes wrong is told the client and
\* recorded (once per connection here).
FailEvent(c) ==
  /\ At(c, "serving", "table") /\ Fail(c)
  /\ Enqueue(c)
  /\ UNCHANGED <<process, registry, writers, sending, entries, table, file, mishaps, faults>>

\* The peer hangs up, or the context is done.
StopReading(c) ==
  /\ At(c, "serving", "left")
  /\ cancelled' = cancelled \cup {c}
  /\ UNCHANGED <<process, registry, writers, queue, sending, entries, audit, mishaps, faults>>

Unregister(c) ==
  /\ At(c, "left", "forgotten") /\ sending = {}
  /\ registry' = registry \ {c}
  /\ UNCHANGED <<process, cancelled, writers, queue, sending, entries, audit, mishaps, faults>>

\* Mutant of Disconnect: the removal has the connection's own context, which is done.
DisconnectCancelled(c) ==
  /\ At(c, "forgotten", "draining")
  /\ \/ UNCHANGED <<entries, mishaps, faults>>
     \/ Fault("redis", c) /\ UNCHANGED entries
  /\ UNCHANGED <<process, registry, cancelled, writers, queue, sending, audit>>

\* PresenceDisconnected under a context of its own; a failure is only logged.
Disconnect(c) ==
  /\ At(c, "forgotten", "draining")
  /\ \/ "redis" \in open /\ entries' = entries \ {c} /\ NoFault
     \/ "redis" \notin open /\ UNCHANGED <<entries, mishaps, faults>>
     \/ Fault("redis", c) /\ UNCHANGED entries
  /\ UNCHANGED <<process, registry, cancelled, writers, queue, sending, audit>>

\* The writing loop has ended and the socket is closed.
Finish(c) ==
  /\ c \notin writers /\ At(c, "draining", "ended")
  /\ UNCHANGED <<process, hub, audit, mishaps, faults>>

\* Connect recovers and closes the socket; nothing of what follows the reading loop is done.
ConnPanics(c) ==
  /\ At(c, "serving", "ended") /\ Fault("panic", c)
  /\ UNCHANGED <<process, hub, audit>>

\* The writing loop: an event is written, or a write or ping fails, or the context is done.
WriteEvent(c) ==
  /\ Alive /\ c \in writers /\ ~Told(c) /\ queue[c] > 0
  /\ queue' = [queue EXCEPT ![c] = @ - 1]
  /\ UNCHANGED <<process, phase, registry, cancelled, writers, sending, entries, audit, mishaps, faults>>

StopWriting(c) ==
  /\ Alive /\ c \in writers
  /\ writers' = writers \ {c} /\ cancelled' = cancelled \cup {c}
  /\ UNCHANGED <<process, phase, registry, queue, sending, entries, audit, mishaps, faults>>

\* The subscriber broadcasts an event, holding the hub for reading.
Broadcast ==
  /\ Alive /\ "bus" \in open /\ sending = {}
  /\ sending' = registry
  /\ UNCHANGED <<process, phase, registry, cancelled, writers, queue, entries, audit, mishaps, faults>>

Deliver(c) ==
  /\ Alive /\ c \in sending
  /\ sending' = sending \ {c}
  /\ Enqueue(c)
  /\ UNCHANGED <<process, phase, registry, writers, entries, audit, mishaps, faults>>

\* What the handler does next by itself.
Proceed(c) ==
  Register(c) \/ StartLoops(c) \/ InsertError(c) \/ AppendLine(c) \/ Unregister(c) \/ Disconnect(c) \/ Finish(c)

Connection(c) ==
  Refuse(c) \/ Accept(c) \/ Proceed(c) \/ FailEvent(c) \/ StopReading(c) \/ ConnPanics(c) \/ WriteEvent(c) \/ StopWriting(c) \/ Deliver(c)

Request(r) == Answer(r) \/ RespondError(r) \/ Panic(r) \/ InsertError(r) \/ AppendLine(r)

Start == OpenDatabase \/ OpenRedis \/ OpenErrors \/ OpenStorage \/ StartBus

Next ==
  \/ Start \/ ListenFails \/ Signal \/ Shutdown
  \/ \E x \in Tasks : Arrive(x)
  \/ \E r \in Requests : Request(r)
  \/ \E c \in Conns : Connection(c)
  \/ Broadcast

Spec == Init /\ [][Next]_vars

\* main goes on; a handler's calls have timeouts and its loops hear of a done context; the
\* subscriber does not stop in the middle of a broadcast, and a waiting writer of Go's
\* RWMutex is not overtaken for ever by readers.
FairSpec ==
  /\ Spec /\ WF_vars(Start) /\ WF_vars(Shutdown)
  /\ \A c \in Conns :
       /\ WF_vars(Proceed(c)) /\ WF_vars(Deliver(c))
       /\ SF_vars(Register(c)) /\ SF_vars(Unregister(c))
       /\ WF_vars(Told(c) /\ StopReading(c)) /\ WF_vars(Told(c) /\ StopWriting(c))

-----------------------------------------------------------------------------
(* Properties *)

\* While a request is answered or its failure recorded, and while a connection has not
\* been told to end, nothing they use is closed under them, whatever main is doing.
NothingPulledAway ==
  Alive =>
    /\ \A x \in Tasks : InProgress(x) => open = Resources
    /\ \A c \in Conns : Running(c) /\ ~Told(c) => open = Resources

\* An error that was answered is in the table and in the file once its recording is over:
\* a sink that fails does not cost the other one's record, and shutting down costs no HTTP
\* request its records, only connections that had been told to end. A refused handshake has
\* none.
FailuresKept ==
  \A x \in failed : <<"refused", x>> \notin mishaps =>
    /\ phase[x] # "table" => x \in table \/ <<"table", x>> \in mishaps \/ (x \in Conns /\ "database" \notin open)
    /\ phase[x] \notin {"table", "file"} => x \in file \/ <<"file", x>> \in mishaps \/ (x \in Conns /\ "errors" \notin open)

\* A connection that has ended is forgotten by the hub, writes no more and has no presence
\* entry, unless its handler panicked, the removal failed, or Redis was closed before.
LeavesNothing ==
  \A c \in Conns : phase[c] = "ended" /\ <<"panic", c>> \notin mishaps =>
    /\ c \notin registry \cup writers
    /\ c \in entries => <<"redis", c>> \in mishaps \/ "redis" \notin open

\* A start that fails and a shutdown that comes to its end leave nothing open.
ClosedAtExit == main \in {"failed", "stopped"} => open = {}

\* After the signal the process ends, and a connection whose context is done ends before it
\* or with it: a full queue stops neither the subscriber nor the hub.
WindsUp ==
  /\ main = "shutdown" ~> main \in Over
  /\ \A c \in Conns : c \in cancelled ~> phase[c] = "ended" \/ main \in Over

-----------------------------------------------------------------------------
(* The inductive invariant behind the first four *)

\* What is open at each point of main.
OpenNow ==
  /\ main \in {"openDatabase", "failed", "stopped"} => open = {}
  /\ main = "openRedis" => open = {"database"}
  /\ main = "openErrors" => open = {"redis", "database"}
  /\ main \in {"openStorage", "startBus"} => open = {"errors", "redis", "database"}
  /\ main \in {"serving", "shutdown", "closeHub", "closeClients", "closeBus"} => open = Resources
  /\ main \in {"awaitBus", "closeDatabase"} => open = {"errors", "redis", "database"}
  /\ main = "closeRedis" => open = {"errors", "redis"}
  /\ main = "closeErrors" => open = {"errors"}

\* Nothing arrives before the server serves, and nothing is in progress at the HTTP server
\* when main closes; the connections have been told before anything they use is closed.
Ordered ==
  /\ main \in Starting => failed = {} /\ \A x \in Tasks : phase[x] = "idle"
  /\ main \in Closing => \A x \in Tasks : ~InProgress(x)
  /\ main \in Closing \ {"closeHub"} => hubDone

\* An error is answered once, on the way to its records.
FailsOnce ==
  \A x \in Tasks :
    /\ phase[x] \in {"idle", "working", "accepted", "known"} => x \notin failed
    /\ phase[x] \in {"table", "file"} => x \in failed

\* What a connection has when, and what it has given back.
HeldWhile ==
  \A c \in Conns :
    /\ phase[c] \in {"idle", "working", "accepted", "forgotten", "draining"} => c \notin registry
    /\ phase[c] \in {"idle", "working", "accepted", "known"} => c \notin writers \cup entries
    /\ phase[c] = "draining" => (c \in entries => <<"redis", c>> \in mishaps \/ "redis" \notin open)

LifeInv ==
  TypeOK /\ OpenNow /\ Ordered /\ FailsOnce /\ HeldWhile /\ FailuresKept /\ LeavesNothing
=============================================================================
