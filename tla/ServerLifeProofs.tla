-------------------------- MODULE ServerLifeProofs --------------------------
(***************************************************************************)
(* For any number of requests and connections and any queue: what a        *)
(* process closes, and when, what it keeps of the errors it answered, and  *)
(* what an ended connection leaves behind.                                 *)
(***************************************************************************)
EXTENDS ServerLife, TLAPS

MainStep == Start \/ ListenFails \/ Signal \/ Shutdown

Audited(x) == Arrive(x) \/ InsertError(x) \/ AppendLine(x)
Answered(r) == Answer(r) \/ RespondError(r) \/ Panic(r)
Coming(c) == Refuse(c) \/ Accept(c) \/ Register(c) \/ StartLoops(c)
Served(c) == FailEvent(c) \/ StopReading(c) \/ ConnPanics(c) \/ WriteEvent(c) \/ StopWriting(c) \/ Deliver(c)
Leaving(c) == Unregister(c) \/ Disconnect(c) \/ Finish(c)
TaskStep ==
  \/ \E x \in Tasks : Audited(x)
  \/ \E r \in Requests : Answered(r)
  \/ \E c \in Conns : Coming(c) \/ Served(c) \/ Leaving(c)
  \/ Broadcast

\* Every step is main's, or one of a request or a connection.
LEMMA Steps == Next => MainStep \/ TaskStep
  BY DEF Next, MainStep, TaskStep, Request, Connection, Proceed, Audited, Answered, Coming, Served,
     Leaving, Tasks

-----------------------------------------------------------------------------
(* What no step does *)

\* Requests and connections leave main, and what it has opened, alone.
LEMMA TasksLeaveMain == TaskStep => UNCHANGED process
  BY DEF TaskStep, Audited, Arrive, InsertError, AppendLine, Answered, Answer, RespondError, Panic,
     Coming, Refuse, Accept, Register, StartLoops, Served, FailEvent, StopReading, ConnPanics,
     WriteEvent, StopWriting, Deliver, Leaving, Unregister, Disconnect, Finish, Broadcast, process

\* main leaves requests, connections and their records alone, but for the contexts it cancels.
LEMMA MainLeavesTasks ==
  MainStep => UNCHANGED <<phase, registry, writers, queue, sending, entries, audit, mishaps, faults>>
  BY DEF MainStep, Start, OpenDatabase, OpenRedis, OpenErrors, OpenStorage, StartBus, Open,
     ListenFails, Signal, Shutdown, Main, Drained, TimesOut, CloseHub, CloseClients, CloseBus,
     AwaitBus, CloseDatabase, CloseRedis, CloseErrors, Close, hub

-----------------------------------------------------------------------------
(* main *)

\* main's steps keep the types.
LEMMA MainTypes == TypeOK /\ MainStep => TypeOK'
  <1> SUFFICES ASSUME TypeOK, MainStep PROVE TypeOK'
    OBVIOUS
  <1>1. /\ main' \in Starting \cup {"serving", "shutdown"} \cup Closing \cup Over
        /\ open' \subseteq Resources /\ hubDone' \in BOOLEAN /\ cancelled' \subseteq Conns
    BY DEF TypeOK, MainStep, Start, OpenDatabase, OpenRedis, OpenErrors, OpenStorage, StartBus, Open,
       ListenFails, Signal, Shutdown, Main, Then, Drained, TimesOut, CloseHub, CloseClients, CloseBus,
       AwaitBus, CloseDatabase, CloseRedis, CloseErrors, Close, hub, Starting, Closing, Over, Resources
  <1>2. QED
    BY <1>1, MainLeavesTasks DEF TypeOK, audit

\* What is open follows main's position.
LEMMA MainOpens == OpenNow /\ MainStep => OpenNow'
  BY DEF OpenNow, MainStep, Start, OpenDatabase, OpenRedis, OpenErrors, OpenStorage, StartBus, Open,
     Undone, ListenFails, Signal, Shutdown, Main, Then, Drained, TimesOut, CloseHub, CloseClients,
     CloseBus, AwaitBus, CloseDatabase, CloseRedis, CloseErrors, Close, Resources

\* So does what the requests and connections may still be doing.
LEMMA MainOrders == Ordered /\ MainStep => Ordered'
  BY DEF Ordered, MainStep, Start, OpenDatabase, OpenRedis, OpenErrors, OpenStorage, StartBus, Open,
     ListenFails, Signal, Shutdown, Main, Then, Drained, TimesOut, CloseHub, CloseClients, CloseBus,
     AwaitBus, CloseDatabase, CloseRedis, CloseErrors, Close, Starting, Closing, Over, InProgress, audit

\* Nothing is opened any more once the server serves.
LEMMA MainCloses == MainStep => main \in Starting \/ open' \subseteq open
  BY DEF MainStep, Start, OpenDatabase, OpenRedis, OpenErrors, OpenStorage, StartBus, Open,
     ListenFails, Signal, Shutdown, Main, Then, Drained, TimesOut, CloseHub, CloseClients, CloseBus,
     AwaitBus, CloseDatabase, CloseRedis, CloseErrors, Close, Starting

\* main's steps keep the inductive invariant.
LEMMA MainKeeps == LifeInv /\ MainStep => LifeInv'
  <1> SUFFICES ASSUME LifeInv, MainStep PROVE LifeInv'
    OBVIOUS
  <1>1. /\ UNCHANGED <<phase, registry, writers, entries, failed, table, file, mishaps>>
        /\ main \in Starting \/ open' \subseteq open
    BY MainLeavesTasks, MainCloses DEF audit
  <1>2. TypeOK' /\ OpenNow' /\ Ordered'
    BY MainTypes, MainOpens, MainOrders DEF LifeInv
  <1>3. FailsOnce'
    BY <1>1 DEF LifeInv, FailsOnce
  <1>4. CASE main \in Starting
    <2>1. failed = {} /\ \A c \in Conns : phase[c] = "idle"
      BY <1>4 DEF LifeInv, Ordered, Tasks
    <2>2. HeldWhile'
      BY <1>1, <2>1 DEF LifeInv, HeldWhile
    <2>3. FailuresKept' /\ LeavesNothing'
      BY <1>1, <2>1 DEF FailuresKept, LeavesNothing
    <2>4. QED
      BY <1>2, <1>3, <2>2, <2>3 DEF LifeInv
  <1>5. CASE open' \subseteq open
    <2>1. HeldWhile'
      BY <1>1, <1>5 DEF LifeInv, HeldWhile
    <2>2. FailuresKept'
      BY <1>1, <1>5 DEF LifeInv, FailuresKept
    <2>3. LeavesNothing'
      BY <1>1, <1>5 DEF LifeInv, LeavesNothing
    <2>4. QED
      BY <1>2, <1>3, <2>1, <2>2, <2>3 DEF LifeInv
  <1>6. QED
    BY <1>1, <1>4, <1>5

-----------------------------------------------------------------------------
(* Requests and connections *)

\* What the HTTP server waits for has all it needs.
LEMMA Supplied ==
  ASSUME TypeOK, OpenNow, Ordered, Alive, NEW x \in Tasks, InProgress(x)
  PROVE  open = Resources
  <1>1. main \in {"serving", "shutdown"}
    BY DEF TypeOK, Ordered, Alive, InProgress, Starting
  <1>2. QED
    BY <1>1 DEF OpenNow

\* Their types survive: the table and the file get the errors of those that failed.
LEMMA TaskTypes ==
  ASSUME TypeOK, FailsOnce, TaskStep
  PROVE  TypeOK'
  <1> USE DEF TypeOK, FailsOnce, At, GoTo, Fail, Fault, NoFault, Tasks, Phase, process, hub, audit
  <1>1. ASSUME NEW x \in Tasks, Audited(x) PROVE TypeOK'
    BY <1>1, LifeAssumption DEF Audited, Arrive, InsertError, AppendLine
  <1>2. ASSUME NEW r \in Requests, Answered(r) PROVE TypeOK'
    BY <1>2, LifeAssumption DEF Answered, Answer, RespondError, Panic
  <1>3. ASSUME NEW c \in Conns, Coming(c) PROVE TypeOK'
    BY <1>3, LifeAssumption DEF Coming, Refuse, Accept, Register, StartLoops
  <1>4. ASSUME NEW c \in Conns, Served(c) PROVE TypeOK'
    BY <1>4, LifeAssumption DEF Served, FailEvent, StopReading, ConnPanics, WriteEvent, StopWriting, Deliver,
       Enqueue
  <1>5. ASSUME NEW c \in Conns, Leaving(c) PROVE TypeOK'
    BY <1>5, LifeAssumption DEF Leaving, Unregister, Disconnect, Finish
  <1>6. CASE Broadcast
    BY <1>6, LifeAssumption DEF Broadcast
  <1>7. QED
    BY <1>1, <1>2, <1>3, <1>4, <1>5, <1>6 DEF TaskStep

\* Nothing arrives once main closes.
LEMMA TaskOrder ==
  ASSUME TypeOK, Ordered, TaskStep
  PROVE  Ordered'
  <1> USE DEF TypeOK, Ordered, Starting, Closing, Tasks, At, GoTo, Fail, InProgress, process, audit
  <1>1. ASSUME NEW x \in Tasks, Audited(x) PROVE Ordered'
    BY <1>1 DEF Audited, Arrive, InsertError, AppendLine
  <1>2. ASSUME NEW r \in Requests, Answered(r) PROVE Ordered'
    BY <1>2 DEF Answered, Answer, RespondError, Panic
  <1>3. ASSUME NEW c \in Conns, Coming(c) PROVE Ordered'
    BY <1>3 DEF Coming, Refuse, Accept, Register, StartLoops
  <1>4. ASSUME NEW c \in Conns, Served(c) PROVE Ordered'
    BY <1>4, LifeAssumption DEF Served, FailEvent, StopReading, ConnPanics, WriteEvent, StopWriting, Deliver,
       Enqueue
  <1>5. ASSUME NEW c \in Conns, Leaving(c) PROVE Ordered'
    BY <1>5 DEF Leaving, Unregister, Disconnect, Finish
  <1>6. CASE Broadcast
    BY <1>6 DEF Broadcast
  <1>7. QED
    BY <1>1, <1>2, <1>3, <1>4, <1>5, <1>6 DEF TaskStep

\* Who fails had not failed before.
LEMMA TaskFails ==
  ASSUME TypeOK, FailsOnce, TaskStep
  PROVE  FailsOnce'
  <1> USE DEF TypeOK, FailsOnce, At, GoTo, Fail, Tasks, audit
  <1>1. ASSUME NEW x \in Tasks, Audited(x) PROVE FailsOnce'
    BY <1>1 DEF Audited, Arrive, InsertError, AppendLine
  <1>2. ASSUME NEW r \in Requests, Answered(r) PROVE FailsOnce'
    BY <1>2 DEF Answered, Answer, RespondError, Panic
  <1>3. ASSUME NEW c \in Conns, Coming(c) PROVE FailsOnce'
    BY <1>3 DEF Coming, Refuse, Accept, Register, StartLoops
  <1>4. ASSUME NEW c \in Conns, Served(c) PROVE FailsOnce'
    BY <1>4 DEF Served, FailEvent, StopReading, ConnPanics, WriteEvent, StopWriting, Deliver,
       Enqueue
  <1>5. ASSUME NEW c \in Conns, Leaving(c) PROVE FailsOnce'
    BY <1>5 DEF Leaving, Unregister, Disconnect, Finish
  <1>6. CASE Broadcast
    BY <1>6 DEF Broadcast
  <1>7. QED
    BY <1>1, <1>2, <1>3, <1>4, <1>5, <1>6 DEF TaskStep

\* What is taken is taken in its phase, and given back in it.
LEMMA TaskHolds ==
  ASSUME TypeOK, HeldWhile, TaskStep
  PROVE  HeldWhile'
  <1> USE DEF TypeOK, HeldWhile, At, GoTo, Fault, NoFault, process, hub, Tasks
  <1>1. ASSUME NEW x \in Tasks, Audited(x) PROVE HeldWhile'
    BY <1>1 DEF Audited, Arrive, InsertError, AppendLine
  <1>2. ASSUME NEW r \in Requests, Answered(r) PROVE HeldWhile'
    BY <1>2 DEF Answered, Answer, RespondError, Panic
  <1>3. ASSUME NEW c \in Conns, Coming(c) PROVE HeldWhile'
    BY <1>3 DEF Coming, Refuse, Accept, Register, StartLoops
  <1>4. ASSUME NEW c \in Conns, Served(c) PROVE HeldWhile'
    BY <1>4 DEF Served, FailEvent, StopReading, ConnPanics, WriteEvent, StopWriting, Deliver,
       Enqueue
  <1>5. ASSUME NEW c \in Conns, Leaving(c) PROVE HeldWhile'
    BY <1>5 DEF Leaving, Unregister, Disconnect, Finish
  <1>6. CASE Broadcast
    BY <1>6 DEF Broadcast
  <1>7. QED
    BY <1>1, <1>2, <1>3, <1>4, <1>5, <1>6 DEF TaskStep

\* What is left when a connection ends.
LEMMA TaskLeaves ==
  ASSUME TypeOK, HeldWhile, LeavesNothing, TaskStep
  PROVE  LeavesNothing'
  <1> USE DEF TypeOK, HeldWhile, LeavesNothing, At, GoTo, Fault, NoFault, process, hub, Tasks
  <1>1. ASSUME NEW x \in Tasks, Audited(x) PROVE LeavesNothing'
    BY <1>1 DEF Audited, Arrive, InsertError, AppendLine
  <1>2. ASSUME NEW r \in Requests, Answered(r) PROVE LeavesNothing'
    BY <1>2 DEF Answered, Answer, RespondError, Panic
  <1>3. ASSUME NEW c \in Conns, Coming(c) PROVE LeavesNothing'
    BY <1>3 DEF Coming, Refuse, Accept, Register, StartLoops
  <1>4. ASSUME NEW c \in Conns, Served(c) PROVE LeavesNothing'
    BY <1>4 DEF Served, FailEvent, StopReading, ConnPanics, WriteEvent, StopWriting, Deliver,
       Enqueue
  <1>5. ASSUME NEW c \in Conns, Leaving(c) PROVE LeavesNothing'
    BY <1>5 DEF Leaving, Unregister, Disconnect, Finish
  <1>6. CASE Broadcast
    BY <1>6 DEF Broadcast
  <1>7. QED
    BY <1>1, <1>2, <1>3, <1>4, <1>5, <1>6 DEF TaskStep

\* A request's records find both sinks open.
LEMMA TaskKeeps ==
  ASSUME TypeOK, OpenNow, Ordered, FailsOnce, FailuresKept, TaskStep
  PROVE  FailuresKept'
  <1> USE DEF TypeOK, FailsOnce, FailuresKept, At, GoTo, Fail, Fault, NoFault, Tasks, process, hub, audit
  <1>0. \A x \in Tasks : Alive /\ InProgress(x) => "database" \in open /\ "errors" \in open
    BY Supplied DEF Resources
  <1>1. ASSUME NEW x \in Tasks, Audited(x) PROVE FailuresKept'
    BY <1>0, <1>1 DEF InProgress, Audited, Arrive, InsertError, AppendLine
  <1>2. ASSUME NEW r \in Requests, Answered(r) PROVE FailuresKept'
    BY <1>2 DEF Answered, Answer, RespondError, Panic
  <1>3. ASSUME NEW c \in Conns, Coming(c) PROVE FailuresKept'
    BY <1>3 DEF Coming, Refuse, Accept, Register, StartLoops
  <1>4. ASSUME NEW c \in Conns, Served(c) PROVE FailuresKept'
    BY <1>4 DEF Served, FailEvent, StopReading, ConnPanics, WriteEvent, StopWriting, Deliver,
       Enqueue
  <1>5. ASSUME NEW c \in Conns, Leaving(c) PROVE FailuresKept'
    BY <1>5 DEF Leaving, Unregister, Disconnect, Finish
  <1>6. CASE Broadcast
    BY <1>6 DEF Broadcast
  <1>7. QED
    BY <1>1, <1>2, <1>3, <1>4, <1>5, <1>6 DEF TaskStep

-----------------------------------------------------------------------------
(* The invariant, and what it says *)

\* At the start nothing is open and nobody is there.
LEMMA InitLife == Init => LifeInv
  <1> SUFFICES ASSUME Init PROVE LifeInv
    OBVIOUS
  <1>1. TypeOK
    <2>1. 0 \in 0 .. QueueMax /\ 0 \in 0 .. MaxFaults
      BY LifeAssumption
    <2>2. phase \in [Tasks -> Phase] /\ queue \in [Conns -> 0 .. QueueMax]
      BY <2>1 DEF Init, Phase
    <2>3. QED
      BY <2>1, <2>2 DEF Init, TypeOK, Starting
  <1>2. OpenNow /\ Ordered /\ FailsOnce
    BY DEF Init, OpenNow, Ordered, FailsOnce, Starting, Closing
  <1>3. HeldWhile /\ FailuresKept /\ LeavesNothing
    BY DEF Init, HeldWhile, FailuresKept, LeavesNothing, Tasks
  <1>4. QED
    BY <1>1, <1>2, <1>3 DEF LifeInv

\* Every step keeps the inductive invariant.
LEMMA NextLife == LifeInv /\ [Next]_vars => LifeInv'
  <1> SUFFICES ASSUME LifeInv, [Next]_vars PROVE LifeInv'
    OBVIOUS
  <1>1. CASE MainStep
    BY <1>1, MainKeeps
  <1>2. CASE TaskStep
    <2>1. OpenNow'
      BY <1>2, TasksLeaveMain DEF LifeInv, OpenNow, process
    <2>2. TypeOK' /\ Ordered' /\ FailsOnce' /\ HeldWhile'
      BY <1>2, TaskTypes, TaskOrder, TaskFails, TaskHolds DEF LifeInv
    <2>3. FailuresKept' /\ LeavesNothing'
      BY <1>2, TaskKeeps, TaskLeaves DEF LifeInv
    <2>4. QED
      BY <2>1, <2>2, <2>3 DEF LifeInv
  <1>3. CASE UNCHANGED vars
    <2>1. TypeOK' /\ OpenNow' /\ Ordered' /\ FailsOnce'
      BY <1>3 DEF vars, process, hub, audit, LifeInv, TypeOK, OpenNow, Ordered, FailsOnce, InProgress
    <2>2. HeldWhile' /\ FailuresKept' /\ LeavesNothing'
      BY <1>3 DEF vars, process, hub, audit, LifeInv, HeldWhile, FailuresKept, LeavesNothing
    <2>3. QED
      BY <2>1, <2>2 DEF LifeInv
  <1>4. QED
    BY <1>1, <1>2, <1>3, Steps

\* The inductive invariant holds in every state of a process (http.go:39-77).
THEOREM LifeInvariance == Spec => []LifeInv
  BY InitLife, NextLife, PTL DEF Spec

\* Type correctness, for any number of requests and connections.
THEOREM LifeTypes == Spec => []TypeOK
  BY LifeInvariance, PTL DEF LifeInv

\* Nothing is closed under a request that is answered or recorded, nor under a connection
\* that has not been told to end (main.go:66 before http.go:67, hub.go:26 first of all).
THEOREM NothingClosedUnderWork == Spec => []NothingPulledAway
  <1>1. LifeInv => NothingPulledAway
    <2> SUFFICES ASSUME LifeInv, Alive PROVE NothingPulledAway
      BY DEF NothingPulledAway
    <2>1. \A x \in Tasks : InProgress(x) => open = Resources
      BY Supplied DEF LifeInv
    <2>2. ASSUME NEW c \in Conns, Running(c), ~Told(c) PROVE open = Resources
      <3>1. c \in Tasks /\ phase[c] # "idle"
        BY <2>2 DEF Running, Tasks
      <3>2. main \in {"serving", "shutdown", "closeHub"}
        BY <2>2, <3>1 DEF LifeInv, TypeOK, Ordered, Alive, Told
      <3>3. QED
        BY <3>2 DEF LifeInv, OpenNow
    <2>3. QED
      BY <2>1, <2>2 DEF NothingPulledAway
  <1>2. QED
    BY <1>1, LifeInvariance, PTL

\* Every error answered is in both sinks, or in the one that did not fail (recorder.go:33-52).
THEOREM FailuresRecorded == Spec => []FailuresKept
  BY LifeInvariance, PTL DEF LifeInv

\* A connection that ended gave back its place in the hub, its writing loop and its presence
\* entry (client.go:64-74).
THEOREM ConnectionsCleanUp == Spec => []LeavesNothing
  BY LifeInvariance, PTL DEF LifeInv

\* However a start fails and whatever shutdown waits for, nothing stays open (http.go:39-77).
THEOREM NothingLeftOpen == Spec => []ClosedAtExit
  <1>1. LifeInv => ClosedAtExit
    BY DEF LifeInv, OpenNow, ClosedAtExit
  <1>2. QED
    BY <1>1, LifeInvariance, PTL
=============================================================================
