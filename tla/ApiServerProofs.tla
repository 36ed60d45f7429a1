--------------------------- MODULE ApiServerProofs ---------------------------
(***************************************************************************)
(* For any number of clients, slots and processor threads: the types of    *)
(* ApiServer, that a job never outlives its streamer, and that no slot of  *)
(* the API leaks.                                                          *)
(***************************************************************************)
EXTENDS ApiServer, FiniteSetTheorems, TLAPS

\* Where a streamer is between locking its mutex and handing the blob over.
Preparing == {"read", "cycle", "cycled", "recv", "run"}

\* A streamer that prepares a blob holds its mutex and has a blob to send.
StreamersPrepared ==
  \A c \in Clients : \A w \in Preparing : At(c, w) => locked[c] /\ stream[c].left > 0

\* The accept loop only ever holds a connection it has accepted itself.
AcceptedInHand ==
  acceptor.at = "acquire" => acceptor.client \in Clients /\ session[acceptor.client] = "accepted"

\* The inductive invariant: JobsHaveTheirStreamer alone is not inductive, since
\* StreamRun needs the mutex to have been locked at StreamLock, and Spawn must
\* not restart a session that is streaming.
Safe == TypeOK /\ StreamersPrepared /\ AcceptedInHand /\ JobsHaveTheirStreamer

LEMMA InitSafe == Init => Safe
  BY ServerAssumption
  DEF Init, Safe, TypeOK, StreamersPrepared, AcceptedInHand, JobsHaveTheirStreamer, At, Idle, LiveStates

\* Clients and the accept loop.
LEMMA OutsideSafe ==
  ASSUME Safe, NEW c \in Clients, ClientStep(c) \/ Accept(c)
  PROVE  Safe'
<1> USE ServerAssumption
    DEF Safe, TypeOK, StreamersPrepared, AcceptedInHand, JobsHaveTheirStreamer, At, LiveStates, Preparing
<1>1. CASE Connect(c)
  BY <1>1 DEF Connect
<1>2. CASE LinkLost(c, "shut")
  BY <1>2 DEF LinkLost
<1>4. CASE LinkLost(c, "broken")
  BY <1>4 DEF LinkLost
<1>3. CASE Accept(c)
  BY <1>3 DEF Accept
<1> QED BY <1>1, <1>2, <1>3, <1>4 DEF ClientStep

\* The semaphore of the accept loop.
LEMMA AcceptorSafe ==
  ASSUME Safe, Spawn \/ Reacquire \/ Release
  PROVE  Safe'
<1> USE ServerAssumption
    DEF Safe, TypeOK, StreamersPrepared, AcceptedInHand, JobsHaveTheirStreamer, At, LiveStates, Preparing
<1>1. CASE Spawn
  BY <1>1 DEF Spawn
<1>2. CASE Reacquire
  BY <1>2 DEF Reacquire
<1>3. CASE Release
  BY <1>3 DEF Release
<1> QED BY <1>1, <1>2, <1>3

\* The end of a session that has no job.
LEMMA EndSafe ==
  ASSUME Safe, NEW c \in Clients, session[c] # "accepted", job[c] = "none", End(c), commands' \in [Clients -> Nat],
         UNCHANGED <<acceptor, link, job, procSlots, releasing>>
  PROVE  Safe'
<1> USE DEF Safe, TypeOK, StreamersPrepared, AcceptedInHand, JobsHaveTheirStreamer, At, LiveStates, Preparing, End, Idle
<1>1. TypeOK'
  <2>1. locked' \in [Clients -> BOOLEAN]
    OBVIOUS
  <2>2. slots' \in Nat
    OBVIOUS
  <2>3. session' \in [Clients -> {"none", "queued", "accepted", "ended"} \cup LiveStates]
    OBVIOUS
  <2>4. stream' \in [Clients -> [at: {"idle", "lock", "read", "cycle", "cycled", "recv", "run", "wait"},
                                 kind: {"none", "encode", "decode"}, left: Nat]]
    OBVIOUS
  <2> QED BY <2>1, <2>2, <2>3, <2>4
<1>2. StreamersPrepared'
  OBVIOUS
<1>3. AcceptedInHand'
  OBVIOUS
<1>4. JobsHaveTheirStreamer'
  <2> SUFFICES ASSUME NEW d \in Clients, job'[d] # "none"
               PROVE  At(d, "wait")' /\ locked'[d]
    OBVIOUS
  <2>1. d # c /\ At(d, "wait") /\ locked[d]
    OBVIOUS
  <2>2. session'[d] = session[d] /\ stream'[d] = stream[d]
    BY <2>1
  <2>3. locked'[d] = locked[d]
    BY <2>1
  <2> QED BY <2>1, <2>2, <2>3
<1> QED BY <1>1, <1>2, <1>3, <1>4

\* The session outside a stream.
LEMMA SessionSafe ==
  ASSUME Safe, NEW c \in Clients,
         handshake(c) \/ ReadCommand(c) \/ CommandFails(c) \/ query(c) \/ Reply(c)
  PROVE  Safe'
<1> USE ServerAssumption
    DEF Safe, TypeOK, StreamersPrepared, AcceptedInHand, JobsHaveTheirStreamer, At, LiveStates,
        Preparing, Goto, End, Idle
<1>1. CASE handshake(c)
  <2>1. CASE End(c)
    BY <1>1, <2>1, EndSafe DEF handshake
  <2>2. CASE Goto(c, "command") /\ UNCHANGED <<stream, locked>>
    BY <1>1, <2>2 DEF handshake
  <2> QED BY <1>1, <2>1, <2>2 DEF handshake
<1>2. CASE ReadCommand(c)
  <2>1. commands' \in [Clients -> Nat]
    BY <1>2 DEF ReadCommand
  <2>2. CASE End(c)
    BY <1>2, <2>1, <2>2, EndSafe DEF ReadCommand
  <2>3. CASE Goto(c, "query") /\ UNCHANGED <<stream, locked>>
    BY <1>2, <2>1, <2>3 DEF ReadCommand
  <2>4. CASE Goto(c, "reply") /\ UNCHANGED <<stream, locked>>
    BY <1>2, <2>1, <2>4 DEF ReadCommand
  <2>5. ASSUME NEW kind \in {"encode", "decode"}, NEW n \in 0..MaxBlobs,
               stream' = [stream EXCEPT ![c] = [at |-> "lock", kind |-> kind, left |-> n]],
               Goto(c, "stream"), UNCHANGED locked
        PROVE  Safe'
    BY <1>2, <2>1, <2>5 DEF ReadCommand
  <2> QED BY <1>2, <2>2, <2>3, <2>4, <2>5 DEF ReadCommand
<1>3. CASE CommandFails(c)
  BY <1>3, EndSafe DEF CommandFails
<1>4. CASE query(c)
  BY <1>4 DEF query
<1>5. CASE Reply(c)
  BY <1>5 DEF Reply
<1> QED BY <1>1, <1>2, <1>3, <1>4, <1>5

\* Preparing a blob goes from place to place with the mutex locked.
LEMMA GotoSafe ==
  ASSUME Safe, NEW c \in Clients, NEW v \in Preparing, NEW w \in Preparing,
         At(c, v), StreamGoto(c, w),
         UNCHANGED <<acceptor, slots, link, session, commands, locked, job, releasing>>,
         procSlots' \in Nat
  PROVE  Safe'
<1>1. TypeOK'
  BY DEF Safe, TypeOK, StreamGoto, Preparing, LiveStates
<1>2. locked[c] /\ stream[c].left > 0
  BY DEF Safe, StreamersPrepared
<1>3. StreamersPrepared'
  BY <1>2 DEF Safe, TypeOK, StreamersPrepared, StreamGoto, At
<1>4. AcceptedInHand'
  BY DEF Safe, AcceptedInHand
<1>5. job[c] = "none"
  BY DEF Safe, TypeOK, JobsHaveTheirStreamer, At, Preparing
<1>6. JobsHaveTheirStreamer'
  BY <1>5 DEF Safe, TypeOK, JobsHaveTheirStreamer, StreamGoto, At
<1> QED BY <1>1, <1>3, <1>4, <1>6 DEF Safe

\* The streamer.
LEMMA StreamSafe ==
  ASSUME Safe, NEW c \in Clients, StreamStep(c)
  PROVE  Safe'
<1>1. CASE StreamCycle(c)
  <2>1. procSlots' \in Nat
    BY <1>1 DEF StreamCycle, Safe, TypeOK
  <2> QED BY <1>1, <2>1, GotoSafe DEF StreamCycle, Preparing
<1>2. CASE StreamCycled(c)
  <2>1. procSlots' \in Nat
    BY <1>2 DEF StreamCycled, Safe, TypeOK
  <2> QED BY <1>2, <2>1, GotoSafe DEF StreamCycled, Preparing
<1>3. CASE StreamRecv(c)
  <2>1. CASE StreamGoto(c, "run") /\ UNCHANGED <<slots, session, locked>>
    <3>1. procSlots' \in Nat
      BY <1>3 DEF StreamRecv, Safe, TypeOK
    <3> QED BY <1>3, <2>1, <3>1, GotoSafe DEF StreamRecv, Preparing
  <2>2. CASE End(c)
    <3>1. session[c] = "stream" /\ stream[c].at = "recv"
      BY <1>3 DEF StreamRecv, At
    <3>2. job[c] = "none"
      BY <3>1 DEF Safe, TypeOK, JobsHaveTheirStreamer, At
    <3>3. commands' \in [Clients -> Nat]
      BY <1>3 DEF StreamRecv, Safe, TypeOK
    <3> QED BY <1>3, <2>2, <3>1, <3>2, <3>3, EndSafe DEF StreamRecv
  <2> QED BY <1>3, <2>1, <2>2 DEF StreamRecv
<1>4. CASE StreamReadBlob(c) /\ StreamGoto(c, "cycle") /\ UNCHANGED <<session, locked>>
  <2>1. procSlots' \in Nat
    BY <1>4 DEF StreamReadBlob, Safe, TypeOK
  <2> QED BY <1>4, <2>1, GotoSafe DEF StreamReadBlob, Preparing
<1> USE ServerAssumption
    DEF Safe, TypeOK, StreamersPrepared, AcceptedInHand, JobsHaveTheirStreamer, At, LiveStates,
        Preparing, StreamGoto, Idle
<1>5. CASE /\ StreamReadBlob(c)
           /\ stream' = [stream EXCEPT ![c] = Idle]
           /\ locked' = [locked EXCEPT ![c] = FALSE]
           /\ session' = [session EXCEPT ![c] = "reply"]
  BY <1>5 DEF StreamReadBlob
<1>6. CASE StreamLock(c)
  BY <1>6 DEF StreamLock
<1>7. CASE StreamRun(c)
  BY <1>7 DEF StreamRun
<1>8. CASE StreamWait(c)
  BY <1>8 DEF StreamWait
<1>9. CASE StreamFinish(c)
  BY <1>9 DEF StreamFinish
<1>10. CASE StreamReadBlob(c)
  BY <1>4, <1>5, <1>10 DEF StreamReadBlob
<1> QED BY <1>1, <1>2, <1>3, <1>6, <1>7, <1>8, <1>9, <1>10 DEF StreamStep

\* The job's thread.
LEMMA JobSafe ==
  ASSUME Safe, NEW c \in Clients, JobStep(c) \/ JobRelease
  PROVE  Safe'
<1> USE ServerAssumption
    DEF Safe, TypeOK, StreamersPrepared, AcceptedInHand, JobsHaveTheirStreamer, At, LiveStates, Preparing
<1>1. CASE JobStart(c)
  BY <1>1 DEF JobStart
<1>2. CASE JobComplete(c)
  BY <1>2 DEF JobComplete
<1>3. CASE JobRelease
  BY <1>3 DEF JobRelease
<1> QED BY <1>1, <1>2, <1>3 DEF JobStep

\* Every step of the server keeps the inductive invariant.
LEMMA NextSafe == Safe /\ [Next]_vars => Safe'
<1> SUFFICES ASSUME Safe, [Next]_vars PROVE Safe'
  OBVIOUS
<1>1. CASE UNCHANGED vars
  BY <1>1 DEF vars, Safe, TypeOK, StreamersPrepared, AcceptedInHand, JobsHaveTheirStreamer, At
<1>2. ASSUME NEW c \in Clients, ClientStep(c) \/ Accept(c)
      PROVE  Safe'
  BY <1>2, OutsideSafe
<1>3. CASE Spawn \/ Reacquire \/ Release
  BY <1>3, AcceptorSafe
<1>4. ASSUME NEW c \in Clients, SessionStep(c)
      PROVE  Safe'
  BY <1>4, SessionSafe, StreamSafe DEF SessionStep
<1>5. ASSUME NEW c \in Clients, JobStep(c)
      PROVE  Safe'
  BY <1>5, JobSafe
<1>6. CASE JobRelease
  BY <1>6 DEF JobRelease, Safe, TypeOK, AcceptedInHand, StreamersPrepared, JobsHaveTheirStreamer, At
<1> QED BY <1>1, <1>2, <1>3, <1>4, <1>5, <1>6 DEF Next, AcceptorStep

\* The type invariant holds in every reachable state.
THEOREM TypeCorrect == Spec => []TypeOK
<1>1. Safe => TypeOK
  BY DEF Safe
<1> QED BY <1>1, InitSafe, NextSafe, PTL DEF Spec

\* As long as a job may call back into its streamer, the streamer is there and
\* waits for it with its mutex locked, for every number of clients and threads
\* and whatever becomes of the connections.
THEOREM JobsNeverOutliveStreamers == Spec => []JobsHaveTheirStreamer
<1>1. Safe => JobsHaveTheirStreamer
  BY DEF Safe
<1> QED BY <1>1, InitSafe, NextSafe, PTL DEF Spec

-----------------------------------------------------------------------------
(* The semaphores *)
LiveClients == {c \in Clients : Live(c)}

\* A set of clients is finite; adding or removing one changes its size by one.
LEMMA OneMore ==
  ASSUME NEW S \in SUBSET Clients, NEW c \in Clients \ S
  PROVE  Cardinality(S) \in Nat /\ Cardinality(S \cup {c}) = Cardinality(S) + 1
<1>1. IsFiniteSet(S)
  BY ServerAssumption, FS_Subset
<1> QED BY <1>1, FS_AddElement, FS_CardinalityType

LEMMA OneLess ==
  ASSUME NEW S \in SUBSET Clients, NEW c \in S
  PROVE  Cardinality(S) \in Nat /\ Cardinality(S \ {c}) = Cardinality(S) - 1
<1>1. IsFiniteSet(S)
  BY ServerAssumption, FS_Subset
<1> QED BY <1>1, FS_RemoveElement, FS_CardinalityType

\* A session that ends gives its slot back.
LEMMA EndAccounted ==
  ASSUME Safe, SlotsAccounted, NEW c \in Clients, Live(c), End(c), UNCHANGED acceptor
  PROVE  SlotsAccounted'
<1>1. LiveClients' = LiveClients \ {c}
  BY DEF LiveClients, Live, End, Safe, TypeOK, LiveStates
<1>2. Cardinality(LiveClients) \in Nat /\ Cardinality(LiveClients') = Cardinality(LiveClients) - 1
  BY <1>1, OneLess DEF LiveClients
<1>3. slots' = slots + 1 /\ slots \in Nat
  BY DEF End, Safe, TypeOK
<1> QED BY <1>2, <1>3, ServerAssumption DEF SlotsAccounted, LiveClients

\* A step that neither starts nor ends a session nor moves the semaphore.
LEMMA NoSlotMoves ==
  ASSUME SlotsAccounted, LiveClients' = LiveClients, slots' = slots,
         acceptor'.at = "release" <=> acceptor.at = "release"
  PROVE  SlotsAccounted'
BY DEF SlotsAccounted, LiveClients

LEMMA SlotsStep == Safe /\ SlotsAccounted /\ [Next]_vars => SlotsAccounted'
<1> SUFFICES ASSUME Safe, SlotsAccounted, [Next]_vars PROVE SlotsAccounted'
  OBVIOUS
<1>1. CASE UNCHANGED vars
  BY <1>1, NoSlotMoves DEF vars, LiveClients, Live
<1>2. ASSUME NEW c \in Clients, ClientStep(c) \/ Accept(c)
      PROVE  SlotsAccounted'
  <2>1. LiveClients' = LiveClients
    BY <1>2 DEF ClientStep, Connect, LinkLost, Accept, LiveClients, Live, LiveStates, Safe, TypeOK
  <2>2. \/ slots' = slots /\ acceptor'.at # "release" /\ acceptor.at # "release"
        \/ UNCHANGED <<slots, acceptor>>
    BY <1>2 DEF ClientStep, Connect, LinkLost, Accept
  <2> QED BY <2>1, <2>2, NoSlotMoves
<1>3. CASE Spawn
  <2>1. acceptor.client \in Clients \ LiveClients
    BY <1>3 DEF Spawn, Safe, AcceptedInHand, LiveClients, Live, LiveStates
  <2>2. LiveClients' = LiveClients \cup {acceptor.client}
    BY <1>3, <2>1 DEF Spawn, LiveClients, Live, LiveStates, Safe, TypeOK
  <2>3. Cardinality(LiveClients) \in Nat /\ Cardinality(LiveClients') = Cardinality(LiveClients) + 1
    BY <2>1, <2>2, OneMore DEF LiveClients
  <2>4. slots \in Nat /\ slots' = slots - 1 /\ acceptor.at # "release" /\ acceptor'.at # "release"
    BY <1>3 DEF Spawn, Safe, TypeOK
  <2> QED BY <2>3, <2>4, ServerAssumption DEF SlotsAccounted, LiveClients
<1>4. CASE Reacquire \/ Release
  <2>1. LiveClients' = LiveClients
    BY <1>4 DEF Reacquire, Release, LiveClients, Live
  <2>2. Cardinality(LiveClients) \in Nat
    BY ServerAssumption, FS_Subset, FS_CardinalityType DEF LiveClients
  <2>3. \/ slots' = slots - 1 /\ acceptor.at # "release" /\ acceptor'.at = "release"
        \/ slots' = slots + 1 /\ acceptor.at = "release" /\ acceptor'.at # "release"
    BY <1>4 DEF Reacquire, Release, Safe, TypeOK
  <2>4. slots \in Nat
    BY DEF Safe, TypeOK
  <2> QED BY <2>1, <2>2, <2>3, <2>4, ServerAssumption DEF SlotsAccounted, LiveClients
<1>5. ASSUME NEW c \in Clients, SessionStep(c)
      PROVE  SlotsAccounted'
  <2>1. CASE End(c)
    BY <1>5, <2>1, EndAccounted
    DEF SessionStep, handshake, ReadCommand, CommandFails, query, Reply, StreamStep, StreamLock,
        StreamReadBlob, StreamCycle, StreamCycled, StreamRecv, StreamRun, StreamWait, StreamFinish,
        Live, LiveStates, At
  <2>2. CASE ~End(c)
    <3>1. UNCHANGED <<slots, acceptor>>
      BY <1>5, <2>2
      DEF SessionStep, handshake, ReadCommand, CommandFails, query, Reply, StreamStep, StreamLock,
          StreamReadBlob, StreamCycle, StreamCycled, StreamRecv, StreamRun, StreamWait, StreamFinish, Goto
    <3>2. Live(c) /\ \E w \in LiveStates : session' = [session EXCEPT ![c] = w]
      BY <1>5, <2>2
      DEF SessionStep, handshake, ReadCommand, CommandFails, query, Reply, StreamStep, StreamLock,
          StreamReadBlob, StreamCycle, StreamCycled, StreamRecv, StreamRun, StreamWait, StreamFinish,
          Goto, Live, LiveStates, At, Safe, TypeOK
    <3>3. LiveClients' = LiveClients
      BY <3>2 DEF LiveClients, Live, Safe, TypeOK
    <3> QED BY <3>1, <3>3, NoSlotMoves
  <2> QED BY <2>1, <2>2
<1>6. ASSUME NEW c \in Clients, JobStep(c) \/ JobRelease
      PROVE  SlotsAccounted'
  BY <1>6, NoSlotMoves DEF JobStep, JobStart, JobComplete, JobRelease, LiveClients, Live
<1>7. CASE JobRelease
  BY <1>7, NoSlotMoves DEF JobRelease, LiveClients, Live
<1> QED BY <1>1, <1>2, <1>3, <1>4, <1>5, <1>6, <1>7 DEF Next, AcceptorStep

\* No path through the accept loop or a session leaks a slot of the API or
\* returns one twice, so never more than MaxInstances sessions run.
THEOREM NoSlotLeaks == Spec => []SlotsAccounted
<1>1. Init => SlotsAccounted
  <2> SUFFICES ASSUME Init PROVE SlotsAccounted
    OBVIOUS
  <2>1. {c \in Clients : Live(c)} = {}
    BY DEF Init, Live, LiveStates
  <2>2. Cardinality({}) = 0
    BY FS_EmptySet
  <2> QED BY <2>1, <2>2, ServerAssumption DEF Init, SlotsAccounted
<1> QED BY <1>1, InitSafe, NextSafe, SlotsStep, PTL DEF Spec

-----------------------------------------------------------------------------
Running == {c \in Clients : job[c] = "running"}

Cycling == {c \in Clients : At(c, "cycled")}

LEMMA ThreadCounts == Cardinality(Running) \in Nat /\ Cardinality(Cycling) \in Nat
BY ServerAssumption, FS_Subset, FS_CardinalityType DEF Running, Cycling

\* A step that neither takes nor gives a thread of the processor.
LEMMA NoThreadMoves ==
  ASSUME ProcessorAccounted, Running' = Running, Cycling' = Cycling,
         UNCHANGED <<procSlots, releasing>>
  PROVE  ProcessorAccounted'
BY DEF ProcessorAccounted, Running, Cycling

\* A streamer in cycle() takes a thread and gives it back.
LEMMA CycleAccounted ==
  ASSUME Safe, ProcessorAccounted, NEW c \in Clients, StreamCycle(c) \/ StreamCycled(c)
  PROVE  ProcessorAccounted'
<1>1. Running' = Running /\ releasing' = releasing /\ procSlots \in Nat /\ releasing \in Nat
  BY DEF StreamCycle, StreamCycled, Running, Safe, TypeOK
<1>2. CASE StreamCycle(c)
  <2>1. c \in Clients \ Cycling /\ Cycling' = Cycling \cup {c}
    BY <1>2 DEF StreamCycle, StreamGoto, Cycling, At, Safe, TypeOK
  <2>2. Cardinality(Cycling') = Cardinality(Cycling) + 1
    BY <2>1, OneMore DEF Cycling
  <2>3. procSlots' = procSlots - 1
    BY <1>2 DEF StreamCycle
  <2> QED BY <1>1, <2>2, <2>3, ThreadCounts, ServerAssumption DEF ProcessorAccounted, Running, Cycling
<1>3. CASE StreamCycled(c)
  <2>1. c \in Cycling /\ Cycling' = Cycling \ {c}
    BY <1>3 DEF StreamCycled, StreamGoto, Cycling, At, Safe, TypeOK
  <2>2. Cardinality(Cycling') = Cardinality(Cycling) - 1
    BY <2>1, OneLess DEF Cycling
  <2>3. procSlots' = procSlots + 1
    BY <1>3 DEF StreamCycled
  <2> QED BY <1>1, <2>2, <2>3, ThreadCounts, ServerAssumption DEF ProcessorAccounted, Running, Cycling
<1> QED BY <1>2, <1>3

\* A job takes a thread for as long as it runs and until it has released it.
LEMMA JobAccounted ==
  ASSUME Safe, ProcessorAccounted, NEW c \in Clients, JobStep(c)
  PROVE  ProcessorAccounted'
<1>1. Cycling' = Cycling /\ procSlots \in Nat /\ releasing \in Nat
  BY DEF JobStep, JobStart, JobComplete, Cycling, At, Safe, TypeOK
<1>2. /\ procSlots + releasing + Cardinality(Running) + Cardinality(Cycling) = Threads
      /\ procSlots' + releasing' + Cardinality(Running') + Cardinality(Cycling') = Threads
           => ProcessorAccounted'
  BY DEF ProcessorAccounted, Running, Cycling
<1>3. CASE JobStart(c)
  <2>1. c \in Clients \ Running /\ Running' = Running \cup {c}
    BY <1>3 DEF JobStart, Running, Safe, TypeOK
  <2>2. Cardinality(Running') = Cardinality(Running) + 1
    BY <2>1, OneMore DEF Running
  <2>3. procSlots' = procSlots - 1 /\ releasing' = releasing
    BY <1>3 DEF JobStart
  <2> QED BY <1>1, <1>2, <2>2, <2>3, ThreadCounts, ServerAssumption
<1>4. CASE JobComplete(c)
  <2>1. c \in Running /\ Running' = Running \ {c}
    BY <1>4 DEF JobComplete, Running, Safe, TypeOK
  <2>2. Cardinality(Running') = Cardinality(Running) - 1
    BY <2>1, OneLess DEF Running
  <2>3. procSlots' = procSlots /\ releasing' = releasing + 1
    BY <1>4 DEF JobComplete
  <2> QED BY <1>1, <1>2, <2>2, <2>3, ThreadCounts, ServerAssumption
<1> QED BY <1>3, <1>4 DEF JobStep

\* The rest of the session neither is nor comes inside cycle(), and moves no
\* other session.
LEMMA OnlyCycleCycles ==
  ASSUME Safe, NEW c \in Clients, SessionStep(c), ~(StreamCycle(c) \/ StreamCycled(c))
  PROVE  /\ ~At(c, "cycled") /\ ~At(c, "cycled")'
         /\ \A d \in Clients \ {c} : session'[d] = session[d] /\ stream'[d] = stream[d]
<1> USE DEF At, Safe, TypeOK, Goto, StreamGoto, End, Idle
<1>1. CASE handshake(c)
  BY <1>1 DEF handshake
<1>2. CASE CommandFails(c)
  BY <1>2 DEF CommandFails
<1>3. CASE query(c)
  BY <1>3 DEF query
<1>4. CASE Reply(c)
  BY <1>4 DEF Reply
<1>5. CASE StreamLock(c)
  BY <1>5 DEF StreamLock
<1>6. CASE StreamReadBlob(c)
  BY <1>6 DEF StreamReadBlob
<1>7. CASE StreamRecv(c)
  BY <1>7 DEF StreamRecv
<1>8. CASE StreamRun(c)
  BY <1>8 DEF StreamRun
<1>9. CASE StreamWait(c)
  BY <1>9 DEF StreamWait
<1>10. CASE StreamFinish(c)
  BY <1>10 DEF StreamFinish
<1>11. CASE ReadCommand(c)
  BY <1>11 DEF ReadCommand
<1> QED BY <1>1, <1>2, <1>3, <1>4, <1>5, <1>6, <1>7, <1>8, <1>9, <1>10, <1>11 DEF SessionStep, StreamStep

LEMMA ThreadsStep == Safe /\ ProcessorAccounted /\ [Next]_vars => ProcessorAccounted'
<1> SUFFICES ASSUME Safe, ProcessorAccounted, [Next]_vars PROVE ProcessorAccounted'
  OBVIOUS
<1>1. CASE UNCHANGED vars
  BY <1>1, NoThreadMoves DEF vars, Running, Cycling, At
<1>2. ASSUME NEW c \in Clients, ClientStep(c) \/ Accept(c)
      PROVE  ProcessorAccounted'
  <2>1. Running' = Running /\ UNCHANGED <<procSlots, releasing>>
    BY <1>2 DEF ClientStep, Connect, LinkLost, Accept, Running
  <2>2. Cycling' = Cycling
    BY <1>2 DEF ClientStep, Connect, LinkLost, Accept, Cycling, At, Safe, TypeOK
  <2> QED BY <2>1, <2>2, NoThreadMoves
<1>3. CASE Spawn \/ Reacquire \/ Release
  <2>1. Running' = Running /\ UNCHANGED <<procSlots, releasing>>
    BY <1>3 DEF Spawn, Reacquire, Release, Running
  <2>2. Cycling' = Cycling
    BY <1>3 DEF Spawn, Reacquire, Release, Cycling, At, Safe, TypeOK, AcceptedInHand
  <2> QED BY <2>1, <2>2, NoThreadMoves
<1>4. ASSUME NEW c \in Clients, SessionStep(c), ~(StreamCycle(c) \/ StreamCycled(c))
      PROVE  ProcessorAccounted'
  <2>1. UNCHANGED <<procSlots, releasing>>
    BY <1>4
    DEF SessionStep, handshake, ReadCommand, CommandFails, query, Reply, StreamStep, StreamLock,
        StreamReadBlob, StreamRecv, StreamRun, StreamWait, StreamFinish
  <2>2. Running' = Running
    BY <1>4
    DEF SessionStep, handshake, ReadCommand, CommandFails, query, Reply, StreamStep, StreamLock,
        StreamReadBlob, StreamRecv, StreamRun, StreamWait, StreamFinish, Running,
        Safe, TypeOK, JobsHaveTheirStreamer, At
  <2>3. /\ ~At(c, "cycled") /\ ~At(c, "cycled")'
        /\ \A d \in Clients \ {c} : session'[d] = session[d] /\ stream'[d] = stream[d]
    BY <1>4, OnlyCycleCycles
  <2>4. Cycling' = Cycling
    BY <2>3 DEF Cycling, At
  <2> QED BY <2>1, <2>2, <2>4, NoThreadMoves
<1>5. CASE JobRelease
  <2>1. Running' = Running /\ Cycling' = Cycling
    BY <1>5 DEF JobRelease, Running, Cycling, At
  <2>2. procSlots' + releasing' = procSlots + releasing /\ procSlots' \in Nat /\ releasing' \in Nat
    BY <1>5 DEF JobRelease, Safe, TypeOK
  <2> QED BY <2>1, <2>2, ThreadCounts, ServerAssumption DEF ProcessorAccounted, Running, Cycling
<1> QED BY <1>1, <1>2, <1>3, <1>4, <1>5, CycleAccounted, JobAccounted DEF Next, AcceptorStep

\* A thread of the processor is free, in a job, in a streamer's cycle() or about
\* to be released: none is lost when a job fails, and never more than Threads
\* jobs run.
THEOREM NoThreadLeaks == Spec => []ProcessorAccounted
<1>1. Init => ProcessorAccounted
  <2> SUFFICES ASSUME Init PROVE ProcessorAccounted
    OBVIOUS
  <2>1. {c \in Clients : job[c] = "running"} = {} /\ {c \in Clients : At(c, "cycled")} = {}
    BY DEF Init, At, Idle
  <2>2. Cardinality({}) = 0
    BY FS_EmptySet
  <2> QED BY <2>1, <2>2, ServerAssumption DEF Init, ProcessorAccounted
<1> QED BY <1>1, InitSafe, NextSafe, ThreadsStep, PTL DEF Spec
=============================================================================
