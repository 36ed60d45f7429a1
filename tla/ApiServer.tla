------------------------------ MODULE ApiServer ------------------------------
(***************************************************************************)
(* The threads of the server: Api::start accepting connections, one        *)
(* ApiInstance per connection, the Streamer inside it that hands one blob  *)
(* after the other to HZ_Processor, and the processor's job threads        *)
(* (src/src/hzip_network/api/api.cpp, handlers/streamer.cpp,               *)
(* handlers/socket_class.cpp, handlers/query.cpp,                          *)
(* src/src/hzip_codec/processor/processor.cpp,                             *)
(* src/src/hzip_core/utils/semaphore.cpp).                                 *)
(*                                                                         *)
(* This module keeps the control: who holds which semaphore or mutex and   *)
(* who waits for whom.  Archive and codec calls return or throw; what they *)
(* do is in Archive and Pipeline.                                          *)
(***************************************************************************)
EXTENDS Naturals, FiniteSets

CONSTANTS
  Clients,
  MaxInstances,   \* Api::_semaphore, Config::api_threads
  Threads,        \* HZ_Processor::_semaphore, Config::processor_threads
  MaxCommands,    \* bound: commands of one connection
  MaxBlobs,       \* bound: blobs of one stream
  NoClient

ASSUME ServerAssumption ==
  /\ IsFiniteSet(Clients)
  /\ MaxInstances \in Nat \ {0} /\ Threads \in Nat \ {0}
  /\ MaxCommands \in Nat /\ MaxBlobs \in Nat
  /\ NoClient \notin Clients

VARIABLES
  acceptor,   \* the accept loop: where it is and the connection in hand
  slots,      \* count of Api::_semaphore
  link,       \* the socket: "up", "shut" (recv returns 0) or "broken" (-1)
  session,    \* where the ApiInstance of a connection is
  commands,   \* commands the client has sent
  stream,     \* the Streamer: where it is, its kind and the blobs left
  locked,     \* the Streamer's _mutex
  job,        \* its job: "none", "spawned" or "running"
  procSlots,  \* count of HZ_Processor::_semaphore
  releasing   \* job threads between on_completed and release

vars == <<acceptor, slots, link, session, commands, stream, locked, job, procSlots, releasing>>

Idle == [at |-> "idle", kind |-> "none", left |-> 0]

\* An ApiInstance runs for the connection and holds a slot.
LiveStates == {"handshake", "command", "query", "stream", "reply"}

Live(c) == session[c] \in LiveStates

-----------------------------------------------------------------------------
(* Clients *)
Connect(c) ==
  /\ session[c] = "none"
  /\ session' = [session EXCEPT ![c] = "queued"]
  /\ link' = [link EXCEPT ![c] = "up"]
  /\ UNCHANGED <<acceptor, slots, commands, stream, locked, job, procSlots, releasing>>

\* The client closes its end, or the connection fails or stays silent longer
\* than SO_RCVTIMEO: recv() and send() then return -1.
LinkLost(c, how) ==
  /\ link[c] = "up"
  /\ link' = [link EXCEPT ![c] = how]
  /\ UNCHANGED <<acceptor, slots, session, commands, stream, locked, job, procSlots, releasing>>

-----------------------------------------------------------------------------
(* Api::start *)
Accept(c) ==
  /\ acceptor.at = "accept" /\ session[c] = "queued"
  /\ \/ /\ session' = [session EXCEPT ![c] = "accepted"]
        /\ acceptor' = [at |-> "acquire", client |-> c]
     \/ /\ session' = [session EXCEPT ![c] = "ended"]   \* setsockopt() failed
        /\ UNCHANGED acceptor
  /\ UNCHANGED <<slots, link, commands, stream, locked, job, procSlots, releasing>>

\* Acquire a slot and start the session's thread.
Spawn ==
  /\ acceptor.at = "acquire" /\ slots > 0
  /\ slots' = slots - 1
  /\ session' = [session EXCEPT ![acceptor.client] = "handshake"]
  /\ acceptor' = [at |-> "reacquire", client |-> NoClient]
  /\ UNCHANGED <<link, commands, stream, locked, job, procSlots, releasing>>

\* Mutant: the semaphore does not wait.
ReacquireUnguarded ==
  /\ acceptor.at = "reacquire"
  /\ slots' = slots - 1
  /\ acceptor' = [acceptor EXCEPT !.at = "release"]
  /\ UNCHANGED <<link, session, commands, stream, locked, job, procSlots, releasing>>

\* Wait for a free slot before accepting the next connection.
Reacquire ==
  /\ acceptor.at = "reacquire" /\ slots > 0
  /\ slots' = slots - 1
  /\ acceptor' = [acceptor EXCEPT !.at = "release"]
  /\ UNCHANGED <<link, session, commands, stream, locked, job, procSlots, releasing>>

Release ==
  /\ acceptor.at = "release"
  /\ slots' = slots + 1
  /\ acceptor' = [acceptor EXCEPT !.at = "accept"]
  /\ UNCHANGED <<link, session, commands, stream, locked, job, procSlots, releasing>>

-----------------------------------------------------------------------------
(* ApiInstance *)

\* Mutant: end() keeps the slot.
EndKeepsSlot(c) ==
  /\ session' = [session EXCEPT ![c] = "ended"]
  /\ stream' = [stream EXCEPT ![c] = Idle]
  /\ locked' = [locked EXCEPT ![c] = FALSE]
  /\ UNCHANGED slots

\* end(), and the destruction of a Streamer the exception left.
End(c) ==
  /\ session' = [session EXCEPT ![c] = "ended"]
  /\ slots' = slots + 1
  /\ stream' = [stream EXCEPT ![c] = Idle]
  /\ locked' = [locked EXCEPT ![c] = FALSE]

Goto(c, where) ==
  /\ session' = [session EXCEPT ![c] = where]
  /\ UNCHANGED slots

\* t_recv compares recv()'s ssize_t with a size_t: 0 raises ConnectionError,
\* -1 passes for success and leaves the buffer as it was.
Received(c) == link[c] \in {"up", "broken"}

\* Mutant: recv() = 0 is not an error.
NoConnectionError(c) == FALSE

ConnectionError(c) == link[c] = "shut"

\* A broken link leaves the token as it was sent, which does not match.
handshake(c) ==
  /\ session[c] = "handshake"
  /\ \/ /\ link[c] = "up"
        /\ Goto(c, "command")
        /\ UNCHANGED <<stream, locked>>
     \/ End(c)
  /\ UNCHANGED <<acceptor, link, commands, job, procSlots, releasing>>

\* The control word; on a broken link it is whatever the byte held before.
ReadCommand(c) ==
  /\ session[c] = "command"
  /\ Received(c)
  /\ link[c] = "up" => commands[c] < MaxCommands
  /\ commands' = [commands EXCEPT ![c] = IF link[c] = "up" THEN @ + 1 ELSE @]
  /\ \/ /\ Goto(c, "query")
        /\ UNCHANGED <<stream, locked>>
     \/ /\ Goto(c, "reply")                        \* health check, invalid command
        /\ UNCHANGED <<stream, locked>>
     \/ /\ link[c] = "up"                          \* a stream's parameters were sent
        /\ \E kind \in {"encode", "decode"}, n \in 0..MaxBlobs :
             stream' = [stream EXCEPT ![c] = [at |-> "lock", kind |-> kind, left |-> n]]
        /\ Goto(c, "stream")
        /\ UNCHANGED locked
     \/ End(c)                                     \* API_CTL_CLOSE
  /\ UNCHANGED <<acceptor, link, job, procSlots, releasing>>

CommandFails(c) ==
  /\ session[c] \in {"command", "query"}
  /\ ConnectionError(c)
  /\ End(c)
  /\ UNCHANGED <<acceptor, link, commands, job, procSlots, releasing>>

\* Query::start: an answer, or an exception that start() reports.
query(c) ==
  /\ session[c] = "query" /\ Received(c)
  /\ Goto(c, "reply")
  /\ UNCHANGED <<acceptor, link, commands, stream, locked, job, procSlots, releasing>>

\* success() or error(), and back to the loop of start().
Reply(c) ==
  /\ session[c] = "reply"
  /\ Goto(c, "command")
  /\ UNCHANGED <<acceptor, link, commands, stream, locked, job, procSlots, releasing>>

-----------------------------------------------------------------------------
(* Streamer::encode and Streamer::decode: per blob, lock the mutex, wait   *)
(* for the processor, run the job and wait until its on_completed unlocks. *)
At(c, where) == session[c] = "stream" /\ stream[c].at = where

StreamGoto(c, where) == stream' = [stream EXCEPT ![c].at = where]

StreamLock(c) ==
  /\ At(c, "lock") /\ stream[c].left > 0
  /\ ~locked[c]
  /\ locked' = [locked EXCEPT ![c] = TRUE]
  /\ StreamGoto(c, IF stream[c].kind = "decode" THEN "read" ELSE "cycle")
  /\ UNCHANGED <<acceptor, slots, link, session, commands, job, procSlots, releasing>>

\* read_blob succeeds, or throws out of the streamer.
StreamReadBlob(c) ==
  /\ At(c, "read")
  /\ \/ StreamGoto(c, "cycle") /\ UNCHANGED <<session, locked>>
     \/ /\ stream' = [stream EXCEPT ![c] = Idle]
        /\ locked' = [locked EXCEPT ![c] = FALSE]
        /\ session' = [session EXCEPT ![c] = "reply"]
  /\ UNCHANGED <<acceptor, slots, link, commands, job, procSlots, releasing>>

\* HZ_Processor::cycle: acquire and release.
StreamCycle(c) ==
  /\ At(c, "cycle") /\ procSlots > 0
  /\ procSlots' = procSlots - 1
  /\ StreamGoto(c, "cycled")
  /\ UNCHANGED <<acceptor, slots, link, session, commands, locked, job, releasing>>

StreamCycled(c) ==
  /\ At(c, "cycled")
  /\ procSlots' = procSlots + 1
  /\ StreamGoto(c, IF stream[c].kind = "decode" THEN "run" ELSE "recv")
  /\ UNCHANGED <<acceptor, slots, link, session, commands, locked, job, releasing>>

StreamRecv(c) ==
  /\ At(c, "recv")
  /\ \/ Received(c) /\ StreamGoto(c, "run") /\ UNCHANGED <<slots, session, locked>>
     \/ ConnectionError(c) /\ End(c)
  /\ UNCHANGED <<acceptor, link, commands, job, procSlots, releasing>>

\* HZ_Processor::run starts a thread.
StreamRun(c) ==
  /\ At(c, "run")
  /\ job' = [job EXCEPT ![c] = "spawned"]
  /\ stream' = [stream EXCEPT ![c].at = "wait", ![c].left = @ - 1]
  /\ UNCHANGED <<acceptor, slots, link, session, commands, locked, procSlots, releasing>>

\* Mutant: run() is not waited for.
StreamDoesNotWait(c) ==
  /\ At(c, "wait")
  /\ StreamGoto(c, "lock")
  /\ UNCHANGED <<acceptor, slots, link, session, commands, locked, job, procSlots, releasing>>

\* lock() returns once on_completed has unlocked.
StreamWait(c) ==
  /\ At(c, "wait")
  /\ ~locked[c]
  /\ StreamGoto(c, "lock")
  /\ UNCHANGED <<acceptor, slots, link, session, commands, locked, job, procSlots, releasing>>

\* The file entry, and success() or the exception's message.
StreamFinish(c) ==
  /\ At(c, "lock") /\ stream[c].left = 0
  /\ ~locked[c]
  /\ stream' = [stream EXCEPT ![c] = Idle]
  /\ session' = [session EXCEPT ![c] = "reply"]
  /\ UNCHANGED <<acceptor, slots, link, commands, locked, job, procSlots, releasing>>

-----------------------------------------------------------------------------
(* The job's thread *)
JobStart(c) ==
  /\ job[c] = "spawned" /\ procSlots > 0
  /\ procSlots' = procSlots - 1
  /\ job' = [job EXCEPT ![c] = "running"]
  /\ UNCHANGED <<acceptor, slots, link, session, commands, stream, locked, releasing>>

\* Mutant: on_completed is not called.
JobNotCompleted(c) ==
  /\ job[c] = "running"
  /\ job' = [job EXCEPT ![c] = "none"]
  /\ releasing' = releasing + 1
  /\ UNCHANGED <<acceptor, slots, link, session, commands, stream, locked, procSlots>>

\* Mutant: the semaphore is not released.
JobKeepsThread(c) ==
  /\ job[c] = "running"
  /\ job' = [job EXCEPT ![c] = "none"]
  /\ locked' = [locked EXCEPT ![c] = FALSE]
  /\ UNCHANGED <<acceptor, slots, link, session, commands, stream, procSlots, releasing>>

\* The job ends, on_error or the callbacks use the streamer, on_completed
\* unlocks its mutex.
JobComplete(c) ==
  /\ job[c] = "running"
  /\ job' = [job EXCEPT ![c] = "none"]
  /\ locked' = [locked EXCEPT ![c] = FALSE]
  /\ releasing' = releasing + 1
  /\ UNCHANGED <<acceptor, slots, link, session, commands, stream, procSlots>>

JobRelease ==
  /\ releasing > 0
  /\ releasing' = releasing - 1
  /\ procSlots' = procSlots + 1
  /\ UNCHANGED <<acceptor, slots, link, session, commands, stream, locked, job>>

-----------------------------------------------------------------------------
Init ==
  /\ acceptor = [at |-> "accept", client |-> NoClient]
  /\ slots = MaxInstances /\ procSlots = Threads /\ releasing = 0
  /\ link = [c \in Clients |-> "none"] /\ session = [c \in Clients |-> "none"]
  /\ commands = [c \in Clients |-> 0]
  /\ stream = [c \in Clients |-> Idle]
  /\ locked = [c \in Clients |-> FALSE]
  /\ job = [c \in Clients |-> "none"]

StreamStep(c) ==
  \/ StreamLock(c) \/ StreamReadBlob(c) \/ StreamCycle(c) \/ StreamCycled(c)
  \/ StreamRecv(c) \/ StreamRun(c) \/ StreamWait(c) \/ StreamFinish(c)

SessionStep(c) ==
  handshake(c) \/ ReadCommand(c) \/ CommandFails(c) \/ query(c) \/ Reply(c) \/ StreamStep(c)

JobStep(c) == JobStart(c) \/ JobComplete(c)

AcceptorStep == (\E c \in Clients : Accept(c)) \/ Spawn \/ Reacquire \/ Release

ClientStep(c) == Connect(c) \/ LinkLost(c, "shut") \/ LinkLost(c, "broken")

Next == \/ AcceptorStep \/ JobRelease
        \/ \E c \in Clients : ClientStep(c) \/ SessionStep(c) \/ JobStep(c)

Spec == Init /\ [][Next]_vars

\* Threads run.  A condition variable promises no order among its waiters, so
\* acquiring a slot is only weakly fair; clients owe nothing.
FairSpec ==
  /\ Spec
  /\ WF_vars(AcceptorStep) /\ WF_vars(JobRelease)
  /\ \A c \in Clients : /\ WF_vars(StreamStep(c)) /\ WF_vars(JobStep(c))
                        /\ WF_vars(handshake(c) \/ query(c) \/ Reply(c) \/ CommandFails(c))
                        /\ WF_vars(link[c] = "broken" /\ ReadCommand(c))
-----------------------------------------------------------------------------
\* The type invariant.
TypeOK ==
  /\ acceptor \in [at: {"accept", "acquire", "reacquire", "release"}, client: Clients \cup {NoClient}]
  /\ slots \in Nat /\ procSlots \in Nat /\ releasing \in Nat
  /\ link \in [Clients -> {"none", "up", "shut", "broken"}]
  /\ session \in [Clients -> {"none", "queued", "accepted", "ended"} \cup LiveStates]
  /\ commands \in [Clients -> Nat]
  /\ stream \in [Clients -> [at: {"idle", "lock", "read", "cycle", "cycled", "recv", "run", "wait"},
                             kind: {"none", "encode", "decode"}, left: Nat]]
  /\ locked \in [Clients -> BOOLEAN]
  /\ job \in [Clients -> {"none", "spawned", "running"}]

\* A job's callbacks capture the streamer and its list of blob ids by
\* reference: as long as a callback may still run, the streamer that started
\* the job waits for it with the mutex locked, whatever happened to the
\* connection.  It also means a session has at most one job, so the callbacks
\* write to the socket one after the other and the blob ids arrive in order.
JobsHaveTheirStreamer ==
  \A c \in Clients : job[c] # "none" => At(c, "wait") /\ locked[c]

\* Every slot of the API is free, held by a live session or held by the accept
\* loop: none leaks on any path out of a session and none is returned twice.
SlotsAccounted ==
  slots + Cardinality({c \in Clients : Live(c)})
        + (IF acceptor.at = "release" THEN 1 ELSE 0) = MaxInstances

\* The same for the processor's threads: at most Threads jobs run.
ProcessorAccounted ==
  procSlots + releasing + Cardinality({c \in Clients : job[c] = "running"})
            + Cardinality({c \in Clients : At(c, "cycled")}) = Threads

\* No stream waits forever: the streamer's mutex, the processor's semaphore and
\* the job's completion never wait for each other in a circle.
StreamEnds == \A c \in Clients : session[c] = "stream" ~> session[c] # "stream"

\* When the client closes its end, its session ends and returns the slot.
ClosedSessionEnds == \A c \in Clients : link[c] = "shut" /\ Live(c) ~> ~Live(c)

\* When the connection fails or times out, the session ends too: what the
\* ConnectionError of t_recv and t_send is for.
LostSessionEnds == \A c \in Clients : link[c] = "broken" /\ Live(c) ~> ~Live(c)
=============================================================================
