---------------------------- MODULE ArchiveAccess ----------------------------
(***************************************************************************)
(* Who may open, use and close an archive file: server processes with      *)
(* their sessions, the ArchiveProvider of each process and its mutex, the  *)
(* constructor of HZ_Archive with the named semaphore of the path, the     *)
(* signal handler that closes the archives, and processes and machines     *)
(* that die between any two steps.                                         *)
(*                                                                         *)
(* The content of an archive (module Archive) is a number of writes; what  *)
(* counts here is whether the file ends with the END marker.               *)
(***************************************************************************)
EXTENDS Naturals, FiniteSets

CONSTANTS
    Procs,       \* server processes on one machine
    Sessions,    \* session threads of each of them
    Names,       \* archive paths as clients spell them
    Paths,       \* absolute paths
    Absolute,    \* std::filesystem::absolute
    Asks,        \* which session may ask for which name
    MaxWrites,   \* bound on the writes to a file
    MaxStarts,   \* bound on the starts of each process
    MaxReboots   \* bound on the restarts of the machine

ASSUME AccessAssumption ==
    /\ Absolute \in [Names -> Paths]
    /\ Asks \subseteq Procs \X Sessions \X Names
    /\ Names # {}
    /\ {"free", "leaked", "handler"} \cap Sessions = {}
    /\ MaxWrites \in Nat /\ MaxStarts \in Nat /\ MaxReboots \in Nat

VARIABLES
    proc,       \* per process: the provider, its archives, the handler
    session,    \* per process and session: where it is in provide()
    file,       \* per path: the archive file
    writes,     \* per path: the writes the file holds
    sem,        \* per path: the named semaphore, which outlives processes
    starts,     \* per process: how often it was started
    reboots,    \* how often the machine was restarted
    promised,   \* history, per path: the writes it held when last closed
    excuse,     \* history, per path: the first reason why it may have lost something
    lost        \* history: paths whose semaphore nobody will post

storage == <<file, writes>>
history == <<promised, excuse, lost>>
vars == <<proc, session, storage, sem, starts, reboots, history>>

\* A file is absent, empty (created, not written), ended (with an END marker),
\* dirty (written since it was opened) or of another version of hybridzip.
FileStates == {"absent", "empty", "ended", "dirty", "foreign"}

\* Where a session is: outside, asking for an archive, inside provide() (with
\* the provider's mutex), lost in a scan, with an archive, inside one of its
\* operations (with the mutex of the archive).
Providing == {"check", "create", "wait", "init", "load"}
SessionStates == {"idle", "ask", "spin", "held", "op"} \cup Providing
HandlerStates == {"none", "lock", "close", "exit"}

Excuses == {"none", "creation race", "creation cut short", "restart", "late write"}

SessionRecord == [pc: SessionStates, name: Names, init: BOOLEAN]

ProcRecord ==
    [up: BOOLEAN,
     mutex: Sessions \cup {"free", "leaked", "handler"},
     arch_map: SUBSET Names,
     closed: SUBSET Names,
     busy: [Names -> Sessions \cup {"free", "leaked"}],
     handler: HandlerStates,
     victim: Sessions \cup {"free"}]

\* Main starts: no archive, a free mutex, the handlers installed.
Started == [up |-> TRUE, mutex |-> "free", arch_map |-> {}, closed |-> {},
            busy |-> [n \in Names |-> "free"], handler |-> "none", victim |-> "free"]

Gone == [Started EXCEPT !.up = FALSE]

NoSession == [pc |-> "idle", name |-> CHOOSE n \in Names : TRUE, init |-> FALSE]

Init ==
    /\ proc = [p \in Procs |-> Gone]
    /\ session = [p \in Procs |-> [s \in Sessions |-> NoSession]]
    /\ file \in [Paths -> {"absent", "ended", "foreign"}]
    /\ writes = [f \in Paths |-> 0]
    /\ sem = [f \in Paths |-> 1]
    /\ starts = [p \in Procs |-> 0]
    /\ reboots = 0
    /\ promised = [f \in Paths |-> 0]
    /\ excuse = [f \in Paths |-> "none"]
    /\ lost = {}

-----------------------------------------------------------------------------
(* provide() and the constructor of HZ_Archive *)

\* A session runs unless its process is gone or the signal handler runs on its
\* thread.
Runs(p, s) == proc[p].up /\ proc[p].victim # s

At(p, s, pc) == Runs(p, s) /\ session[p][s].pc = pc

PathOf(p, s) == Absolute[session[p][s].name]

GoTo(p, s, pc) == session' = [session EXCEPT ![p][s].pc = pc]

\* The command is over, successfully or with an exception.
Leave(p, s) == session' = [session EXCEPT ![p][s] = NoSession]

\* The paths in P have a reason to lose something.
Excuse(P, why) ==
    excuse' = [f \in Paths |-> IF f \in P /\ excuse[f] = "none" THEN why ELSE excuse[f]]

\* A process that found the file absent and has not initialised it yet.
Creates(p, f) ==
    \E s \in Sessions : /\ session[p][s].pc \in {"create", "wait", "init"}
                        /\ session[p][s].init
                        /\ PathOf(p, s) = f

\* A command names an archive.
Ask(p, s, n) ==
    /\ At(p, s, "idle")
    /\ <<p, s, n>> \in Asks
    /\ session' = [session EXCEPT ![p][s] = [pc |-> "ask", name |-> n, init |-> FALSE]]
    /\ UNCHANGED <<proc, storage, sem, starts, reboots, history>>

\* provide() finds the archive in its map.
ProvideKnown(p, s) ==
    /\ At(p, s, "ask")
    /\ proc[p].mutex = "free"
    /\ session[p][s].name \in proc[p].arch_map
    /\ GoTo(p, s, "held")
    /\ UNCHANGED <<proc, storage, sem, starts, reboots, history>>

\* It does not, and constructs one, with its mutex locked.
ProvideNew(p, s) ==
    /\ At(p, s, "ask")
    /\ proc[p].mutex = "free"
    /\ session[p][s].name \notin proc[p].arch_map
    /\ proc' = [proc EXCEPT ![p].mutex = s]
    /\ GoTo(p, s, "check")
    /\ UNCHANGED <<storage, sem, starts, reboots, history>>

\* Mutant: the file is taken for a new one whatever the test says.
CheckExistsNot(p, s) ==
    /\ At(p, s, "check")
    /\ session' = [session EXCEPT ![p][s].init = TRUE, ![p][s].pc = "create"]
    /\ UNCHANGED <<proc, storage, sem, starts, reboots, history>>

\* check_if_file_exists. Whether the path is raced for is history.
CheckExists(p, s) ==
    LET f == PathOf(p, s)
        absent == file[f] = "absent"
    IN  /\ At(p, s, "check")
        /\ session' = [session EXCEPT ![p][s].init = absent,
                                      ![p][s].pc = IF absent THEN "create" ELSE "wait"]
        /\ Excuse({g \in {f} : \E q \in Procs \ {p} : Creates(q, g)}, "creation race")
        /\ UNCHANGED <<proc, file, writes, sem, starts, reboots, promised, lost>>

\* create_empty_file, which truncates what is there by now; then the file and
\* the semaphore are opened.
CreateEmpty(p, s) ==
    LET f == PathOf(p, s)
    IN  /\ At(p, s, "create")
        /\ file' = [file EXCEPT ![f] = "empty"]
        /\ writes' = [writes EXCEPT ![f] = 0]
        /\ GoTo(p, s, "wait")
        /\ UNCHANGED <<proc, sem, starts, reboots, history>>

\* Access is granted: the semaphore of the absolute path goes down. Alone, the
\* mutant of SemWait: a semaphore that does not block.
Grant(p, s) ==
    /\ At(p, s, "wait")
    /\ sem' = [sem EXCEPT ![PathOf(p, s)] = @ - 1]
    /\ GoTo(p, s, IF session[p][s].init THEN "init" ELSE "load")
    /\ UNCHANGED <<proc, storage, starts, reboots, history>>

\* sem_wait.
SemWait(p, s) == sem[PathOf(p, s)] > 0 /\ Grant(p, s)

\* hza_init writes the version and an END marker behind it.
HzaInit(p, s) ==
    LET f == PathOf(p, s)
    IN  /\ At(p, s, "init")
        /\ file' = [file EXCEPT ![f] = "ended"]
        /\ writes' = [writes EXCEPT ![f] = 0]
        /\ session' = [session EXCEPT ![p][s].pc = "load", ![p][s].init = FALSE]
        /\ UNCHANGED <<proc, sem, starts, reboots, history>>

\* load() finds the END marker; the archive enters the map and m is the mutex of
\* the provider.
Loaded(p, s, m) ==
    /\ At(p, s, "load")
    /\ file[PathOf(p, s)] = "ended"
    /\ proc' = [proc EXCEPT ![p].mutex = m, ![p].arch_map = @ \cup {session[p][s].name}]
    /\ GoTo(p, s, "held")
    /\ UNCHANGED <<storage, sem, starts, reboots, history>>

\* Mutant: the mutex of the provider stays locked.
LoadKeepsMutex(p, s) == Loaded(p, s, s)

\* load(), after which provide() unlocks.
Load(p, s) == Loaded(p, s, "free")

\* load() throws at an unknown version: the provider's mutex stays locked, and
\* the archive is dropped without posting its semaphore.
LoadThrows(p, s) ==
    /\ At(p, s, "load")
    /\ file[PathOf(p, s)] = "foreign"
    /\ proc' = [proc EXCEPT ![p].mutex = "leaked"]
    /\ Leave(p, s)
    /\ lost' = lost \cup {PathOf(p, s)}
    /\ UNCHANGED <<file, writes, sem, starts, reboots, promised, excuse>>

\* load() finds no END marker and reads on.
LoadLost(p, s) ==
    /\ At(p, s, "load")
    /\ file[PathOf(p, s)] \in {"empty", "dirty"}
    /\ GoTo(p, s, "spin")
    /\ UNCHANGED <<proc, storage, sem, starts, reboots, history>>

-----------------------------------------------------------------------------
(* Use of an archive *)

\* An operation locks the mutex of the archive.
Begin(p, s) ==
    LET n == session[p][s].name
    IN  /\ At(p, s, "held")
        /\ proc[p].busy[n] = "free"
        /\ proc' = [proc EXCEPT ![p].busy[n] = s]
        /\ GoTo(p, s, "op")
        /\ UNCHANGED <<storage, sem, starts, reboots, history>>

\* It writes at the end of the archive, over the END marker, and unlocks. Through
\* an archive the handler has closed this is a late write.
Write(p, s) ==
    LET n == session[p][s].name
        f == Absolute[n]
    IN  /\ At(p, s, "op")
        /\ writes[f] < MaxWrites
        /\ file' = [file EXCEPT ![f] = "dirty"]
        /\ writes' = [writes EXCEPT ![f] = @ + 1]
        /\ Excuse({Absolute[m] : m \in {n} \cap proc[p].closed}, "late write")
        /\ proc' = [proc EXCEPT ![p].busy[n] = "free"]
        /\ GoTo(p, s, "held")
        /\ UNCHANGED <<sem, starts, reboots, promised, lost>>

\* It reads, or throws and unlocks.
Read(p, s) ==
    /\ At(p, s, "op")
    /\ proc' = [proc EXCEPT ![p].busy[session[p][s].name] = "free"]
    /\ GoTo(p, s, "held")
    /\ UNCHANGED <<storage, sem, starts, reboots, history>>

\* The trie throws, and the mutex of the archive stays locked.
Throw(p, s) ==
    /\ At(p, s, "op")
    /\ proc' = [proc EXCEPT ![p].busy[session[p][s].name] = "leaked"]
    /\ Leave(p, s)
    /\ UNCHANGED <<storage, sem, starts, reboots, history>>

\* The command ends.
EndCommand(p, s) ==
    /\ At(p, s, "held")
    /\ Leave(p, s)
    /\ UNCHANGED <<proc, storage, sem, starts, reboots, history>>

-----------------------------------------------------------------------------
(* Start, shutdown and death of a process *)

Start(p) ==
    /\ ~proc[p].up
    /\ starts[p] < MaxStarts
    /\ starts' = [starts EXCEPT ![p] = @ + 1]
    /\ proc' = [proc EXCEPT ![p] = Started]
    /\ UNCHANGED <<session, storage, sem, reboots, history>>

\* A signal: its handler runs on the main thread (v = "free"), or on the thread
\* of the session whose fault raised it, inside provide() or an operation. At
\* most one signal is handled.
Signal(p, v) ==
    /\ proc[p].up
    /\ v # "free" => session[p][v].pc \in Providing \cup {"op"}
    /\ proc[p].handler = "none"
    /\ proc' = [proc EXCEPT ![p].handler = "lock", ![p].victim = v]
    /\ UNCHANGED <<session, storage, sem, starts, reboots, history>>

\* ArchiveProvider::close locks the mutex of the provider.
CloseLock(p) ==
    /\ proc[p].up
    /\ proc[p].handler = "lock"
    /\ proc[p].mutex = "free"
    /\ proc' = [proc EXCEPT ![p].mutex = "handler", ![p].handler = "close"]
    /\ UNCHANGED <<session, storage, sem, starts, reboots, history>>

\* HZ_Archive::close, under the mutex of the archive: it leaves the file in state
\* end and posts the semaphore; the archives in done are closed.
Closing(p, n, end, post, done) ==
    LET f == Absolute[n]
    IN  /\ proc[p].up
        /\ proc[p].handler = "close"
        /\ n \in proc[p].arch_map \ proc[p].closed
        /\ proc[p].busy[n] = "free"
        /\ file' = [file EXCEPT ![f] = end]
        /\ promised' = [promised EXCEPT ![f] = writes[f]]
        /\ sem' = [sem EXCEPT ![f] = @ + post]
        /\ proc' = [proc EXCEPT ![p].closed = @ \cup done]
        /\ UNCHANGED <<session, writes, starts, reboots, excuse, lost>>

\* Mutants: the semaphore is not posted; an archive is closed twice.
CloseWithoutPost(p, n) == Closing(p, n, "ended", 0, {n})
CloseAgain(p, n) == Closing(p, n, "ended", 1, {})

\* The END marker is written and flushed, then the semaphore is posted.
Close(p, n) == Closing(p, n, "ended", 1, {n})

\* All are closed; the mutex is free again, and the server's socket goes.
CloseUnlock(p) ==
    /\ proc[p].up
    /\ proc[p].handler = "close"
    /\ proc[p].arch_map \subseteq proc[p].closed
    /\ proc' = [proc EXCEPT ![p].mutex = "free", ![p].handler = "exit"]
    /\ UNCHANGED <<session, storage, sem, starts, reboots, history>>

\* The paths whose semaphore this process has waited for and not posted.
Granted(p) ==
    {Absolute[n] : n \in proc[p].arch_map \ proc[p].closed}
    \cup {PathOf(p, s) : s \in {t \in Sessions : session[p][t].pc \in {"init", "load", "spin"}}}

Dies(p) ==
    /\ proc[p].up
    /\ proc' = [proc EXCEPT ![p] = Gone]
    /\ session' = [session EXCEPT ![p] = [s \in Sessions |-> NoSession]]
    /\ lost' = lost \cup Granted(p)
    /\ Excuse({f \in Paths : Creates(p, f)}, "creation cut short")

\* exit(), with whatever a session has opened since.
Exit(p) ==
    /\ proc[p].handler = "exit"
    /\ Dies(p)
    /\ UNCHANGED <<file, writes, sem, starts, reboots, promised>>

\* The process is killed: nothing is closed, no semaphore is posted.
Crash(p) ==
    /\ Dies(p)
    /\ UNCHANGED <<file, writes, sem, starts, reboots, promised>>

\* The machine restarts: semaphores are new, and of an archive that was open
\* either the last flush is left or a part of what was written since.
Reboot ==
    /\ reboots < MaxReboots
    /\ \E back \in SUBSET {f \in Paths : file[f] = "dirty"} :
          /\ file' = [f \in Paths |-> IF f \in back THEN "ended" ELSE file[f]]
          /\ writes' = [f \in Paths |-> IF f \in back THEN promised[f] ELSE writes[f]]
    /\ reboots' = reboots + 1
    /\ proc' = [p \in Procs |-> Gone]
    /\ session' = [p \in Procs |-> [s \in Sessions |-> NoSession]]
    /\ sem' = [f \in Paths |-> 1]
    /\ lost' = {}
    /\ Excuse({f \in Paths : file[f] \in {"empty", "dirty"}}, "restart")
    /\ UNCHANGED <<starts, promised>>

-----------------------------------------------------------------------------

\* The steps of a session inside provide() or an operation.
Provide(p, s) ==
    \/ ProvideKnown(p, s) \/ ProvideNew(p, s)
    \/ CheckExists(p, s) \/ CreateEmpty(p, s) \/ SemWait(p, s) \/ HzaInit(p, s)
    \/ Load(p, s) \/ LoadThrows(p, s) \/ LoadLost(p, s)

Operate(p, s) == Write(p, s) \/ Read(p, s) \/ Throw(p, s)

Shutdown(p) ==
    \/ CloseLock(p) \/ CloseUnlock(p) \/ Exit(p)
    \/ \E n \in Names : Close(p, n)

Next ==
    \/ \E p \in Procs, s \in Sessions :
          \/ \E n \in Names : Ask(p, s, n)
          \/ Provide(p, s)
          \/ Begin(p, s)
          \/ Operate(p, s)
          \/ EndCommand(p, s)
    \/ \E p \in Procs : \/ Start(p)
                        \/ \E v \in Sessions \cup {"free"} : Signal(p, v)
                        \/ Shutdown(p)
                        \/ Crash(p)
    \/ Reboot

Spec == Init /\ [][Next]_vars

\* Threads that run go on; nobody has to ask, signal, kill or start anything.
Fairness ==
    \A p \in Procs : /\ WF_vars(Shutdown(p))
                     /\ \A s \in Sessions : WF_vars(Provide(p, s)) /\ WF_vars(Operate(p, s))

FairSpec == Spec /\ Fairness

-----------------------------------------------------------------------------
(* Properties *)

TypeOK ==
    /\ proc \in [Procs -> ProcRecord]
    /\ session \in [Procs -> [Sessions -> SessionRecord]]
    /\ file \in [Paths -> FileStates]
    /\ writes \in [Paths -> 0..MaxWrites]
    /\ sem \in [Paths -> Nat]
    /\ starts \in [Procs -> 0..MaxStarts]
    /\ reboots \in 0..MaxReboots
    /\ promised \in [Paths -> 0..MaxWrites]
    /\ excuse \in [Paths -> Excuses]
    /\ lost \in SUBSET Paths

\* Every grant of access to a path: open archives, and archives being opened.
Opened(f) ==
    {g \in Procs \X Names : g[2] \in proc[g[1]].arch_map \ proc[g[1]].closed /\ Absolute[g[2]] = f}

Opening(f) ==
    {g \in Procs \X Sessions : /\ session[g[1]][g[2]].pc \in {"init", "load", "spin"}
                              /\ PathOf(g[1], g[2]) = f}

\* A file has at most one archive over it, in all processes and under all names,
\* and its semaphore is free exactly when it has none and nobody died with it or
\* dropped it: archive.cpp:39 takes it once and archive.cpp:797 posts it once.
SemaphoreConserved ==
    \A f \in Paths :
        sem[f] + Cardinality(Opened(f)) + Cardinality(Opening(f)) + (IF f \in lost THEN 1 ELSE 0) = 1

\* What an archive held when close() wrote the END marker stays in the file, no
\* later opening initialises or truncates it, and hza_scan meets an END marker
\* (archive.cpp:66); unless the file was created by two processes at once, its
\* creation was cut short, the machine went down while it was open, or a session
\* wrote after the signal handler had closed it.
ClosedArchivesKept ==
    \A f \in Paths : excuse[f] = "none" =>
        /\ writes[f] >= promised[f]
        /\ \A p \in Procs, s \in Sessions : session[p][s].pc = "spin" => PathOf(p, s) # f

\* Why a shutdown cannot go on: the mutex of the provider is held by a session
\* that waits for a semaphore, scans without end or was stopped by the signal, or
\* an exception left it locked; or so for the mutex of an archive.
Hung(p) ==
    \/ proc[p].mutex = "leaked"
    \/ /\ proc[p].mutex \in Sessions
       /\ LET s == proc[p].mutex IN
             \/ s = proc[p].victim
             \/ session[p][s].pc = "spin"
             \/ session[p][s].pc = "wait" /\ sem[PathOf(p, s)] = 0
    \/ \E n \in proc[p].arch_map \ proc[p].closed :
          \/ proc[p].busy[n] = "leaked"
          \/ proc[p].busy[n] \in Sessions /\ proc[p].busy[n] = proc[p].victim

InUse(p) == \E n \in Names : proc[p].busy[n] \in Sessions

\* A signal ends the process (main.cpp:23-27): one that stays on hangs for one of
\* the reasons above, or its sessions use an archive again and again.
ShutdownEnds ==
    \A p \in Procs :
        <>[](proc[p].up /\ proc[p].handler # "none") => <>[]Hung(p) \/ []<>InUse(p)

\* A session that waits for ever in sem_wait (archive.cpp:39) waits for an archive
\* that a process has open, or that one left without posting its semaphore.
WaitsForHolder ==
    \A p \in Procs, s \in Sessions, f \in Paths :
        LET Waits == At(p, s, "wait") /\ PathOf(p, s) = f
        IN  <>[]Waits => <>[](f \in lost \/ \E q \in Procs : f \in Granted(q))

=============================================================================
