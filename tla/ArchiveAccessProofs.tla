------------------------- MODULE ArchiveAccessProofs -------------------------
(***************************************************************************)
(* For any processes, sessions, names and paths: the types of              *)
(* ArchiveAccess, and that the named semaphore of a path lets in one       *)
(* archive at a time and is neither lost nor posted twice, through         *)
(* signals, kills and restarts, except where a process that held it is     *)
(* gone; and that what was in an archive when it was closed stays in it.   *)
(***************************************************************************)
EXTENDS ArchiveAccess, FiniteSetTheorems, TLAPS

\* p has an archive of name n open.
IsOpen(p, n) == n \in proc[p].arch_map /\ n \notin proc[p].closed

\* Session s of p has been granted access and is opening the archive.
IsOpening(p, s) == session[p][s].pc \in {"init", "load", "spin"}

\* Who is inside provide() holds the mutex of the provider, and opens an archive
\* the provider does not have.
ProvidersExclude ==
    \A p \in Procs, s \in Sessions :
        session[p][s].pc \in Providing =>
            proc[p].mutex = s /\ session[p][s].name \notin proc[p].arch_map

\* A process that is gone has nothing; the handler closes archives with the mutex
\* of the provider locked.
HandlersExclude ==
    \A p \in Procs :
        /\ ~proc[p].up => proc[p] = Gone /\ \A s \in Sessions : session[p][s] = NoSession
        /\ proc[p].handler = "close" => proc[p].mutex = "handler"
        /\ proc[p].closed \subseteq proc[p].arch_map

\* The semaphore is 0 or 1, and if it is 0, somebody has it or it is lost.
SemaphoreTaken ==
    \A f \in Paths :
        /\ sem[f] \in {0, 1}
        /\ sem[f] = 0 => \/ f \in lost
                         \/ \E p \in Procs, n \in Names : IsOpen(p, n) /\ Absolute[n] = f
                         \/ \E p \in Procs, s \in Sessions : IsOpening(p, s) /\ PathOf(p, s) = f

\* Nobody has a semaphore that is free or lost.
HoldersTook ==
    /\ \A p \in Procs, n \in Names :
          IsOpen(p, n) => sem[Absolute[n]] = 0 /\ Absolute[n] \notin lost
    /\ \A p \in Procs, s \in Sessions :
          IsOpening(p, s) => sem[PathOf(p, s)] = 0 /\ PathOf(p, s) \notin lost
    /\ \A f \in lost : sem[f] = 0

\* Two that have a semaphore of one path are one.
HoldersExclude ==
    /\ \A p, q \in Procs, n, m \in Names :
          IsOpen(p, n) /\ IsOpen(q, m) /\ Absolute[n] = Absolute[m] => p = q /\ n = m
    /\ \A p, q \in Procs, s, t \in Sessions :
          IsOpening(p, s) /\ IsOpening(q, t) /\ PathOf(p, s) = PathOf(q, t) => p = q /\ s = t
    /\ \A p, q \in Procs, n \in Names, s \in Sessions :
          IsOpen(p, n) /\ IsOpening(q, s) => Absolute[n] # PathOf(q, s)

Exclusion == SemaphoreTaken /\ HoldersTook /\ HoldersExclude

\* The inductive invariant.
Safe == TypeOK /\ ProvidersExclude /\ HandlersExclude /\ Exclusion

-----------------------------------------------------------------------------
LEMMA RecordTypes ==
    /\ Started \in ProcRecord /\ Gone \in ProcRecord /\ NoSession \in SessionRecord
    /\ Started.arch_map = {} /\ Gone.arch_map = {} /\ ~Gone.up
    /\ NoSession.pc = "idle"
<1>1. (CHOOSE n \in Names : TRUE) \in Names
  BY AccessAssumption
<1> QED BY <1>1 DEF Started, Gone, NoSession, ProcRecord, SessionRecord, SessionStates, HandlerStates

LEMMA InitSafe == Init => Safe
<1> SUFFICES ASSUME Init PROVE Safe
  OBVIOUS
<1> USE RecordTypes, AccessAssumption DEF Init
<1>1. TypeOK
  BY DEF TypeOK, FileStates, Excuses
<1>2. ProvidersExclude /\ HandlersExclude
  BY DEF ProvidersExclude, HandlersExclude, Providing, Gone, Started
<1>3. Exclusion
  BY DEF Exclusion, SemaphoreTaken, HoldersTook, HoldersExclude, IsOpen, IsOpening
<1> QED BY <1>1, <1>2, <1>3 DEF Safe

-----------------------------------------------------------------------------
(* What a step changes for one session or one process *)

LEMMA SessionMoves ==
    ASSUME TypeOK, NEW p \in Procs, NEW s \in Sessions, NEW r \in SessionRecord,
           session' = [session EXCEPT ![p][s] = r]
    PROVE  /\ session' \in [Procs -> [Sessions -> SessionRecord]]
           /\ session'[p][s] = r
           /\ \A q \in Procs, t \in Sessions :
                 q # p \/ t # s => session'[q][t] = session[q][t]
BY DEF TypeOK

LEMMA GoToMoves ==
    ASSUME TypeOK, NEW p \in Procs, NEW s \in Sessions, NEW pc \in SessionStates, GoTo(p, s, pc)
    PROVE  /\ session' \in [Procs -> [Sessions -> SessionRecord]]
           /\ session'[p][s].pc = pc /\ session'[p][s].name = session[p][s].name
           /\ session'[p][s].init = session[p][s].init
           /\ \A q \in Procs, t \in Sessions :
                 q # p \/ t # s => session'[q][t] = session[q][t]
<1> DEFINE r == [session[p][s] EXCEPT !.pc = pc]
<1>1. session[p][s] \in SessionRecord
  BY DEF TypeOK
<1>2. r \in SessionRecord /\ r.pc = pc /\ r.name = session[p][s].name /\ r.init = session[p][s].init
  BY <1>1 DEF SessionRecord
<1>3. session' = [session EXCEPT ![p][s] = r]
  BY DEF GoTo, TypeOK
<1> QED BY <1>2, <1>3, SessionMoves

LEMMA ProcMoves ==
    ASSUME TypeOK, NEW p \in Procs, NEW r \in ProcRecord, proc' = [proc EXCEPT ![p] = r]
    PROVE  /\ proc' \in [Procs -> ProcRecord]
           /\ proc'[p] = r
           /\ \A q \in Procs : q # p => proc'[q] = proc[q]
BY DEF TypeOK

LEMMA ExcuseTypes ==
    ASSUME TypeOK, NEW P, NEW why \in Excuses, Excuse(P, why)
    PROVE  excuse' \in [Paths -> Excuses]
BY DEF TypeOK, Excuse

-----------------------------------------------------------------------------
(* Types *)

LEMMA SessionTypes ==
    ASSUME TypeOK, NEW p \in Procs, NEW s \in Sessions,
           \/ \E n \in Names : Ask(p, s, n)
           \/ Provide(p, s) \/ Begin(p, s) \/ Operate(p, s) \/ EndCommand(p, s)
    PROVE  TypeOK'
<1> USE AccessAssumption, RecordTypes DEF SessionStates, Providing
<1>1. session[p][s] \in SessionRecord /\ proc[p] \in ProcRecord
  BY DEF TypeOK
<1>2. PathOf(p, s) \in Paths /\ session[p][s].name \in Names
  BY <1>1 DEF PathOf, SessionRecord
<1>3. ASSUME NEW n \in Names, Ask(p, s, n) PROVE TypeOK'
  <2>1. [pc |-> "ask", name |-> n, init |-> FALSE] \in SessionRecord
    BY DEF SessionRecord
  <2> QED BY <1>3, <2>1, SessionMoves DEF Ask, TypeOK, storage, history
<1>4. CASE ProvideKnown(p, s)
  BY <1>4, GoToMoves DEF ProvideKnown, TypeOK, storage, history
<1>5. CASE ProvideNew(p, s)
  <2>1. [proc[p] EXCEPT !.mutex = s] \in ProcRecord
    BY <1>1 DEF ProcRecord
  <2> QED BY <1>5, <2>1, GoToMoves, ProcMoves DEF ProvideNew, TypeOK, storage, history
<1>6. CASE CheckExists(p, s)
  <2> DEFINE absent == file[PathOf(p, s)] = "absent"
             r == [session[p][s] EXCEPT !.init = absent, !.pc = IF absent THEN "create" ELSE "wait"]
  <2>1. r \in SessionRecord
    BY <1>1 DEF SessionRecord
  <2>2. session' = [session EXCEPT ![p][s] = r]
    BY <1>6 DEF CheckExists, TypeOK
  <2>3. session' \in [Procs -> [Sessions -> SessionRecord]]
    BY <2>1, <2>2, SessionMoves
  <2>4. excuse' \in [Paths -> Excuses]
    BY <1>6, ExcuseTypes DEF CheckExists, Excuses
  <2> QED BY <1>6, <2>3, <2>4 DEF CheckExists, TypeOK
<1>7. CASE CreateEmpty(p, s)
  BY <1>2, <1>7, GoToMoves DEF CreateEmpty, TypeOK, FileStates, history
<1>8. CASE SemWait(p, s)
  BY <1>2, <1>8, GoToMoves DEF SemWait, Grant, TypeOK, storage, history
<1>9. CASE HzaInit(p, s)
  <2> DEFINE r == [session[p][s] EXCEPT !.pc = "load", !.init = FALSE]
  <2>1. r \in SessionRecord
    BY <1>1 DEF SessionRecord
  <2>2. session' = [session EXCEPT ![p][s] = r]
    BY <1>9 DEF HzaInit, TypeOK
  <2>3. session' \in [Procs -> [Sessions -> SessionRecord]]
    BY <2>1, <2>2, SessionMoves
  <2> QED BY <1>2, <1>9, <2>3 DEF HzaInit, TypeOK, FileStates, history
<1>10. CASE Load(p, s)
  <2> DEFINE r == [proc[p] EXCEPT !.mutex = "free", !.arch_map = @ \cup {session[p][s].name}]
  <2>1. r \in ProcRecord
    BY <1>1, <1>2 DEF ProcRecord
  <2>2. proc' = [proc EXCEPT ![p] = r]
    BY <1>10 DEF Load, Loaded, TypeOK
  <2> QED BY <1>10, <2>1, <2>2, GoToMoves, ProcMoves DEF Load, Loaded, TypeOK, storage, history
<1>11. CASE LoadThrows(p, s)
  <2>1. [proc[p] EXCEPT !.mutex = "leaked"] \in ProcRecord
    BY <1>1 DEF ProcRecord
  <2> QED BY <1>2, <1>11, <2>1, SessionMoves, ProcMoves DEF LoadThrows, Leave, TypeOK
<1>12. CASE LoadLost(p, s)
  BY <1>12, GoToMoves DEF LoadLost, TypeOK, storage, history
<1>13. ASSUME NEW b \in Sessions \cup {"free", "leaked"},
              proc' = [proc EXCEPT ![p].busy[session[p][s].name] = b]
       PROVE  proc' \in [Procs -> ProcRecord]
  <2> DEFINE r == [proc[p] EXCEPT !.busy[session[p][s].name] = b]
  <2>1. r \in ProcRecord
    BY <1>1, <1>2 DEF ProcRecord
  <2>2. proc' = [proc EXCEPT ![p] = r]
    BY <1>13 DEF TypeOK
  <2> QED BY <2>1, <2>2, ProcMoves
<1>14. CASE Begin(p, s)
  BY <1>13, <1>14, GoToMoves DEF Begin, TypeOK, storage, history
<1>15. CASE Write(p, s)
  <2>1. excuse' \in [Paths -> Excuses]
    BY <1>15, ExcuseTypes DEF Write, Excuses
  <2>2. proc' \in [Procs -> ProcRecord] /\ session' \in [Procs -> [Sessions -> SessionRecord]]
    BY <1>13, <1>15, GoToMoves DEF Write
  <2>3. file' \in [Paths -> FileStates] /\ writes' \in [Paths -> 0..MaxWrites]
    <3> DEFINE f == PathOf(p, s)
    <3>1. writes[f] \in 0..MaxWrites /\ writes[f] < MaxWrites
      BY <1>2, <1>15 DEF Write, PathOf, TypeOK
    <3>2. writes[f] + 1 \in 0..MaxWrites
      BY <3>1
    <3>3. file' = [file EXCEPT ![f] = "dirty"] /\ writes' = [writes EXCEPT ![f] = writes[f] + 1]
      BY <1>15 DEF Write, PathOf
    <3> QED BY <1>2, <3>2, <3>3 DEF TypeOK, FileStates
  <2> QED BY <1>15, <2>1, <2>2, <2>3 DEF Write, TypeOK
<1>16. CASE Read(p, s)
  BY <1>13, <1>16, GoToMoves DEF Read, TypeOK, storage, history
<1>17. CASE Throw(p, s)
  BY <1>13, <1>17, SessionMoves DEF Throw, Leave, TypeOK, storage, history
<1>18. CASE EndCommand(p, s)
  BY <1>18, SessionMoves DEF EndCommand, Leave, TypeOK, storage, history
<1> QED BY <1>3, <1>4, <1>5, <1>6, <1>7, <1>8, <1>9, <1>10, <1>11, <1>12, <1>14, <1>15, <1>16, <1>17,
           <1>18 DEF Provide, Operate

LEMMA ProcessTypes ==
    ASSUME TypeOK, NEW p \in Procs,
           \/ Start(p) \/ \E v \in Sessions \cup {"free"} : Signal(p, v)
           \/ Shutdown(p) \/ Crash(p)
    PROVE  TypeOK'
<1> USE AccessAssumption, RecordTypes
<1>1. proc[p] \in ProcRecord
  BY DEF TypeOK
<1>2. CASE Start(p)
  <2>1. proc' \in [Procs -> ProcRecord]
    BY <1>2, ProcMoves DEF Start
  <2>2. starts[p] + 1 \in 0..MaxStarts
    BY <1>2 DEF Start, TypeOK
  <2> QED BY <1>2, <2>1, <2>2 DEF Start, TypeOK, storage, history
<1>3. ASSUME NEW v \in Sessions \cup {"free"}, Signal(p, v) PROVE TypeOK'
  <2> DEFINE r == [proc[p] EXCEPT !.handler = "lock", !.victim = v]
  <2>1. r \in ProcRecord
    BY <1>1 DEF ProcRecord, HandlerStates
  <2>2. proc' = [proc EXCEPT ![p] = r]
    BY <1>3 DEF Signal, TypeOK
  <2> QED BY <1>3, <2>1, <2>2, ProcMoves DEF Signal, TypeOK, storage, history
<1>4. CASE CloseLock(p)
  <2> DEFINE r == [proc[p] EXCEPT !.mutex = "handler", !.handler = "close"]
  <2>1. r \in ProcRecord
    BY <1>1 DEF ProcRecord, HandlerStates
  <2>2. proc' = [proc EXCEPT ![p] = r]
    BY <1>4 DEF CloseLock, TypeOK
  <2> QED BY <1>4, <2>1, <2>2, ProcMoves DEF CloseLock, TypeOK, storage, history
<1>5. ASSUME NEW n \in Names, Close(p, n) PROVE TypeOK'
  <2> DEFINE r == [proc[p] EXCEPT !.closed = @ \cup {n}]
             f == Absolute[n]
  <2>1. r \in ProcRecord /\ f \in Paths
    BY <1>1 DEF ProcRecord
  <2>2. proc' = [proc EXCEPT ![p] = r]
    BY <1>5 DEF Close, Closing, TypeOK
  <2>3. sem[f] + 1 \in Nat
    BY <2>1 DEF TypeOK
  <2> QED BY <1>5, <2>1, <2>2, <2>3, ProcMoves DEF Close, Closing, TypeOK, FileStates
<1>6. CASE CloseUnlock(p)
  <2> DEFINE r == [proc[p] EXCEPT !.mutex = "free", !.handler = "exit"]
  <2>1. r \in ProcRecord
    BY <1>1 DEF ProcRecord, HandlerStates
  <2>2. proc' = [proc EXCEPT ![p] = r]
    BY <1>6 DEF CloseUnlock, TypeOK
  <2> QED BY <1>6, <2>1, <2>2, ProcMoves DEF CloseUnlock, TypeOK, storage, history
<1>7. CASE Exit(p) \/ Crash(p)
  <2>1. Dies(p) /\ UNCHANGED <<file, writes, sem, starts, reboots, promised>>
    BY <1>7 DEF Exit, Crash
  <2>2. excuse' \in [Paths -> Excuses]
    BY <2>1, ExcuseTypes DEF Dies, Excuses
  <2>3. session' \in [Procs -> [Sessions -> SessionRecord]]
    BY <2>1 DEF Dies, TypeOK
  <2>4. Granted(p) \subseteq Paths
    BY <1>1 DEF Granted, PathOf, TypeOK, ProcRecord, SessionRecord
  <2> QED BY <2>1, <2>2, <2>3, <2>4, ProcMoves DEF Dies, TypeOK
<1> QED BY <1>2, <1>3, <1>4, <1>5, <1>6, <1>7 DEF Shutdown

LEMMA RebootTypes == TypeOK /\ Reboot => TypeOK'
<1> SUFFICES ASSUME TypeOK, Reboot PROVE TypeOK'
  OBVIOUS
<1>1. excuse' \in [Paths -> Excuses]
  BY ExcuseTypes DEF Reboot, Excuses
<1>2. file' \in [Paths -> FileStates] /\ writes' \in [Paths -> 0..MaxWrites]
  BY DEF Reboot, TypeOK, FileStates
<1>3. reboots' \in 0..MaxReboots
  BY AccessAssumption DEF Reboot, TypeOK
<1> QED BY <1>1, <1>2, <1>3, RecordTypes DEF Reboot, TypeOK

LEMMA NextTypes == TypeOK /\ [Next]_vars => TypeOK'
<1>1. TypeOK /\ UNCHANGED vars => TypeOK'
  BY DEF vars, storage, history, TypeOK
<1> QED BY <1>1, SessionTypes, ProcessTypes, RebootTypes DEF Next

\* Every value stays of its type.
THEOREM TypeCorrect == Spec => []TypeOK
<1>1. Init => TypeOK
  BY InitSafe DEF Safe
<1> QED BY <1>1, NextTypes, PTL DEF Spec

-----------------------------------------------------------------------------
(* What the steps of a session do to the access to archives *)

\* Session s of p goes to pc with name n, the mutex of the provider to m and its map
\* to a; nobody else notices.
Moves(p, s, pc, n, m, a) ==
    /\ session'[p][s].pc = pc /\ session'[p][s].name = n
    /\ \A q \in Procs, t \in Sessions : q # p \/ t # s => session'[q][t] = session[q][t]
    /\ \A q \in Procs : q # p => proc'[q] = proc[q]
    /\ proc'[p].up = proc[p].up
    /\ proc'[p].handler = proc[p].handler
    /\ proc'[p].closed = proc[p].closed
    /\ proc'[p].mutex = m
    /\ proc'[p].arch_map = a

\* The session stays outside provide(), with access to nothing of its own.
Outside(p, s) ==
    /\ session[p][s].pc \in {"idle", "ask", "held", "op"}
    /\ \E pc \in {"idle", "ask", "held", "op"}, n \in Names :
          Moves(p, s, pc, n, proc[p].mutex, proc[p].arch_map)
    /\ sem' = sem /\ lost' = lost

\* It enters provide(), or goes on in it without access.
Inside(p, s) ==
    /\ \/ session[p][s].pc \in {"check", "create"}
       \/ /\ session[p][s].pc = "ask"
          /\ proc[p].mutex = "free"
          /\ session[p][s].name \notin proc[p].arch_map
    /\ \E pc \in {"check", "create", "wait"} :
          Moves(p, s, pc, session[p][s].name, s, proc[p].arch_map)
    /\ sem' = sem /\ lost' = lost

\* It goes on with access.
Opens(p, s) ==
    /\ session[p][s].pc \in {"init", "load"}
    /\ \E pc \in {"load", "spin"} :
          Moves(p, s, pc, session[p][s].name, s, proc[p].arch_map)
    /\ sem' = sem /\ lost' = lost

\* It is granted access.
Gains(p, s) ==
    /\ session[p][s].pc = "wait" /\ sem[PathOf(p, s)] > 0
    /\ \E pc \in {"init", "load"} :
          Moves(p, s, pc, session[p][s].name, s, proc[p].arch_map)
    /\ sem' = [sem EXCEPT ![PathOf(p, s)] = @ - 1]
    /\ lost' = lost

\* Its access goes over to the archive in the map.
Enters(p, s) ==
    /\ session[p][s].pc = "load"
    /\ Moves(p, s, "held", session[p][s].name, "free", proc[p].arch_map \cup {session[p][s].name})
    /\ sem' = sem /\ lost' = lost

\* Its access is lost.
Drops(p, s) ==
    /\ session[p][s].pc = "load"
    /\ \E n \in Names : Moves(p, s, "idle", n, "leaked", proc[p].arch_map)
    /\ sem' = sem /\ lost' = lost \cup {PathOf(p, s)}

LEMMA SessionEffects ==
    ASSUME TypeOK, ProvidersExclude, NEW p \in Procs, NEW s \in Sessions,
           \/ \E n \in Names : Ask(p, s, n)
           \/ Provide(p, s) \/ Begin(p, s) \/ Operate(p, s) \/ EndCommand(p, s)
    PROVE  \/ Outside(p, s) \/ Inside(p, s) \/ Opens(p, s)
           \/ Gains(p, s) \/ Enters(p, s) \/ Drops(p, s)
<1> USE AccessAssumption, RecordTypes DEF SessionStates, Providing
<1> DEFINE e == session[p][s]
<1>1. e \in SessionRecord /\ proc[p] \in ProcRecord /\ e.name \in Names /\ NoSession.name \in Names
  BY DEF TypeOK, SessionRecord
<1>2. e.pc \in Providing => proc[p].mutex = s
  BY DEF ProvidersExclude
<1>3. ASSUME proc' = proc, NEW pc \in SessionStates, GoTo(p, s, pc)
      PROVE  Moves(p, s, pc, e.name, proc[p].mutex, proc[p].arch_map)
  BY <1>3, GoToMoves DEF Moves
<1>4. ASSUME NEW b \in Sessions \cup {"free", "leaked"},
             proc' = [proc EXCEPT ![p].busy[e.name] = b]
      PROVE  /\ \A q \in Procs : q # p => proc'[q] = proc[q]
             /\ proc'[p].up = proc[p].up /\ proc'[p].handler = proc[p].handler
             /\ proc'[p].closed = proc[p].closed /\ proc'[p].mutex = proc[p].mutex
             /\ proc'[p].arch_map = proc[p].arch_map
  <2> DEFINE r == [proc[p] EXCEPT !.busy[e.name] = b]
  <2>1. r \in ProcRecord /\ r.up = proc[p].up /\ r.handler = proc[p].handler
        /\ r.closed = proc[p].closed /\ r.mutex = proc[p].mutex /\ r.arch_map = proc[p].arch_map
    BY <1>1 DEF ProcRecord
  <2>2. proc' = [proc EXCEPT ![p] = r]
    BY <1>4 DEF TypeOK
  <2> QED BY <2>1, <2>2, ProcMoves
<1>5. ASSUME NEW b \in Sessions \cup {"free", "leaked"}, NEW pc \in SessionStates,
             proc' = [proc EXCEPT ![p].busy[e.name] = b],
             GoTo(p, s, pc)
      PROVE  Moves(p, s, pc, e.name, proc[p].mutex, proc[p].arch_map)
  BY <1>4, <1>5, GoToMoves DEF Moves
<1>6. ASSUME NEW r \in SessionRecord, session' = [session EXCEPT ![p][s] = r]
      PROVE  /\ session'[p][s].pc = r.pc /\ session'[p][s].name = r.name
             /\ \A q \in Procs, t \in Sessions :
                   q # p \/ t # s => session'[q][t] = session[q][t]
  <2>1. session'[p][s] = r
    BY <1>6, SessionMoves
  <2>2. \A q \in Procs, t \in Sessions : q # p \/ t # s => session'[q][t] = session[q][t]
    BY <1>6, SessionMoves
  <2> QED BY <2>1, <2>2
<1>7. ASSUME NEW n \in Names, Ask(p, s, n) PROVE Outside(p, s)
  <2> DEFINE r == [pc |-> "ask", name |-> n, init |-> FALSE]
  <2>1. r \in SessionRecord /\ r.pc = "ask" /\ r.name = n
    BY DEF SessionRecord
  <2>2. session' = [session EXCEPT ![p][s] = r] /\ proc' = proc
    BY <1>7 DEF Ask
  <2> HIDE DEF r
  <2>3. Moves(p, s, "ask", n, proc[p].mutex, proc[p].arch_map)
    BY <1>6, <2>1, <2>2 DEF Moves
  <2> QED BY <1>7, <2>3 DEF Ask, At, Outside, history
<1>8. CASE ProvideKnown(p, s)
  BY <1>1, <1>3, <1>8 DEF ProvideKnown, At, Outside, history
<1>9. CASE ProvideNew(p, s)
  <2> DEFINE r == [proc[p] EXCEPT !.mutex = s]
  <2>1. r \in ProcRecord /\ r.up = proc[p].up /\ r.handler = proc[p].handler
        /\ r.closed = proc[p].closed /\ r.mutex = s /\ r.arch_map = proc[p].arch_map
    BY <1>1 DEF ProcRecord
  <2>2. proc' = [proc EXCEPT ![p] = r] /\ GoTo(p, s, "check")
    BY <1>9 DEF ProvideNew, TypeOK
  <2> HIDE DEF r
  <2>3. proc'[p] = r /\ \A q \in Procs : q # p => proc'[q] = proc[q]
    BY <2>1, <2>2, ProcMoves
  <2>4. Moves(p, s, "check", e.name, s, proc[p].arch_map)
    BY <2>1, <2>2, <2>3, GoToMoves DEF Moves
  <2> QED BY <1>9, <2>4 DEF ProvideNew, At, Inside, history
<1>10. CASE CheckExists(p, s)
  <2> DEFINE absent == file[PathOf(p, s)] = "absent"
             pc == IF absent THEN "create" ELSE "wait"
             r == [e EXCEPT !.init = absent, !.pc = pc]
  <2>1. r \in SessionRecord /\ r.pc = pc /\ r.name = e.name
    BY <1>1 DEF SessionRecord
  <2>2. session' = [session EXCEPT ![p][s] = r]
    BY <1>10 DEF CheckExists, TypeOK
  <2>3. proc' = proc
    BY <1>10 DEF CheckExists
  <2> HIDE DEF r
  <2>4. Moves(p, s, pc, e.name, proc[p].mutex, proc[p].arch_map)
    BY <1>6, <2>1, <2>2, <2>3 DEF Moves
  <2> QED BY <1>2, <1>10, <2>4 DEF CheckExists, At, Inside
<1>11. CASE CreateEmpty(p, s)
  BY <1>2, <1>3, <1>11 DEF CreateEmpty, At, Inside, history
<1>12. CASE HzaInit(p, s)
  <2> DEFINE r == [e EXCEPT !.pc = "load", !.init = FALSE]
  <2>1. r \in SessionRecord /\ r.pc = "load" /\ r.name = e.name
    BY <1>1 DEF SessionRecord
  <2>2. session' = [session EXCEPT ![p][s] = r]
    BY <1>12 DEF HzaInit, TypeOK
  <2>3. proc' = proc
    BY <1>12 DEF HzaInit
  <2> HIDE DEF r
  <2>4. Moves(p, s, "load", e.name, proc[p].mutex, proc[p].arch_map)
    BY <1>6, <2>1, <2>2, <2>3 DEF Moves
  <2> QED BY <1>2, <1>12, <2>4 DEF HzaInit, At, Opens, history
<1>13. CASE LoadLost(p, s)
  BY <1>2, <1>3, <1>13 DEF LoadLost, At, Opens, history
<1>14. CASE Begin(p, s)
  BY <1>1, <1>5, <1>14 DEF Begin, At, Outside, history
<1>15. CASE Write(p, s)
  BY <1>1, <1>5, <1>15 DEF Write, At, Outside
<1>16. CASE Read(p, s)
  BY <1>1, <1>5, <1>16 DEF Read, At, Outside, history
<1>17. CASE Throw(p, s)
  <2>1. Moves(p, s, "idle", NoSession.name, proc[p].mutex, proc[p].arch_map)
    BY <1>4, <1>6, <1>17 DEF Throw, Moves, Leave
  <2> QED BY <1>1, <1>17, <2>1 DEF Throw, At, Outside, history
<1>18. CASE EndCommand(p, s)
  <2>1. Moves(p, s, "idle", NoSession.name, proc[p].mutex, proc[p].arch_map)
    BY <1>6, <1>18 DEF EndCommand, Moves, Leave
  <2> QED BY <1>1, <1>18, <2>1 DEF EndCommand, At, Outside, history
<1>19. CASE SemWait(p, s)
  BY <1>2, <1>3, <1>19 DEF SemWait, Grant, At, Gains, storage, history
<1>20. CASE Load(p, s)
  <2> DEFINE r == [proc[p] EXCEPT !.mutex = "free", !.arch_map = @ \cup {e.name}]
  <2>1. r \in ProcRecord /\ r.up = proc[p].up /\ r.handler = proc[p].handler
        /\ r.closed = proc[p].closed /\ r.mutex = "free"
        /\ r.arch_map = proc[p].arch_map \cup {e.name}
    BY <1>1 DEF ProcRecord
  <2>2. proc' = [proc EXCEPT ![p] = r] /\ GoTo(p, s, "held")
    BY <1>20 DEF Load, Loaded, TypeOK
  <2> HIDE DEF r
  <2>3. proc'[p] = r /\ \A q \in Procs : q # p => proc'[q] = proc[q]
    BY <2>1, <2>2, ProcMoves
  <2>4. Moves(p, s, "held", e.name, "free", proc[p].arch_map \cup {e.name})
    BY <2>1, <2>2, <2>3, GoToMoves DEF Moves
  <2> QED BY <1>20, <2>4 DEF Load, Loaded, At, Enters, history
<1>21. CASE LoadThrows(p, s)
  <2> DEFINE r == [proc[p] EXCEPT !.mutex = "leaked"]
  <2>1. r \in ProcRecord /\ r.up = proc[p].up /\ r.handler = proc[p].handler
        /\ r.closed = proc[p].closed /\ r.mutex = "leaked" /\ r.arch_map = proc[p].arch_map
    BY <1>1 DEF ProcRecord
  <2>2. proc' = [proc EXCEPT ![p] = r] /\ Leave(p, s)
    BY <1>21 DEF LoadThrows, TypeOK
  <2> HIDE DEF r
  <2>3. proc'[p] = r /\ \A q \in Procs : q # p => proc'[q] = proc[q]
    BY <2>1, <2>2, ProcMoves
  <2>4. Moves(p, s, "idle", NoSession.name, "leaked", proc[p].arch_map)
    BY <1>6, <2>1, <2>2, <2>3 DEF Moves, Leave
  <2> QED BY <1>1, <1>21, <2>4 DEF LoadThrows, At, Drops
<1> QED BY <1>7, <1>8, <1>9, <1>10, <1>11, <1>12, <1>13, <1>14, <1>15, <1>16, <1>17, <1>18, <1>19,
           <1>20, <1>21
        DEF Provide, Operate

\* A step that changes nobody's access.
LEMMA SameHolders ==
    ASSUME Exclusion, sem' = sem, lost' = lost,
           \A p \in Procs, n \in Names : IsOpen(p, n)' <=> IsOpen(p, n),
           \A p \in Procs, s \in Sessions :
              /\ IsOpening(p, s)' <=> IsOpening(p, s)
              /\ IsOpening(p, s) => PathOf(p, s)' = PathOf(p, s)
    PROVE  Exclusion'
<1>1. SemaphoreTaken'
  BY DEF Exclusion, SemaphoreTaken
<1>2. HoldersTook'
  BY DEF Exclusion, HoldersTook
<1>3. HoldersExclude'
  BY DEF Exclusion, HoldersExclude
<1> QED BY <1>1, <1>2, <1>3 DEF Exclusion

LEMMA SessionKeepsOthers ==
    ASSUME TypeOK, NEW p \in Procs, NEW s \in Sessions, NEW pc, NEW n, NEW m, NEW a,
           Moves(p, s, pc, n, m, a)
    PROVE  /\ IsOpening(p, s)' <=> pc \in {"init", "load", "spin"}
           /\ PathOf(p, s)' = Absolute[n]
           /\ \A q \in Procs, t \in Sessions : q # p \/ t # s =>
                 (IsOpening(q, t)' <=> IsOpening(q, t)) /\ PathOf(q, t)' = PathOf(q, t)
           /\ \A q \in Procs, k \in Names : q # p => (IsOpen(q, k)' <=> IsOpen(q, k))
           /\ \A k \in Names : IsOpen(p, k)' <=> k \in a /\ k \notin proc[p].closed
BY DEF Moves, IsOpening, IsOpen, PathOf

LEMMA SessionExcludes ==
    ASSUME TypeOK, ProvidersExclude, HandlersExclude, NEW p \in Procs, NEW s \in Sessions,
           proc[p].up,
           \/ Outside(p, s) \/ Inside(p, s) \/ Opens(p, s)
           \/ Gains(p, s) \/ Enters(p, s) \/ Drops(p, s)
    PROVE  ProvidersExclude' /\ HandlersExclude'
<1> USE DEF Providing
<1>1. s \notin {"free", "leaked", "handler"}
  BY AccessAssumption
<1>2. PICK pc, n, m, a : Moves(p, s, pc, n, m, a)
  BY DEF Outside, Inside, Opens, Gains, Enters, Drops
<1>3. session[p][s].pc \in {"check", "create", "wait", "init", "load"} => proc[p].mutex = s
  BY DEF ProvidersExclude
<1>4. /\ m = proc[p].mutex \/ proc[p].mutex \in {s, "free"}
      /\ \A t \in Sessions : t # s /\ session[p][t].pc \in Providing => m = t /\ a = proc[p].arch_map
  BY <1>1, <1>2, <1>3, AccessAssumption
     DEF Moves, Outside, Inside, Opens, Gains, Enters, Drops, ProvidersExclude
<1>5. proc[p].arch_map \subseteq a
  BY <1>2 DEF Moves, Outside, Inside, Opens, Gains, Enters, Drops
<1>6. pc \in Providing => m = s /\ n \notin a
  BY <1>2, <1>3 DEF Moves, Outside, Inside, Opens, Gains, Enters, Drops, ProvidersExclude
<1>7. ProvidersExclude'
  <2>1. ASSUME NEW q \in Procs, NEW t \in Sessions, session'[q][t].pc \in Providing
        PROVE  proc'[q].mutex = t /\ session'[q][t].name \notin proc'[q].arch_map
    <3>1. CASE q # p
      BY <1>2, <2>1, <3>1 DEF Moves, ProvidersExclude
    <3>2. CASE q = p /\ t # s
      BY <1>2, <1>4, <2>1, <3>2 DEF Moves, ProvidersExclude
    <3>3. CASE q = p /\ t = s
      BY <1>2, <1>6, <2>1, <3>3 DEF Moves
    <3> QED BY <3>1, <3>2, <3>3
  <2> QED BY <2>1 DEF ProvidersExclude
<1>8. HandlersExclude'
  <2>1. ASSUME NEW q \in Procs, q # p
        PROVE  proc'[q] = proc[q] /\ \A t \in Sessions : session'[q][t] = session[q][t]
    BY <1>2, <2>1 DEF Moves
  <2>2. proc'[p].up /\ proc'[p].closed \subseteq proc'[p].arch_map
    BY <1>2, <1>5 DEF Moves, HandlersExclude
  <2>3. proc'[p].handler = "close" => proc'[p].mutex = "handler"
    BY <1>1, <1>2, <1>4 DEF Moves, HandlersExclude
  <2> QED BY <2>1, <2>2, <2>3 DEF HandlersExclude
<1> QED BY <1>7, <1>8

LEMMA SessionExclusion ==
    ASSUME TypeOK, ProvidersExclude, HandlersExclude, Exclusion,
           NEW p \in Procs, NEW s \in Sessions,
           \/ Outside(p, s) \/ Inside(p, s) \/ Opens(p, s)
           \/ Gains(p, s) \/ Enters(p, s) \/ Drops(p, s)
    PROVE  Exclusion'
<1> DEFINE f == PathOf(p, s)
           e == session[p][s]
<1>1. e.name \in Names /\ f \in Paths
  BY AccessAssumption DEF TypeOK, SessionRecord, PathOf
<1>2. CASE Outside(p, s) \/ Inside(p, s)
  <2>1. PICK pc, n, a : /\ Moves(p, s, pc, n, proc'[p].mutex, a) /\ a = proc[p].arch_map
                        /\ pc \notin {"init", "load", "spin"} /\ e.pc \notin {"init", "load", "spin"}
    BY <1>2 DEF Outside, Inside, Moves
  <2>2. sem' = sem /\ lost' = lost
    BY <1>2 DEF Outside, Inside
  <2>3. ~IsOpening(p, s) /\ ~IsOpening(p, s)'
    BY <2>1, SessionKeepsOthers DEF IsOpening
  <2>4. \A q \in Procs, k \in Names : IsOpen(q, k)' <=> IsOpen(q, k)
    BY <2>1, SessionKeepsOthers DEF IsOpen
  <2>5. \A q \in Procs, t \in Sessions :
           (IsOpening(q, t)' <=> IsOpening(q, t)) /\ (IsOpening(q, t) => PathOf(q, t)' = PathOf(q, t))
    BY <2>1, <2>3, SessionKeepsOthers
  <2> QED BY <2>2, <2>4, <2>5, SameHolders
<1>3. CASE Opens(p, s)
  <2>1. PICK pc \in {"load", "spin"} : Moves(p, s, pc, e.name, s, proc[p].arch_map)
    BY <1>3 DEF Opens
  <2>2. sem' = sem /\ lost' = lost /\ IsOpening(p, s)
    BY <1>3 DEF Opens, IsOpening
  <2>3. IsOpening(p, s)' /\ PathOf(p, s)' = f
    BY <2>1, SessionKeepsOthers DEF PathOf
  <2>4. \A q \in Procs, k \in Names : IsOpen(q, k)' <=> IsOpen(q, k)
    BY <2>1, SessionKeepsOthers DEF IsOpen
  <2>5. \A q \in Procs, t \in Sessions :
           (IsOpening(q, t)' <=> IsOpening(q, t)) /\ (IsOpening(q, t) => PathOf(q, t)' = PathOf(q, t))
    BY <2>1, <2>2, <2>3, SessionKeepsOthers
  <2> QED BY <2>2, <2>4, <2>5, SameHolders
<1>4. CASE Gains(p, s)
  <2>1. PICK pc \in {"init", "load"} : Moves(p, s, pc, e.name, s, proc[p].arch_map)
    BY <1>4 DEF Gains
  <2>2. sem[f] = 1 /\ sem' = [sem EXCEPT ![f] = 0] /\ lost' = lost /\ ~IsOpening(p, s)
    <3>1. sem[f] \in {0, 1} /\ sem[f] > 0
      BY <1>1, <1>4 DEF Gains, Exclusion, SemaphoreTaken
    <3>2. sem[f] = 1
      BY <3>1
    <3>3. sem' = [sem EXCEPT ![f] = sem[f] - 1] /\ lost' = lost /\ e.pc = "wait"
      BY <1>4 DEF Gains
    <3> HIDE DEF f
    <3>4. sem' = [sem EXCEPT ![f] = 0]
      BY <3>2, <3>3
    <3> QED BY <3>2, <3>3, <3>4 DEF IsOpening
  <2>3. IsOpening(p, s)' /\ PathOf(p, s)' = f
    BY <2>1, SessionKeepsOthers DEF PathOf
  <2>4. \A q \in Procs, k \in Names : IsOpen(q, k)' <=> IsOpen(q, k)
    BY <2>1, SessionKeepsOthers DEF IsOpen
  <2>5. \A q \in Procs, t \in Sessions : q # p \/ t # s =>
           (IsOpening(q, t)' <=> IsOpening(q, t)) /\ PathOf(q, t)' = PathOf(q, t)
    BY <2>1, SessionKeepsOthers
  <2>6. sem' \in [Paths -> {0, 1}] /\ sem'[f] = 0 /\ \A g \in Paths : g # f => sem'[g] = sem[g]
    BY <1>1, <2>2 DEF TypeOK, Exclusion, SemaphoreTaken
  <2>7. /\ f \notin lost
        /\ \A q \in Procs, k \in Names : IsOpen(q, k) => Absolute[k] # f
        /\ \A q \in Procs, t \in Sessions : IsOpening(q, t) => PathOf(q, t) # f
    BY <2>2 DEF Exclusion, HoldersTook
  <2>8. \A q \in Procs, t \in Sessions : PathOf(q, t) \in Paths
    BY AccessAssumption DEF TypeOK, SessionRecord, PathOf
  <2> HIDE DEF f
  <2>9. SemaphoreTaken'
    BY <2>2, <2>3, <2>4, <2>5, <2>6 DEF Exclusion, SemaphoreTaken
  <2>10. HoldersTook'
    BY <1>1, <2>2, <2>3, <2>4, <2>5, <2>6, <2>7, <2>8, AccessAssumption
       DEF Exclusion, HoldersTook, TypeOK
  <2>11. HoldersExclude'
    BY <2>3, <2>4, <2>5, <2>7 DEF Exclusion, HoldersExclude
  <2> QED BY <2>9, <2>10, <2>11 DEF Exclusion
<1>5. CASE Enters(p, s)
  <2>0. PICK n \in Names : n = e.name
    BY <1>1
  <2>1. Moves(p, s, "held", n, "free", proc[p].arch_map \cup {n})
    BY <1>5, <2>0 DEF Enters
  <2>2. sem' = sem /\ lost' = lost /\ IsOpening(p, s) /\ Absolute[n] = f
    BY <1>5, <2>0 DEF Enters, IsOpening, PathOf
  <2>3. n \notin proc[p].arch_map /\ n \notin proc[p].closed
    BY <1>5, <2>0 DEF Enters, ProvidersExclude, Providing, HandlersExclude
  <2>4. ~IsOpening(p, s)' /\ IsOpen(p, n)' /\ ~IsOpen(p, n)
    <3>1. ~IsOpening(p, s)'
      BY <2>1, SessionKeepsOthers
    <3>2. IsOpen(p, n)'
      BY <2>1, <2>3 DEF Moves, IsOpen
    <3>3. ~IsOpen(p, n)
      BY <2>3 DEF IsOpen
    <3> QED BY <3>1, <3>2, <3>3
  <2>5. \A q \in Procs, k \in Names : q # p \/ k # n => (IsOpen(q, k)' <=> IsOpen(q, k))
    BY <2>1, SessionKeepsOthers DEF IsOpen
  <2>6. \A q \in Procs, t \in Sessions : q # p \/ t # s =>
           (IsOpening(q, t)' <=> IsOpening(q, t)) /\ PathOf(q, t)' = PathOf(q, t)
    BY <2>1, SessionKeepsOthers
  <2> HIDE DEF f
  <2>7. SemaphoreTaken'
    <3>1. n \in Names /\ Absolute[n] = f
      BY <2>2
    <3>2. ASSUME NEW g \in Paths, sem[g] = 0, g \notin lost
          PROVE  \/ \E q \in Procs, k \in Names : IsOpen(q, k)' /\ Absolute[k] = g
                 \/ \E q \in Procs, t \in Sessions : IsOpening(q, t)' /\ PathOf(q, t)' = g
      <4>1. ASSUME NEW q \in Procs, NEW k \in Names, IsOpen(q, k) PROVE IsOpen(q, k)'
        BY <2>4, <2>5, <4>1
      <4>2. ASSUME NEW q \in Procs, NEW t \in Sessions, IsOpening(q, t), PathOf(q, t) = g
            PROVE  \/ IsOpening(q, t)' /\ PathOf(q, t)' = g
                   \/ IsOpen(p, n)' /\ Absolute[n] = g
        BY <2>4, <2>6, <3>1, <4>2 DEF f
      <4> QED BY <3>1, <3>2, <4>1, <4>2 DEF Exclusion, SemaphoreTaken
    <3> QED BY <2>2, <3>2 DEF Exclusion, SemaphoreTaken
  <2>8. HoldersTook'
    BY <1>1, <2>2, <2>4, <2>5, <2>6 DEF Exclusion, HoldersTook, f
  <2>9. HoldersExclude'
    BY <1>1, <2>2, <2>4, <2>5, <2>6 DEF Exclusion, HoldersExclude, f
  <2> QED BY <2>7, <2>8, <2>9 DEF Exclusion
<1>6. CASE Drops(p, s)
  <2>1. PICK n \in Names : Moves(p, s, "idle", n, "leaked", proc[p].arch_map)
    BY <1>6 DEF Drops
  <2>2. sem' = sem /\ lost' = lost \cup {f} /\ IsOpening(p, s)
    BY <1>6 DEF Drops, IsOpening
  <2>3. ~IsOpening(p, s)'
    BY <2>1, SessionKeepsOthers
  <2>4. \A q \in Procs, k \in Names : IsOpen(q, k)' <=> IsOpen(q, k)
    BY <2>1, SessionKeepsOthers DEF IsOpen
  <2>5. \A q \in Procs, t \in Sessions : q # p \/ t # s =>
           (IsOpening(q, t)' <=> IsOpening(q, t)) /\ PathOf(q, t)' = PathOf(q, t)
    BY <2>1, SessionKeepsOthers
  <2>6. SemaphoreTaken'
    BY <2>2, <2>3, <2>4, <2>5 DEF Exclusion, SemaphoreTaken
  <2>7. HoldersTook'
    BY <2>2, <2>3, <2>4, <2>5 DEF Exclusion, HoldersTook, HoldersExclude
  <2>8. HoldersExclude'
    BY <2>3, <2>4, <2>5 DEF Exclusion, HoldersExclude
  <2> QED BY <2>6, <2>7, <2>8 DEF Exclusion
<1> QED BY <1>2, <1>3, <1>4, <1>5, <1>6

-----------------------------------------------------------------------------
(* What the steps of a process do to it *)

\* The process goes on: its provider's mutex goes to m, its closed archives to c and
\* its handler to h.
Turns(p, m, c, h) ==
    /\ \A q \in Procs : q # p => proc'[q] = proc[q]
    /\ proc'[p].up
    /\ proc'[p].mutex = m /\ proc'[p].closed = c /\ proc'[p].handler = h
    /\ proc'[p].arch_map = proc[p].arch_map
    /\ session' = session /\ lost' = lost

\* The handler starts, takes the mutex, or gives it back.
Handles(p) ==
    /\ \/ proc[p].up /\ Turns(p, proc[p].mutex, proc[p].closed, "lock")
       \/ proc[p].mutex = "free" /\ Turns(p, "handler", proc[p].closed, "close")
       \/ proc[p].handler = "close" /\ Turns(p, "free", proc[p].closed, "exit")
    /\ sem' = sem

\* The handler closes archive n.
Closes(p, n) ==
    /\ proc[p].handler = "close"
    /\ n \in proc[p].arch_map \ proc[p].closed
    /\ Turns(p, proc[p].mutex, proc[p].closed \cup {n}, "close")
    /\ sem' = [sem EXCEPT ![Absolute[n]] = @ + 1]

LEMMA ProcessEffects ==
    ASSUME TypeOK, HandlersExclude, NEW p \in Procs
    PROVE  /\ \A v \in Sessions \cup {"free"} : Signal(p, v) => Handles(p)
           /\ CloseLock(p) \/ CloseUnlock(p) => Handles(p)
           /\ \A n \in Names : Close(p, n) => Closes(p, n)
<1>1. proc[p] \in ProcRecord
  BY DEF TypeOK
<1>2. ASSUME NEW v \in Sessions \cup {"free"}, Signal(p, v) PROVE Handles(p)
  <2> DEFINE r == [proc[p] EXCEPT !.handler = "lock", !.victim = v]
  <2>1. r \in ProcRecord /\ r.up = proc[p].up /\ r.handler = "lock" /\ r.mutex = proc[p].mutex
        /\ r.closed = proc[p].closed /\ r.arch_map = proc[p].arch_map
    BY <1>1 DEF ProcRecord, HandlerStates
  <2>2. proc' = [proc EXCEPT ![p] = r]
    BY <1>2 DEF Signal, TypeOK
  <2> HIDE DEF r
  <2>3. proc'[p] = r /\ \A q \in Procs : q # p => proc'[q] = proc[q]
    BY <2>1, <2>2, ProcMoves
  <2> QED BY <1>2, <2>1, <2>3 DEF Signal, Handles, Turns, history
<1>3. ASSUME CloseLock(p) PROVE Handles(p)
  <2> DEFINE r == [proc[p] EXCEPT !.mutex = "handler", !.handler = "close"]
  <2>1. r \in ProcRecord /\ r.up = proc[p].up /\ r.handler = "close" /\ r.mutex = "handler"
        /\ r.closed = proc[p].closed /\ r.arch_map = proc[p].arch_map
    BY <1>1 DEF ProcRecord, HandlerStates
  <2>2. proc' = [proc EXCEPT ![p] = r]
    BY <1>3 DEF CloseLock, TypeOK
  <2> HIDE DEF r
  <2>3. proc'[p] = r /\ \A q \in Procs : q # p => proc'[q] = proc[q]
    BY <2>1, <2>2, ProcMoves
  <2> QED BY <1>3, <2>1, <2>3 DEF CloseLock, Handles, Turns, history
<1>4. ASSUME CloseUnlock(p) PROVE Handles(p)
  <2> DEFINE r == [proc[p] EXCEPT !.mutex = "free", !.handler = "exit"]
  <2>1. r \in ProcRecord /\ r.up = proc[p].up /\ r.handler = "exit" /\ r.mutex = "free"
        /\ r.closed = proc[p].closed /\ r.arch_map = proc[p].arch_map
    BY <1>1 DEF ProcRecord, HandlerStates
  <2>2. proc' = [proc EXCEPT ![p] = r]
    BY <1>4 DEF CloseUnlock, TypeOK
  <2> HIDE DEF r
  <2>3. proc'[p] = r /\ \A q \in Procs : q # p => proc'[q] = proc[q]
    BY <2>1, <2>2, ProcMoves
  <2> QED BY <1>4, <2>1, <2>3 DEF CloseUnlock, Handles, Turns, history
<1>5. ASSUME NEW n \in Names, Close(p, n) PROVE Closes(p, n)
  <2> DEFINE r == [proc[p] EXCEPT !.closed = @ \cup {n}]
  <2>1. r \in ProcRecord /\ r.up = proc[p].up /\ r.handler = proc[p].handler /\ r.mutex = proc[p].mutex
        /\ r.closed = proc[p].closed \cup {n} /\ r.arch_map = proc[p].arch_map
    BY <1>1 DEF ProcRecord
  <2>2. proc' = [proc EXCEPT ![p] = r]
    BY <1>5 DEF Close, Closing, TypeOK
  <2> HIDE DEF r
  <2>3. proc'[p] = r /\ \A q \in Procs : q # p => proc'[q] = proc[q]
    BY <2>1, <2>2, ProcMoves
  <2> QED BY <1>5, <2>1, <2>3 DEF Close, Closing, Closes, Turns
<1> QED BY <1>2, <1>3, <1>4, <1>5

LEMMA HandlerExcludes ==
    ASSUME TypeOK, ProvidersExclude, HandlersExclude, NEW p \in Procs,
           Handles(p) \/ \E n \in Names : Closes(p, n)
    PROVE  ProvidersExclude' /\ HandlersExclude'
<1> USE AccessAssumption DEF Handles, Closes, Turns
<1>1. ProvidersExclude'
  BY DEF ProvidersExclude, HandlersExclude, Providing
<1>2. HandlersExclude'
  BY DEF HandlersExclude
<1> QED BY <1>1, <1>2

LEMMA HandlerExclusion ==
    ASSUME TypeOK, HandlersExclude, Exclusion, NEW p \in Procs,
           Handles(p) \/ \E n \in Names : Closes(p, n)
    PROVE  Exclusion'
<1>1. \A q \in Procs, t \in Sessions :
         (IsOpening(q, t)' <=> IsOpening(q, t)) /\ PathOf(q, t)' = PathOf(q, t)
  BY DEF IsOpening, PathOf, Handles, Closes, Turns
<1>2. CASE Handles(p)
  <2>1. \A q \in Procs, k \in Names : IsOpen(q, k)' <=> IsOpen(q, k)
    BY <1>2 DEF IsOpen, Handles, Turns
  <2> QED BY <1>1, <1>2, <2>1, SameHolders DEF Handles, Turns
<1>3. ASSUME NEW n \in Names, Closes(p, n) PROVE Exclusion'
  <2> DEFINE f == Absolute[n]
  <2>1. f \in Paths /\ IsOpen(p, n) /\ lost' = lost
    BY <1>3, AccessAssumption DEF Closes, Turns, IsOpen
  <2>2. sem[f] = 0 /\ f \notin lost
    BY <2>1 DEF Exclusion, HoldersTook
  <2>3. sem' = [sem EXCEPT ![f] = 1]
    BY <1>3, <2>2 DEF Closes
  <2>4. sem'[f] = 1 /\ \A g \in Paths : g # f => sem'[g] = sem[g]
    BY <2>1, <2>3 DEF TypeOK
  <2>5. ~IsOpen(p, n)'
    BY <1>3 DEF Closes, Turns, IsOpen
  <2>6. \A q \in Procs, k \in Names : q # p \/ k # n => (IsOpen(q, k)' <=> IsOpen(q, k))
    BY <1>3 DEF Closes, Turns, IsOpen
  <2>7. /\ \A q \in Procs, k \in Names : IsOpen(q, k)' => Absolute[k] # f
        /\ \A q \in Procs, t \in Sessions : IsOpening(q, t)' => PathOf(q, t)' # f
    BY <1>1, <2>1, <2>5, <2>6 DEF Exclusion, HoldersExclude
  <2>8. \A q \in Procs, t \in Sessions : PathOf(q, t) \in Paths
    BY AccessAssumption DEF TypeOK, SessionRecord, PathOf
  <2> HIDE DEF f
  <2>9. SemaphoreTaken'
    BY <1>1, <2>1, <2>4, <2>5, <2>6 DEF Exclusion, SemaphoreTaken, f
  <2>10. HoldersTook'
    BY <1>1, <2>1, <2>2, <2>4, <2>5, <2>6, <2>7, <2>8, AccessAssumption
       DEF Exclusion, HoldersTook, TypeOK
  <2>11. HoldersExclude'
    BY <1>1, <2>5, <2>6 DEF Exclusion, HoldersExclude
  <2> QED BY <2>9, <2>10, <2>11 DEF Exclusion
<1> QED BY <1>2, <1>3

\* Starts and deaths, of which the machine's is that of all processes.
LEMMA StartSafe ==
    ASSUME Safe, NEW p \in Procs, Start(p)
    PROVE  Safe'
<1> USE DEF Safe
<1>1. TypeOK'
  BY ProcessTypes
<1>2. /\ proc'[p] = Started /\ \A q \in Procs : q # p => proc'[q] = proc[q]
      /\ session' = session /\ sem' = sem /\ lost' = lost
  BY DEF Start, TypeOK, history
<1>3. proc[p] = Gone /\ \A s \in Sessions : session[p][s] = NoSession
  BY DEF Start, HandlersExclude
<1>4. Started.up /\ Started.handler = "none" /\ Started.closed = {} /\ Gone.closed = {}
  BY DEF Started, Gone
<1>5. ProvidersExclude'
  BY <1>2, <1>3, RecordTypes DEF ProvidersExclude, Providing
<1>6. HandlersExclude'
  BY <1>2, <1>4, RecordTypes DEF HandlersExclude
<1>7. \A q \in Procs, k \in Names : IsOpen(q, k)' <=> IsOpen(q, k)
  BY <1>2, <1>3, RecordTypes DEF IsOpen
<1>8. \A q \in Procs, t \in Sessions :
         (IsOpening(q, t)' <=> IsOpening(q, t)) /\ PathOf(q, t)' = PathOf(q, t)
  BY <1>2 DEF IsOpening, PathOf
<1>9. Exclusion'
  BY <1>2, <1>7, <1>8, SameHolders
<1> QED BY <1>1, <1>5, <1>6, <1>9

LEMMA DeathSafe ==
    ASSUME Safe, NEW p \in Procs, Exit(p) \/ Crash(p)
    PROVE  Safe'
<1> USE DEF Safe
<1>1. TypeOK'
  BY ProcessTypes DEF Shutdown
<1>2. Dies(p) /\ sem' = sem
  BY DEF Exit, Crash
<1>3. /\ proc'[p] = Gone /\ \A s \in Sessions : session'[p][s] = NoSession
      /\ \A q \in Procs : q # p => proc'[q] = proc[q] /\ session'[q] = session[q]
      /\ lost' = lost \cup Granted(p)
  BY <1>2 DEF Dies, TypeOK
<1>4. Gone.handler = "none" /\ Gone.closed = {}
  BY DEF Started, Gone
<1>5. ProvidersExclude'
  BY <1>3, RecordTypes DEF ProvidersExclude, Providing
<1>6. HandlersExclude'
  BY <1>3, <1>4, RecordTypes DEF HandlersExclude
<1>7. /\ \A k \in Names : ~IsOpen(p, k)'
      /\ \A t \in Sessions : ~IsOpening(p, t)'
      /\ \A q \in Procs, k \in Names : q # p => (IsOpen(q, k)' <=> IsOpen(q, k))
      /\ \A q \in Procs, t \in Sessions : q # p =>
            (IsOpening(q, t)' <=> IsOpening(q, t)) /\ PathOf(q, t)' = PathOf(q, t)
  BY <1>3, RecordTypes DEF IsOpen, IsOpening, PathOf
<1>8. \A f : f \in Granted(p) <=>
         \/ \E k \in Names : IsOpen(p, k) /\ Absolute[k] = f
         \/ \E t \in Sessions : IsOpening(p, t) /\ PathOf(p, t) = f
  BY DEF Granted, IsOpen, IsOpening, TypeOK, ProcRecord
<1>9. SemaphoreTaken'
  BY <1>2, <1>3, <1>7, <1>8 DEF Exclusion, SemaphoreTaken
<1>10. HoldersTook'
  BY <1>2, <1>3, <1>7, <1>8 DEF Exclusion, HoldersTook, HoldersExclude
<1>11. HoldersExclude'
  BY <1>7 DEF Exclusion, HoldersExclude
<1> QED BY <1>1, <1>5, <1>6, <1>9, <1>10, <1>11 DEF Exclusion

LEMMA RebootSafe == Safe /\ Reboot => Safe'
<1> SUFFICES ASSUME Safe, Reboot PROVE Safe'
  OBVIOUS
<1>1. TypeOK'
  BY RebootTypes DEF Safe
<1>2. /\ proc' = [p \in Procs |-> Gone]
      /\ session' = [p \in Procs |-> [s \in Sessions |-> NoSession]]
      /\ sem' = [f \in Paths |-> 1] /\ lost' = {}
  BY DEF Reboot
<1>3. Gone.handler = "none" /\ Gone.closed = {}
  BY DEF Started, Gone
<1>4. ProvidersExclude' /\ HandlersExclude'
  BY <1>2, <1>3, RecordTypes DEF ProvidersExclude, HandlersExclude, Providing
<1>5. Exclusion'
  BY <1>2, RecordTypes DEF Exclusion, SemaphoreTaken, HoldersTook, HoldersExclude, IsOpen, IsOpening
<1> QED BY <1>1, <1>4, <1>5 DEF Safe

LEMMA NextSafe == Safe /\ [Next]_vars => Safe'
<1> SUFFICES ASSUME Safe, [Next]_vars PROVE Safe'
  OBVIOUS
<1> USE DEF Safe
<1>1. TypeOK'
  BY NextTypes
<1>2. ASSUME NEW p \in Procs, NEW s \in Sessions,
             \/ \E n \in Names : Ask(p, s, n)
             \/ Provide(p, s) \/ Begin(p, s) \/ Operate(p, s) \/ EndCommand(p, s)
      PROVE  Safe'
  <2>1. proc[p].up
    BY <1>2 DEF Ask, Provide, ProvideKnown, ProvideNew, CheckExists, CreateEmpty, SemWait, Grant,
                HzaInit, Load, Loaded, LoadThrows, LoadLost, Begin, Operate, Write, Read, Throw,
                EndCommand, At, Runs
  <2>2. \/ Outside(p, s) \/ Inside(p, s) \/ Opens(p, s)
        \/ Gains(p, s) \/ Enters(p, s) \/ Drops(p, s)
    BY <1>2, SessionEffects
  <2> QED BY <1>1, <2>1, <2>2, SessionExcludes, SessionExclusion
<1>3. ASSUME NEW p \in Procs,
             \/ \E v \in Sessions \cup {"free"} : Signal(p, v)
             \/ CloseLock(p) \/ CloseUnlock(p) \/ \E n \in Names : Close(p, n)
      PROVE  Safe'
  <2>1. Handles(p) \/ \E n \in Names : Closes(p, n)
    BY <1>3, ProcessEffects
  <2> QED BY <1>1, <2>1, HandlerExcludes, HandlerExclusion
<1>4. CASE UNCHANGED vars
  <2>1. Exclusion'
    BY <1>4, SameHolders DEF vars, history, IsOpen, IsOpening, PathOf
  <2> QED BY <1>1, <1>4, <2>1
          DEF vars, ProvidersExclude, HandlersExclude
<1> QED BY <1>2, <1>3, <1>4, StartSafe, DeathSafe, RebootSafe DEF Next, Shutdown

\* Access stays exclusive: the invariant holds in every reachable state.
THEOREM AccessExclusive == Spec => []Safe
BY InitSafe, NextSafe, PTL DEF Spec

-----------------------------------------------------------------------------
(* Counting the grants *)

LEMMA GrantSets ==
    ASSUME NEW f
    PROVE  /\ \A p \in Procs, n \in Names : <<p, n>> \in Opened(f) <=> IsOpen(p, n) /\ Absolute[n] = f
           /\ \A p \in Procs, s \in Sessions :
                 <<p, s>> \in Opening(f) <=> IsOpening(p, s) /\ PathOf(p, s) = f
           /\ Opened(f) \subseteq Procs \X Names /\ Opening(f) \subseteq Procs \X Sessions
BY DEF Opened, Opening, IsOpen, IsOpening

LEMMA SafeCounts == Safe => SemaphoreConserved
<1> SUFFICES ASSUME Safe, NEW f \in Paths
             PROVE  sem[f] + Cardinality(Opened(f)) + Cardinality(Opening(f))
                      + (IF f \in lost THEN 1 ELSE 0) = 1
  BY DEF SemaphoreConserved
<1> USE DEF Safe, Exclusion
<1>1. Cardinality({}) = 0 /\ \A x : Cardinality({x}) = 1
  BY FS_EmptySet, FS_Singleton
<1>2. CASE f \in lost \/ sem[f] # 0
  <2>1. Opened(f) = {} /\ Opening(f) = {}
    BY <1>2, GrantSets DEF HoldersTook
  <2>2. f \in lost => sem[f] = 0
    BY DEF HoldersTook
  <2>3. sem[f] \in {0, 1}
    BY DEF SemaphoreTaken
  <2> QED BY <1>1, <1>2, <2>1, <2>2, <2>3
<1>3. CASE f \notin lost /\ sem[f] = 0
  <2>1. \/ \E p \in Procs, n \in Names : IsOpen(p, n) /\ Absolute[n] = f
        \/ \E p \in Procs, s \in Sessions : IsOpening(p, s) /\ PathOf(p, s) = f
    BY <1>3 DEF SemaphoreTaken
  <2>2. ASSUME NEW p \in Procs, NEW n \in Names, IsOpen(p, n), Absolute[n] = f
        PROVE  Cardinality(Opened(f)) = 1 /\ Cardinality(Opening(f)) = 0
    <3>1. Opened(f) = {<<p, n>>} /\ Opening(f) = {}
      BY <2>2, GrantSets DEF HoldersExclude
    <3> QED BY <1>1, <3>1
  <2>3. ASSUME NEW p \in Procs, NEW s \in Sessions, IsOpening(p, s), PathOf(p, s) = f
        PROVE  Cardinality(Opened(f)) = 0 /\ Cardinality(Opening(f)) = 1
    <3>1. Opened(f) = {} /\ Opening(f) = {<<p, s>>}
      BY <2>3, GrantSets DEF HoldersExclude
    <3> QED BY <1>1, <3>1
  <2>4. \/ Cardinality(Opened(f)) = 1 /\ Cardinality(Opening(f)) = 0
        \/ Cardinality(Opened(f)) = 0 /\ Cardinality(Opening(f)) = 1
    BY <2>1, <2>2, <2>3
  <2> QED BY <1>3, <2>4
<1> QED BY <1>2, <1>3

\* The semaphore of a path is free exactly when no archive is over the file and
\* nobody left with it: one taken at archive.cpp:39 is posted once, at archive.cpp:797,
\* whatever is signalled, killed or restarted in between.
THEOREM SemaphoreNeverLost == Spec => []SemaphoreConserved
BY AccessExclusive, SafeCounts, PTL
-----------------------------------------------------------------------------
(* What is left in a closed archive *)

IsCreating(p, s) == session[p][s].pc \in {"create", "wait", "init"} /\ session[p][s].init

\* Session s of p has tested for the file f and is not through with opening it.
IsBusyWith(p, s, f) == session[p][s].pc \in {"create", "wait", "init", "load", "spin"} /\ PathOf(p, s) = f

\* At which stages a session is creating the file, and that what it uses is in the map.
StagesKnown ==
    \A p \in Procs, s \in Sessions :
        /\ session[p][s].pc \in {"create", "init"} => session[p][s].init
        /\ session[p][s].pc \in {"load", "spin"} => ~session[p][s].init
        /\ session[p][s].pc \in {"held", "op"} => session[p][s].name \in proc[p].arch_map

\* A file that was there stays there.
FilesThere ==
    /\ \A f \in Paths : file[f] = "absent" => promised[f] = 0
    /\ \A p \in Procs, s \in Sessions :
          session[p][s].pc \in {"wait", "init", "load", "spin"} => file[PathOf(p, s)] # "absent"
    /\ \A p \in Procs, n \in Names : IsOpen(p, n) => file[Absolute[n]] # "absent"

\* Who creates a file has it to itself, and there was nothing in it to lose.
CreatesAlone(f) ==
    \A p \in Procs, s \in Sessions : IsCreating(p, s) /\ PathOf(p, s) = f =>
        /\ file[f] = (IF session[p][s].pc = "create" THEN "absent" ELSE "empty")
        /\ promised[f] = 0
        /\ \A q \in Procs, n \in Names : IsOpen(q, n) => Absolute[n] # f
        /\ \A q \in Procs, t \in Sessions : IsBusyWith(q, t, f) => q = p /\ t = s

\* What was closed is there; a file that is loaded has its END marker; one that has
\* none is being created, or is open, or was left by a process that died with it.
Kept(f) ==
    /\ writes[f] >= promised[f]
    /\ \A p \in Procs, s \in Sessions :
          session[p][s].pc \in {"load", "spin"} /\ PathOf(p, s) = f =>
              session[p][s].pc = "load" /\ file[f] \in {"ended", "foreign"}
    /\ file[f] = "empty" => \E p \in Procs, s \in Sessions : IsCreating(p, s) /\ PathOf(p, s) = f
    /\ file[f] = "dirty" => f \in lost \/ \E p \in Procs, n \in Names : IsOpen(p, n) /\ Absolute[n] = f
    /\ CreatesAlone(f)

FilesKept == \A f \in Paths : excuse[f] = "none" => Kept(f)

Keeping == StagesKnown /\ FilesThere /\ FilesKept

LEMMA InitKeeps == Init => Keeping
<1> SUFFICES ASSUME Init PROVE Keeping
  OBVIOUS
<1> USE RecordTypes, AccessAssumption DEF Init
<1>1. \A p \in Procs, s \in Sessions : session[p][s].pc = "idle"
  OBVIOUS
<1>2. StagesKnown /\ FilesThere
  BY <1>1 DEF StagesKnown, FilesThere, IsOpen
<1>3. FilesKept
  BY <1>1 DEF FilesKept, Kept, CreatesAlone, IsCreating
<1> QED BY <1>2, <1>3 DEF Keeping

\* Nothing is different about f.
SameAt(f) ==
    /\ file'[f] = file[f] /\ writes'[f] = writes[f] /\ promised'[f] = promised[f]
    /\ f \in lost => f \in lost'
    /\ \A p \in Procs, n \in Names : Absolute[n] = f => (IsOpen(p, n)' <=> IsOpen(p, n))
    /\ \A p \in Procs, s \in Sessions :
          /\ IsBusyWith(p, s, f)' <=> IsBusyWith(p, s, f)
          /\ IsBusyWith(p, s, f) => session'[p][s] = session[p][s]

LEMMA SameKept ==
    ASSUME NEW f, SameAt(f), Kept(f)
    PROVE  Kept(f)'
<1>1. \A p \in Procs, s \in Sessions :
          (IsCreating(p, s) /\ PathOf(p, s) = f)' <=> (IsCreating(p, s) /\ PathOf(p, s) = f)
  BY DEF SameAt, IsBusyWith, IsCreating, PathOf
<1>2. CreatesAlone(f)'
  BY <1>1 DEF Kept, CreatesAlone, SameAt, IsBusyWith, IsCreating
<1>3. \A p \in Procs, s \in Sessions :
          (session[p][s].pc \in {"load", "spin"} /\ PathOf(p, s) = f)' =>
              session'[p][s].pc = "load" /\ file'[f] \in {"ended", "foreign"}
  BY DEF Kept, SameAt, IsBusyWith
<1>4. file'[f] = "empty" => \E p \in Procs, s \in Sessions : (IsCreating(p, s) /\ PathOf(p, s) = f)'
  BY <1>1 DEF Kept, SameAt
<1>5. file'[f] = "dirty" => f \in lost' \/ \E p \in Procs, n \in Names : IsOpen(p, n)' /\ Absolute[n] = f
  BY DEF Kept, SameAt
<1>6. writes'[f] >= promised'[f]
  BY DEF Kept, SameAt
<1> QED BY <1>2, <1>3, <1>4, <1>5, <1>6 DEF Kept

\* An excuse stays.
LEMMA ExcuseStays ==
    ASSUME TypeOK, NEW P, NEW why \in Excuses \ {"none"}, Excuse(P, why), NEW f \in Paths, excuse'[f] = "none"
    PROVE  excuse[f] = "none" /\ f \notin P
BY DEF Excuse

\* Nothing is different about any file.
LEMMA AllSameKept ==
    ASSUME Keeping, excuse' = excuse, \A f \in Paths : SameAt(f)
    PROVE  FilesKept'
BY SameKept DEF Keeping, FilesKept

LEMMA AllSameThere ==
    ASSUME TypeOK, TypeOK', FilesThere, \A f \in Paths : SameAt(f)
    PROVE  FilesThere'
<1>1. \A p \in Procs, s \in Sessions :
          session'[p][s].pc \in {"wait", "init", "load", "spin"} =>
              session'[p][s] = session[p][s] /\ PathOf(p, s)' = PathOf(p, s) /\ PathOf(p, s) \in Paths
  <2> SUFFICES ASSUME NEW p \in Procs, NEW s \in Sessions,
                      session'[p][s].pc \in {"wait", "init", "load", "spin"}
               PROVE  session'[p][s] = session[p][s] /\ PathOf(p, s)' = PathOf(p, s) /\ PathOf(p, s) \in Paths
    OBVIOUS
  <2>1. session'[p][s].name \in Names
    BY DEF TypeOK, SessionRecord
  <2>2. PathOf(p, s)' \in Paths
    BY <2>1, AccessAssumption DEF PathOf
  <2>3. PICK f \in Paths : f = PathOf(p, s)'
    BY <2>2
  <2>4. IsBusyWith(p, s, f)' /\ SameAt(f)
    BY <2>3 DEF IsBusyWith
  <2>5. session'[p][s] = session[p][s]
    BY <2>4 DEF SameAt
  <2> QED BY <2>2, <2>5 DEF PathOf
<1>2. \A p \in Procs, s \in Sessions :
          session'[p][s].pc \in {"wait", "init", "load", "spin"} => file'[PathOf(p, s)'] # "absent"
  BY <1>1 DEF FilesThere, SameAt
<1>3. \A p \in Procs, n \in Names : IsOpen(p, n)' => file'[Absolute[n]] # "absent"
  BY AccessAssumption DEF FilesThere, SameAt
<1>4. \A f \in Paths : file'[f] = "absent" => promised'[f] = 0
  BY DEF FilesThere, SameAt
<1> QED BY <1>2, <1>3, <1>4 DEF FilesThere

\* Session s of p stands at pc, with the name it had, and init is i; no archive
\* was opened or closed.
Stands(p, s, pc, i) ==
    /\ session'[p][s].pc = pc /\ session'[p][s].init = i /\ session'[p][s].name = session[p][s].name
    /\ \A q \in Procs, t \in Sessions : q # p \/ t # s => session'[q][t] = session[q][t]
    /\ \A q \in Procs : proc'[q].arch_map = proc[q].arch_map /\ proc'[q].closed = proc[q].closed

LEMMA StandsStages ==
    ASSUME StagesKnown, NEW p \in Procs, NEW s \in Sessions, NEW pc, NEW i, Stands(p, s, pc, i),
           pc \in {"create", "init"} => i, pc \in {"load", "spin"} => ~i,
           pc \in {"held", "op"} => session[p][s].name \in proc[p].arch_map
    PROVE  StagesKnown'
BY DEF StagesKnown, Stands

LEMMA StandsThere ==
    ASSUME FilesThere, NEW p \in Procs, NEW s \in Sessions, NEW pc, NEW i, Stands(p, s, pc, i),
           promised' = promised, \A f \in Paths : file'[f] = "absent" => file[f] = "absent",
           TypeOK, pc \in {"wait", "init", "load", "spin"} => file'[PathOf(p, s)] # "absent"
    PROVE  FilesThere'
<1>1. \A q \in Procs, t \in Sessions : PathOf(q, t)' = PathOf(q, t) /\ PathOf(q, t) \in Paths
  <2> SUFFICES ASSUME NEW q \in Procs, NEW t \in Sessions
               PROVE  PathOf(q, t)' = PathOf(q, t) /\ PathOf(q, t) \in Paths
    OBVIOUS
  <2>1. session[q][t].name \in Names
    BY DEF TypeOK, SessionRecord
  <2>2. session'[q][t].name = session[q][t].name
    BY DEF Stands
  <2> QED BY <2>1, <2>2, AccessAssumption DEF PathOf
<1>2. \A q \in Procs, n \in Names : IsOpen(q, n)' <=> IsOpen(q, n)
  BY DEF IsOpen, Stands
<1>3. \A q \in Procs, t \in Sessions :
          session'[q][t].pc \in {"wait", "init", "load", "spin"} => file'[PathOf(q, t)'] # "absent"
  BY <1>1 DEF FilesThere, Stands
<1>4. \A q \in Procs, n \in Names : IsOpen(q, n)' => file'[Absolute[n]] # "absent"
  BY <1>2, AccessAssumption DEF FilesThere
<1> QED BY <1>3, <1>4 DEF FilesThere

\* About the files it does not open, nothing is different.
LEMMA StandsElsewhere ==
    ASSUME NEW p \in Procs, NEW s \in Sessions, NEW pc, NEW i, Stands(p, s, pc, i),
           NEW f \in Paths, f # PathOf(p, s), file'[f] = file[f], writes'[f] = writes[f],
           promised' = promised, f \in lost => f \in lost'
    PROVE  SameAt(f)
<1>1. \A q \in Procs, t \in Sessions : PathOf(q, t)' = PathOf(q, t)
  BY DEF PathOf, Stands
<1>2. \A q \in Procs, n \in Names : IsOpen(q, n)' <=> IsOpen(q, n)
  BY DEF IsOpen, Stands
<1>3. \A q \in Procs, t \in Sessions : IsBusyWith(q, t, f) => q # p \/ t # s
  BY DEF IsBusyWith
<1>4. \A q \in Procs, t \in Sessions :
          /\ IsBusyWith(q, t, f)' <=> IsBusyWith(q, t, f)
          /\ IsBusyWith(q, t, f) => session'[q][t] = session[q][t]
  BY <1>1, <1>3 DEF IsBusyWith, Stands
<1> QED BY <1>2, <1>4 DEF SameAt

\* So it is enough to look at the file it opens.
LEMMA StandsKept ==
    ASSUME TypeOK, Keeping, NEW p \in Procs, NEW s \in Sessions, NEW pc, NEW i, Stands(p, s, pc, i),
           NEW g \in Paths, g = PathOf(p, s),
           \A f \in Paths : f # g => file'[f] = file[f] /\ writes'[f] = writes[f],
           promised' = promised, lost \subseteq lost',
           \A f \in Paths : excuse'[f] = "none" => excuse[f] = "none",
           excuse'[g] = "none" => Kept(g)'
    PROVE  FilesKept'
<1>1. ASSUME NEW f \in Paths, f # g, excuse'[f] = "none" PROVE Kept(f)'
  <2>1. SameAt(f)
    BY <1>1, StandsElsewhere
  <2> QED BY <1>1, <2>1, SameKept DEF Keeping, FilesKept
<1> QED BY <1>1 DEF FilesKept

LEMMA GoToStands ==
    ASSUME TypeOK, NEW p \in Procs, NEW s \in Sessions, NEW pc \in SessionStates, GoTo(p, s, pc),
           \A q \in Procs : proc'[q].arch_map = proc[q].arch_map /\ proc'[q].closed = proc[q].closed
    PROVE  Stands(p, s, pc, session[p][s].init)
BY GoToMoves DEF Stands

LEMMA ThoseAtFile ==
    ASSUME TypeOK, Safe, NEW p \in Procs, NEW s \in Sessions, session[p][s].pc \in Providing
    PROVE  /\ \A t \in Sessions : session[p][t].pc \in Providing => t = s
           /\ PathOf(p, s) \in Paths
<1>1. session[p][s].name \in Names
  BY DEF TypeOK, SessionRecord
<1> QED BY <1>1, AccessAssumption DEF Safe, ProvidersExclude, PathOf

\* A session that finds no file has nobody else at it, or the race is its excuse;
\* one that finds a file does not disturb its creator.
LEMMA CheckKeeps ==
    ASSUME Safe, Keeping, NEW p \in Procs, NEW s \in Sessions, CheckExists(p, s)
    PROVE  Keeping'
<1> DEFINE absent == file[PathOf(p, s)] = "absent"
           pc == IF absent THEN "create" ELSE "wait"
<1> USE DEF Safe
<1>0. session[p][s].pc = "check"
  BY DEF CheckExists, At
<1>1. Stands(p, s, pc, absent)
  <2> DEFINE r == [session[p][s] EXCEPT !.init = absent, !.pc = pc]
  <2>1. session[p][s] \in SessionRecord
    BY DEF TypeOK
  <2>2. r \in SessionRecord /\ r.pc = pc /\ r.init = absent /\ r.name = session[p][s].name
    BY <2>1 DEF SessionRecord, SessionStates, Providing
  <2>3. session' = [session EXCEPT ![p][s] = r] /\ proc' = proc
    BY DEF CheckExists, TypeOK
  <2> HIDE DEF r
  <2>4. /\ session'[p][s] = r
        /\ \A q \in Procs, t \in Sessions : q # p \/ t # s => session'[q][t] = session[q][t]
    <3>1. TypeOK /\ session' = [session EXCEPT ![p][s] = r] /\ r \in SessionRecord
      BY <2>2, <2>3
    <3> QED BY <3>1, SessionMoves
  <2> QED BY <2>2, <2>3, <2>4 DEF Stands
<1>2. /\ file' = file /\ writes' = writes /\ promised' = promised /\ lost' = lost
      /\ Excuse({g \in {PathOf(p, s)} : \E q \in Procs \ {p} : Creates(q, g)}, "creation race")
  BY DEF CheckExists
<1>3. PICK g \in Paths : g = PathOf(p, s)
  BY <1>0, ThoseAtFile DEF Providing
<1>4. \A f \in Paths : excuse'[f] = "none" => excuse[f] = "none"
  BY <1>2, ExcuseStays DEF Excuses
<1>5. excuse'[g] = "none" => \A q \in Procs : q # p => ~Creates(q, g)
  BY <1>2, <1>3, ExcuseStays DEF Excuses
<1>6. StagesKnown'
  BY <1>1, StandsStages DEF Keeping
<1>7. FilesThere'
  BY <1>1, <1>2, <1>3, StandsThere DEF Keeping
<1>8. ASSUME excuse'[g] = "none" PROVE Kept(g)'
  <2>1. Kept(g)
    BY <1>4, <1>8 DEF Keeping, FilesKept
  <2>2. /\ \A q \in Procs, t \in Sessions : PathOf(q, t)' = PathOf(q, t)
        /\ \A q \in Procs, n \in Names : IsOpen(q, n)' <=> IsOpen(q, n)
    BY <1>1 DEF PathOf, IsOpen, Stands
  <2>3. \A q \in Procs, t \in Sessions : ~(session[q][t].pc = "create" /\ PathOf(q, t) = g)
    <3> SUFFICES ASSUME NEW q \in Procs, NEW t \in Sessions, session[q][t].pc = "create", PathOf(q, t) = g
                 PROVE  FALSE
      OBVIOUS
    <3>1. session[q][t].init
      BY DEF Keeping, StagesKnown
    <3>2. q = p
      BY <1>5, <1>8, <3>1 DEF Creates
    <3>3. t = s
      BY <1>0, <3>2, ThoseAtFile DEF Providing
    <3> QED BY <1>0, <3>2, <3>3
  <2>4. \A q \in Procs, t \in Sessions : ~(IsCreating(q, t) /\ PathOf(q, t) = g)
    <3> SUFFICES ASSUME NEW q \in Procs, NEW t \in Sessions, IsCreating(q, t), PathOf(q, t) = g
                 PROVE  FALSE
      OBVIOUS
    <3>2. q = p
      BY <1>5, <1>8 DEF Creates, IsCreating
    <3>3. t = s
      BY <1>0, <3>2, ThoseAtFile DEF Providing, IsCreating
    <3> QED BY <1>0, <3>2, <3>3 DEF IsCreating
  <2>5. file[g] # "empty"
    BY <2>1, <2>4 DEF Kept
  <2>6. absent => /\ promised[g] = 0
                  /\ \A q \in Procs, n \in Names : IsOpen(q, n) => Absolute[n] # g
                  /\ \A q \in Procs, t \in Sessions : ~IsBusyWith(q, t, g)
    BY <1>3, <2>3 DEF Keeping, FilesThere, IsBusyWith
  <2>7. CreatesAlone(g)'
    <3> SUFFICES ASSUME NEW q \in Procs, NEW t \in Sessions, (IsCreating(q, t) /\ PathOf(q, t) = g)'
                 PROVE  /\ file'[g] = (IF session'[q][t].pc = "create" THEN "absent" ELSE "empty")
                        /\ promised'[g] = 0
                        /\ \A z \in Procs, n \in Names : IsOpen(z, n)' => Absolute[n] # g
                        /\ \A z \in Procs, y \in Sessions : IsBusyWith(z, y, g)' => z = q /\ y = t
      BY DEF CreatesAlone
    <3>1. q = p /\ t = s
      BY <1>1, <2>2, <2>4 DEF IsCreating, Stands
    <3>2. absent /\ session'[q][t].pc = "create"
      BY <1>1, <3>1 DEF IsCreating, Stands
    <3>3. \A z \in Procs, y \in Sessions : IsBusyWith(z, y, g)' => z = p /\ y = s
      BY <1>1, <2>2, <2>6, <3>2 DEF IsBusyWith, Stands
    <3> QED BY <1>2, <1>3, <2>2, <2>6, <3>1, <3>2, <3>3
  <2>8. \A q \in Procs, t \in Sessions :
            (session[q][t].pc \in {"load", "spin"} /\ PathOf(q, t) = g)' =>
                session'[q][t].pc = "load" /\ file'[g] \in {"ended", "foreign"}
    <3> SUFFICES ASSUME NEW q \in Procs, NEW t \in Sessions,
                        session'[q][t].pc \in {"load", "spin"}, PathOf(q, t)' = g
                 PROVE  session'[q][t].pc = "load" /\ file'[g] \in {"ended", "foreign"}
      OBVIOUS
    <3>1. session'[p][s].pc \notin {"load", "spin"}
      BY <1>1 DEF Stands
    <3>2. session'[q][t] = session[q][t]
      BY <1>1, <3>1 DEF Stands
    <3>3. PathOf(q, t) = g
      BY <2>2
    <3> QED BY <1>2, <2>1, <3>2, <3>3 DEF Kept
  <2> QED BY <1>2, <2>1, <2>2, <2>5, <2>7, <2>8 DEF Kept
<1>9. FilesKept'
  BY <1>1, <1>2, <1>3, <1>4, <1>8, StandsKept
<1> QED BY <1>6, <1>7, <1>9 DEF Keeping

\* What the file of a session is, as long as there is no excuse.
LEMMA AtFile ==
    ASSUME Safe, Keeping, NEW p \in Procs, NEW s \in Sessions,
           session[p][s].pc \in {"create", "wait", "init", "load", "spin"}
    PROVE  \E g \in Paths :
              /\ g = PathOf(p, s)
              /\ excuse[g] = "none" => Kept(g)
              /\ excuse[g] = "none" /\ session[p][s].init =>
                    \A q \in Procs, t \in Sessions : IsBusyWith(q, t, g) => q = p /\ t = s
<1>1. session[p][s].name \in Names
  BY DEF Safe, TypeOK, SessionRecord
<1>2. PICK g \in Paths : g = PathOf(p, s)
  BY <1>1, AccessAssumption DEF PathOf
<1>3. session[p][s].init => IsCreating(p, s)
  BY DEF IsCreating, Keeping, StagesKnown
<1> QED BY <1>2, <1>3 DEF Keeping, FilesKept, Kept, CreatesAlone

LEMMA CreateKeeps ==
    ASSUME Safe, Keeping, NEW p \in Procs, NEW s \in Sessions, CreateEmpty(p, s)
    PROVE  Keeping'
<1>1. session[p][s].pc = "create" /\ session[p][s].init
  BY DEF CreateEmpty, At, Keeping, StagesKnown
<1>2. PICK g \in Paths :
         /\ g = PathOf(p, s)
         /\ excuse[g] = "none" => Kept(g)
         /\ excuse[g] = "none" =>
               \A q \in Procs, t \in Sessions : IsBusyWith(q, t, g) => q = p /\ t = s
  BY <1>1, AtFile
<1>3. Stands(p, s, "wait", session[p][s].init)
  BY GoToStands DEF Safe, CreateEmpty, SessionStates, Providing
<1>4. /\ file' = [file EXCEPT ![g] = "empty"] /\ writes' = [writes EXCEPT ![g] = 0]
      /\ promised' = promised /\ lost' = lost /\ excuse' = excuse
  BY <1>2 DEF CreateEmpty, history
<1>5. file \in [Paths -> FileStates] /\ writes \in [Paths -> 0..MaxWrites] /\ TypeOK
  BY DEF Safe, TypeOK
<1>6. StagesKnown'
  BY <1>3, StandsStages DEF Keeping
<1>7. FilesThere'
  BY <1>2, <1>3, <1>4, <1>5, StandsThere DEF Keeping
<1>8. ASSUME excuse'[g] = "none" PROVE Kept(g)'
  <2>1. /\ \A q \in Procs, t \in Sessions : PathOf(q, t)' = PathOf(q, t)
        /\ \A q \in Procs, n \in Names : IsOpen(q, n)' <=> IsOpen(q, n)
    BY <1>3 DEF PathOf, IsOpen, Stands
  <2>2. /\ promised[g] = 0 /\ \A q \in Procs, n \in Names : IsOpen(q, n) => Absolute[n] # g
    BY <1>1, <1>2, <1>4, <1>8 DEF Kept, CreatesAlone, IsCreating
  <2>3. file'[g] = "empty" /\ writes'[g] = 0 /\ promised'[g] = 0
    BY <1>4, <1>5, <2>2
  <2>4. \A q \in Procs, t \in Sessions : IsBusyWith(q, t, g)' => q = p /\ t = s
    BY <1>2, <1>3, <1>4, <1>8, <2>1 DEF IsBusyWith, Stands
  <2>5. IsCreating(p, s)' /\ PathOf(p, s)' = g /\ session'[p][s].pc = "wait"
    BY <1>1, <1>2, <1>3, <2>1 DEF IsCreating, Stands
  <2>6. CreatesAlone(g)'
    BY <2>1, <2>2, <2>3, <2>4, <2>5 DEF CreatesAlone, IsBusyWith, IsCreating
  <2>7. \A q \in Procs, t \in Sessions :
            (session[q][t].pc \in {"load", "spin"} /\ PathOf(q, t) = g)' => FALSE
    BY <2>4, <2>5 DEF IsBusyWith
  <2> QED BY <2>3, <2>5, <2>6, <2>7 DEF Kept
<1>9. FilesKept'
  BY <1>2, <1>3, <1>4, <1>5, <1>8, StandsKept
<1> QED BY <1>6, <1>7, <1>9 DEF Keeping

\* Who is granted access finds an END marker, or is alone with a file it creates.
LEMMA WaitKeeps ==
    ASSUME Safe, Keeping, NEW p \in Procs, NEW s \in Sessions, SemWait(p, s)
    PROVE  Keeping'
<1> DEFINE pc == IF session[p][s].init THEN "init" ELSE "load"
<1>1. session[p][s].pc = "wait" /\ sem[PathOf(p, s)] > 0 /\ session[p][s].init \in BOOLEAN
  BY DEF SemWait, Grant, At, Safe, TypeOK, SessionRecord
<1>2. PICK g \in Paths :
         /\ g = PathOf(p, s)
         /\ excuse[g] = "none" => Kept(g)
         /\ excuse[g] = "none" /\ session[p][s].init =>
               \A q \in Procs, t \in Sessions : IsBusyWith(q, t, g) => q = p /\ t = s
  BY <1>1, AtFile
<1>3. Stands(p, s, pc, session[p][s].init)
  BY GoToStands DEF Safe, SemWait, Grant, SessionStates, Providing
<1>4. file' = file /\ writes' = writes /\ promised' = promised /\ lost' = lost /\ excuse' = excuse
  BY DEF SemWait, Grant, storage, history
<1>5. file \in [Paths -> FileStates] /\ TypeOK
  BY DEF Safe, TypeOK
<1>6. StagesKnown'
  BY <1>3, StandsStages DEF Keeping
<1>7. file[g] # "absent"
  BY <1>1, <1>2 DEF Keeping, FilesThere
<1>8. FilesThere'
  BY <1>2, <1>3, <1>4, <1>5, <1>7, StandsThere DEF Keeping
<1>9. ASSUME excuse'[g] = "none" PROVE Kept(g)'
  <2>0. Kept(g)
    BY <1>2, <1>4, <1>9
  <2>1. /\ \A q \in Procs, t \in Sessions : PathOf(q, t)' = PathOf(q, t)
        /\ \A q \in Procs, n \in Names : IsOpen(q, n)' <=> IsOpen(q, n)
    BY <1>3 DEF PathOf, IsOpen, Stands
  <2>2. \A q \in Procs, t \in Sessions :
            /\ IsBusyWith(q, t, g)' <=> IsBusyWith(q, t, g)
            /\ IsCreating(q, t)' <=> IsCreating(q, t)
    BY <1>1, <1>3, <2>1 DEF IsBusyWith, IsCreating, Stands
  <2>3. \A q \in Procs, t \in Sessions : IsCreating(q, t) /\ PathOf(q, t) = g =>
            (session'[q][t].pc = "create" <=> session[q][t].pc = "create")
    BY <1>1, <1>3 DEF Stands
  <2>4. CreatesAlone(g)
    BY <2>0 DEF Kept
  <2>5. CreatesAlone(g)'
    BY <1>4, <2>1, <2>2, <2>3, <2>4 DEF CreatesAlone
  <2>6. pc = "load" => file[g] \in {"ended", "foreign"}
    <3> SUFFICES ASSUME ~session[p][s].init PROVE file[g] \in {"ended", "foreign"}
      OBVIOUS
    <3>1. file[g] # "dirty"
      BY <1>1, <1>2, <2>0 DEF Safe, Exclusion, HoldersTook, Kept
    <3>2. file[g] # "empty"
      BY <1>1, <1>2, <2>0, <2>4 DEF Kept, CreatesAlone, IsBusyWith, IsCreating
    <3> QED BY <1>5, <1>7, <3>1, <3>2 DEF FileStates
  <2>7. \A q \in Procs, t \in Sessions :
            (session[q][t].pc \in {"load", "spin"} /\ PathOf(q, t) = g)' =>
                session'[q][t].pc = "load" /\ file'[g] \in {"ended", "foreign"}
    <3> SUFFICES ASSUME NEW q \in Procs, NEW t \in Sessions,
                        session'[q][t].pc \in {"load", "spin"}, PathOf(q, t)' = g
                 PROVE  session'[q][t].pc = "load" /\ file'[g] \in {"ended", "foreign"}
      OBVIOUS
    <3>1. CASE q = p /\ t = s
      BY <1>3, <1>4, <2>6, <3>1 DEF Stands
    <3>2. CASE q # p \/ t # s
      <4>1. session'[q][t] = session[q][t] /\ PathOf(q, t) = g
        BY <1>3, <2>1, <3>2 DEF Stands
      <4> QED BY <1>4, <2>0, <4>1 DEF Kept
    <3> QED BY <3>1, <3>2
  <2> QED BY <1>4, <2>0, <2>1, <2>2, <2>5, <2>7 DEF Kept
<1>10. FilesKept'
  BY <1>2, <1>3, <1>4, <1>5, <1>9, StandsKept
<1> QED BY <1>6, <1>8, <1>10 DEF Keeping

\* Who creates the file leaves it with an END marker.
LEMMA HzaInitKeeps ==
    ASSUME Safe, Keeping, NEW p \in Procs, NEW s \in Sessions, HzaInit(p, s)
    PROVE  Keeping'
<1>1. session[p][s].pc = "init" /\ session[p][s].init
  BY DEF HzaInit, At, Keeping, StagesKnown
<1>2. PICK g \in Paths :
         /\ g = PathOf(p, s)
         /\ excuse[g] = "none" => Kept(g)
         /\ excuse[g] = "none" =>
               \A q \in Procs, t \in Sessions : IsBusyWith(q, t, g) => q = p /\ t = s
  BY <1>1, AtFile
<1>3. Stands(p, s, "load", FALSE)
  <2> DEFINE r == [session[p][s] EXCEPT !.pc = "load", !.init = FALSE]
  <2>1. session[p][s] \in SessionRecord /\ TypeOK
    BY DEF Safe, TypeOK
  <2>2. r \in SessionRecord /\ r.pc = "load" /\ r.init = FALSE /\ r.name = session[p][s].name
    BY <2>1 DEF SessionRecord, SessionStates, Providing
  <2>3. session' = [session EXCEPT ![p][s] = r] /\ proc' = proc
    BY <2>1 DEF HzaInit, TypeOK
  <2> HIDE DEF r
  <2>4. /\ session'[p][s] = r
        /\ \A q \in Procs, t \in Sessions : q # p \/ t # s => session'[q][t] = session[q][t]
    <3>1. TypeOK /\ session' = [session EXCEPT ![p][s] = r] /\ r \in SessionRecord
      BY <2>1, <2>2, <2>3
    <3> QED BY <3>1, SessionMoves
  <2> QED BY <2>2, <2>3, <2>4 DEF Stands
<1>4. /\ file' = [file EXCEPT ![g] = "ended"] /\ writes' = [writes EXCEPT ![g] = 0]
      /\ promised' = promised /\ lost' = lost /\ excuse' = excuse
  BY <1>2 DEF HzaInit, history
<1>5. file \in [Paths -> FileStates] /\ writes \in [Paths -> 0..MaxWrites] /\ TypeOK
  BY DEF Safe, TypeOK
<1>6. StagesKnown'
  BY <1>3, StandsStages DEF Keeping
<1>7. FilesThere'
  BY <1>2, <1>3, <1>4, <1>5, StandsThere DEF Keeping
<1>8. ASSUME excuse'[g] = "none" PROVE Kept(g)'
  <2>1. \A q \in Procs, t \in Sessions : PathOf(q, t)' = PathOf(q, t)
    BY <1>3 DEF PathOf, Stands
  <2>2. promised[g] = 0
    BY <1>1, <1>2, <1>4, <1>8 DEF Kept, CreatesAlone, IsCreating
  <2>3. file'[g] = "ended" /\ writes'[g] = 0 /\ promised'[g] = 0
    BY <1>4, <1>5, <2>2
  <2>4. \A q \in Procs, t \in Sessions : IsBusyWith(q, t, g)' => q = p /\ t = s
    BY <1>2, <1>3, <1>4, <1>8, <2>1 DEF IsBusyWith, Stands
  <2>5. session'[p][s].pc = "load" /\ ~session'[p][s].init
    BY <1>3 DEF Stands
  <2>6. CreatesAlone(g)'
    BY <2>4, <2>5 DEF CreatesAlone, IsBusyWith, IsCreating
  <2>7. \A q \in Procs, t \in Sessions :
            (session[q][t].pc \in {"load", "spin"} /\ PathOf(q, t) = g)' => session'[q][t].pc = "load"
    BY <2>4, <2>5 DEF IsBusyWith
  <2> QED BY <2>3, <2>6, <2>7 DEF Kept
<1>9. FilesKept'
  BY <1>2, <1>3, <1>4, <1>5, <1>8, StandsKept
<1> QED BY <1>6, <1>7, <1>9 DEF Keeping

\* A scan that reads on has an excuse.
LEMMA LostKeeps ==
    ASSUME Safe, Keeping, NEW p \in Procs, NEW s \in Sessions, LoadLost(p, s)
    PROVE  Keeping'
<1>1. session[p][s].pc = "load" /\ file[PathOf(p, s)] \in {"empty", "dirty"} /\ ~session[p][s].init
  BY DEF LoadLost, At, Keeping, StagesKnown
<1>2. PICK g \in Paths : g = PathOf(p, s) /\ (excuse[g] = "none" => Kept(g))
  BY <1>1, AtFile
<1>3. Stands(p, s, "spin", session[p][s].init)
  BY GoToStands DEF Safe, LoadLost, SessionStates, Providing
<1>4. file' = file /\ writes' = writes /\ promised' = promised /\ lost' = lost /\ excuse' = excuse
  BY DEF LoadLost, storage, history
<1>5. TypeOK
  BY DEF Safe
<1>6. StagesKnown'
  BY <1>1, <1>3, StandsStages DEF Keeping
<1>7. FilesThere'
  BY <1>1, <1>2, <1>3, <1>4, <1>5, StandsThere DEF Keeping
<1>8. excuse'[g] # "none"
  BY <1>1, <1>2, <1>4 DEF Kept
<1>9. FilesKept'
  BY <1>2, <1>3, <1>4, <1>5, <1>8, StandsKept
<1> QED BY <1>6, <1>7, <1>9 DEF Keeping

\* An operation writes to a file that its process has open, or after the handler
\* has closed it.
LEMMA WriteKeeps ==
    ASSUME Safe, Keeping, NEW p \in Procs, NEW s \in Sessions, Write(p, s)
    PROVE  Keeping'
<1>0. session[p][s] \in SessionRecord /\ TypeOK
  BY DEF Safe, TypeOK
<1>1. PICK n \in Names : n = session[p][s].name /\ n \in proc[p].arch_map
  BY <1>0 DEF Write, At, Keeping, StagesKnown, SessionRecord
<1>2. PICK g \in Paths : g = PathOf(p, s) /\ g = Absolute[n]
  BY <1>1, AccessAssumption DEF PathOf
<1>3. Stands(p, s, "held", session[p][s].init)
  <2>1. \A q \in Procs : proc'[q].arch_map = proc[q].arch_map /\ proc'[q].closed = proc[q].closed
    <3> DEFINE r == [proc[p] EXCEPT !.busy[n] = "free"]
    <3>1. proc[p] \in ProcRecord
      BY DEF Safe, TypeOK
    <3>2. r \in ProcRecord /\ r.arch_map = proc[p].arch_map /\ r.closed = proc[p].closed
      BY <3>1 DEF ProcRecord
    <3>3. TypeOK /\ r \in ProcRecord /\ proc' = [proc EXCEPT ![p] = r]
      BY <1>0, <1>1, <3>2 DEF Write, TypeOK
    <3> HIDE DEF r
    <3>4. proc'[p] = r /\ \A q \in Procs : q # p => proc'[q] = proc[q]
      BY <3>3, ProcMoves
    <3> QED BY <3>2, <3>4
  <2>2. GoTo(p, s, "held") /\ "held" \in SessionStates
    BY DEF Write, SessionStates
  <2> QED BY <1>0, <2>1, <2>2, GoToStands
<1>4. /\ file' = [file EXCEPT ![g] = "dirty"] /\ writes' = [writes EXCEPT ![g] = @ + 1]
      /\ promised' = promised /\ lost' = lost
      /\ Excuse({Absolute[m] : m \in {n} \cap proc[p].closed}, "late write")
  BY <1>1, <1>2 DEF Write
<1>5. file \in [Paths -> FileStates] /\ writes \in [Paths -> 0..MaxWrites]
      /\ promised \in [Paths -> 0..MaxWrites]
  BY DEF Safe, TypeOK
<1>6. /\ \A f \in Paths : excuse'[f] = "none" => excuse[f] = "none"
      /\ excuse'[g] = "none" => n \notin proc[p].closed
  <2> DEFINE P == {Absolute[m] : m \in {n} \cap proc[p].closed}
  <2>1. n \in proc[p].closed => g \in P
    BY <1>2
  <2>2. Excuse(P, "late write") /\ "late write" \in Excuses \ {"none"}
    BY <1>4 DEF Excuses
  <2> HIDE DEF P
  <2>3. \A f \in Paths : excuse'[f] = "none" => excuse[f] = "none" /\ f \notin P
    BY <1>0, <2>2, ExcuseStays
  <2> QED BY <2>1, <2>3
<1>7. StagesKnown'
  BY <1>1, <1>3, StandsStages DEF Keeping
<1>8. FilesThere'
  BY <1>0, <1>2, <1>3, <1>4, <1>5, StandsThere DEF Keeping
<1>9. ASSUME excuse'[g] = "none" PROVE Kept(g)'
  <2>1. /\ \A q \in Procs, t \in Sessions : PathOf(q, t)' = PathOf(q, t)
        /\ \A q \in Procs, k \in Names : IsOpen(q, k)' <=> IsOpen(q, k)
    BY <1>3 DEF PathOf, IsOpen, Stands
  <2>2. Kept(g)
    BY <1>6, <1>9 DEF Keeping, FilesKept
  <2>3. IsOpen(p, n)
    BY <1>1, <1>6, <1>9 DEF IsOpen
  <2>4. \A q \in Procs, t \in Sessions : ~(IsOpening(q, t) /\ PathOf(q, t) = g)
    BY <1>1, <1>2, <2>3 DEF Safe, Exclusion, HoldersExclude
  <2>5. \A q \in Procs, t \in Sessions : ~(IsCreating(q, t) /\ PathOf(q, t) = g)
    BY <1>1, <1>2, <2>2, <2>3 DEF Kept, CreatesAlone
  <2>6. \A q \in Procs, t \in Sessions :
            /\ (session[q][t].pc \in {"load", "spin"})' => IsOpening(q, t)
            /\ IsCreating(q, t)' => IsCreating(q, t)
    BY <1>3 DEF IsOpening, IsCreating, Stands
  <2>7. CreatesAlone(g)'
    BY <2>1, <2>5, <2>6 DEF CreatesAlone
  <2>8. file'[g] = "dirty" /\ writes'[g] >= promised'[g]
    <3>1. writes[g] >= promised[g] /\ writes[g] \in Nat /\ promised[g] \in Nat
      BY <1>5, <2>2, AccessAssumption DEF Kept
    <3>2. file'[g] = "dirty" /\ writes'[g] = writes[g] + 1 /\ promised'[g] = promised[g]
      BY <1>4, <1>5
    <3> QED BY <3>1, <3>2
  <2>9. IsOpen(p, n)' /\ Absolute[n] = g
    BY <1>1, <1>2, <2>1, <2>3
  <2> QED BY <1>1, <2>1, <2>4, <2>6, <2>7, <2>8, <2>9 DEF Kept
<1>10. FilesKept'
  BY <1>0, <1>2, <1>3, <1>4, <1>5, <1>6, <1>9, StandsKept
<1> QED BY <1>7, <1>8, <1>10 DEF Keeping

\* A command that begins, reads, fails or ends.
LEMMA QuietKeeps ==
    ASSUME Safe, Keeping, NEW p \in Procs, NEW s \in Sessions,
           \/ \E n \in Names : Ask(p, s, n)
           \/ ProvideKnown(p, s) \/ ProvideNew(p, s) \/ Begin(p, s)
           \/ Read(p, s) \/ Throw(p, s) \/ EndCommand(p, s)
    PROVE  Keeping'
<1>1. TypeOK /\ TypeOK' /\ ProvidersExclude
  BY SessionTypes DEF Safe, Provide, Operate
<1>2. Outside(p, s) \/ Inside(p, s) \/ Opens(p, s) \/ Gains(p, s) \/ Enters(p, s) \/ Drops(p, s)
  BY <1>1, SessionEffects DEF Provide, Operate
<1>3. session[p][s].pc \in {"idle", "ask", "held", "op"}
  BY DEF Ask, ProvideKnown, ProvideNew, Begin, Read, Throw, EndCommand, At
<1>4. Outside(p, s) \/ Inside(p, s)
  BY <1>2, <1>3 DEF Opens, Gains, Enters, Drops
<1>5. /\ file' = file /\ writes' = writes /\ promised' = promised /\ lost' = lost /\ excuse' = excuse
  BY DEF Ask, ProvideKnown, ProvideNew, Begin, Read, Throw, EndCommand, storage, history
<1>6. \/ session'[p][s].pc \in {"idle", "ask", "check"}
      \/ /\ session'[p][s].pc \in {"held", "op"}
         /\ session'[p][s].name = session[p][s].name
         /\ session[p][s].name \in proc[p].arch_map
  <2>1. ASSUME NEW n \in Names, Ask(p, s, n) PROVE session'[p][s].pc = "ask"
    <3> DEFINE r == [pc |-> "ask", name |-> n, init |-> FALSE]
    <3>1. r \in SessionRecord /\ r.pc = "ask" /\ session' = [session EXCEPT ![p][s] = r]
      BY <2>1 DEF Ask, SessionRecord, SessionStates
    <3> HIDE DEF r
    <3> QED BY <1>1, <3>1, SessionMoves
  <2>2. ASSUME Throw(p, s) \/ EndCommand(p, s) PROVE session'[p][s].pc = "idle"
    BY <1>1, <2>2, RecordTypes, SessionMoves DEF Throw, EndCommand, Leave
  <2>3. ASSUME ProvideNew(p, s) PROVE session'[p][s].pc = "check"
    BY <1>1, <2>3, GoToMoves DEF ProvideNew, SessionStates, Providing
  <2>4. ASSUME ProvideKnown(p, s) \/ Begin(p, s) \/ Read(p, s)
        PROVE  /\ session'[p][s].pc \in {"held", "op"}
               /\ session'[p][s].name = session[p][s].name
               /\ session[p][s].name \in proc[p].arch_map
    <3>1. GoTo(p, s, "held") \/ GoTo(p, s, "op")
      BY <2>4 DEF ProvideKnown, Begin, Read
    <3>2. session[p][s].name \in proc[p].arch_map
      BY <2>4 DEF ProvideKnown, Begin, Read, At, Keeping, StagesKnown
    <3> QED BY <1>1, <3>1, <3>2, GoToMoves DEF SessionStates
  <2> QED BY <2>1, <2>2, <2>3, <2>4
<1>7. /\ \A q \in Procs, t \in Sessions : q # p \/ t # s => session'[q][t] = session[q][t]
      /\ \A q \in Procs : proc'[q].arch_map = proc[q].arch_map /\ proc'[q].closed = proc[q].closed
  BY <1>4 DEF Outside, Inside, Moves
<1>8. StagesKnown'
  BY <1>6, <1>7 DEF Keeping, StagesKnown
<1>9. ASSUME NEW f \in Paths PROVE SameAt(f)
  <2>1. \A q \in Procs, n \in Names : IsOpen(q, n)' <=> IsOpen(q, n)
    BY <1>7 DEF IsOpen
  <2>2. ~IsBusyWith(p, s, f) /\ ~IsBusyWith(p, s, f)'
    BY <1>3, <1>6 DEF IsBusyWith
  <2>3. \A q \in Procs, t \in Sessions :
            /\ IsBusyWith(q, t, f)' <=> IsBusyWith(q, t, f)
            /\ IsBusyWith(q, t, f) => session'[q][t] = session[q][t]
    BY <1>7, <2>2 DEF IsBusyWith, PathOf
  <2> QED BY <1>5, <2>1, <2>3 DEF SameAt
<1> QED BY <1>1, <1>5, <1>8, <1>9, AllSameThere, AllSameKept DEF Keeping

\* The archive is in the map, over a file with an END marker.
LEMMA LoadKeeps ==
    ASSUME Safe, Keeping, NEW p \in Procs, NEW s \in Sessions, Load(p, s)
    PROVE  Keeping'
<1>0. TypeOK /\ session[p][s] \in SessionRecord /\ proc[p] \in ProcRecord
  BY DEF Safe, TypeOK
<1>1. /\ session[p][s].pc = "load" /\ file[PathOf(p, s)] = "ended"
      /\ ~session[p][s].init
  BY DEF Load, Loaded, At, Keeping, StagesKnown
<1>2. PICK g \in Paths : g = PathOf(p, s) /\ (excuse[g] = "none" => Kept(g))
  BY <1>1, AtFile
<1>3. PICK n \in Names : n = session[p][s].name /\ Absolute[n] = g
  BY <1>0, <1>2 DEF PathOf, SessionRecord
<1>4. /\ session'[p][s].pc = "held" /\ session'[p][s].name = n
      /\ \A q \in Procs, t \in Sessions : q # p \/ t # s => session'[q][t] = session[q][t]
  BY <1>0, <1>3, GoToMoves DEF Load, Loaded, SessionStates
<1>5. /\ proc'[p].arch_map = proc[p].arch_map \cup {n} /\ proc'[p].closed = proc[p].closed
      /\ \A q \in Procs : q # p => proc'[q] = proc[q]
  <2> DEFINE r == [proc[p] EXCEPT !.mutex = "free", !.arch_map = @ \cup {n}]
  <2>1. r \in ProcRecord /\ r.arch_map = proc[p].arch_map \cup {n} /\ r.closed = proc[p].closed
    BY <1>0 DEF ProcRecord
  <2>2. TypeOK /\ r \in ProcRecord /\ proc' = [proc EXCEPT ![p] = r]
    BY <1>0, <1>3, <2>1 DEF Load, Loaded, TypeOK
  <2> HIDE DEF r
  <2>3. proc'[p] = r /\ \A q \in Procs : q # p => proc'[q] = proc[q]
    BY <2>2, ProcMoves
  <2> QED BY <2>1, <2>3
<1>6. file' = file /\ writes' = writes /\ promised' = promised /\ lost' = lost /\ excuse' = excuse
  BY DEF Load, Loaded, storage, history
<1>7. /\ \A q \in Procs, k \in Names : q # p \/ k # n => (IsOpen(q, k)' <=> IsOpen(q, k))
      /\ \A q \in Procs, t \in Sessions : PathOf(q, t)' = PathOf(q, t)
      /\ file[g] = "ended"
  BY <1>1, <1>2, <1>3, <1>4, <1>5 DEF IsOpen, PathOf
<1>8. StagesKnown'
  BY <1>4, <1>5 DEF Keeping, StagesKnown
<1>9. \A q \in Procs, t \in Sessions :
         session'[q][t].pc \in {"create", "wait", "init", "load", "spin"} => session'[q][t] = session[q][t]
  BY <1>4
<1>10. FilesThere'
  <2>1. \A q \in Procs, k \in Names : IsOpen(q, k)' => file'[Absolute[k]] # "absent"
    BY <1>3, <1>6, <1>7 DEF Keeping, FilesThere
  <2>2. \A q \in Procs, t \in Sessions :
          session'[q][t].pc \in {"wait", "init", "load", "spin"} => file'[PathOf(q, t)'] # "absent"
    BY <1>6, <1>7, <1>9 DEF Keeping, FilesThere
  <2> QED BY <1>6, <2>1, <2>2 DEF Keeping, FilesThere
<1>11. ASSUME NEW f \in Paths, excuse'[f] = "none" PROVE Kept(f)'
  <2>1. Kept(f)
    BY <1>6, <1>11 DEF Keeping, FilesKept
  <2>2. CASE f # g
    <3>1. \A q \in Procs, t \in Sessions :
            /\ IsBusyWith(q, t, f)' <=> IsBusyWith(q, t, f)
            /\ IsBusyWith(q, t, f) => session'[q][t] = session[q][t]
      BY <1>2, <1>4, <1>7, <2>2 DEF IsBusyWith
    <3>2. SameAt(f)
      BY <1>3, <1>6, <1>7, <2>2, <3>1 DEF SameAt
    <3> QED BY <2>1, <3>2, SameKept
  <2>3. CASE f = g
    <3>1. \A q \in Procs, t \in Sessions : ~(IsCreating(q, t)' /\ PathOf(q, t) = g)
      <4> SUFFICES ASSUME NEW q \in Procs, NEW t \in Sessions, IsCreating(q, t)', PathOf(q, t) = g
                   PROVE  FALSE
        OBVIOUS
      <4>1. IsCreating(q, t)
        BY <1>9 DEF IsCreating
      <4>2. IsBusyWith(p, s, g)
        BY <1>1, <1>2 DEF IsBusyWith
      <4>3. q = p /\ t = s
        BY <2>1, <2>3, <4>1, <4>2 DEF Kept, CreatesAlone
      <4> QED BY <1>1, <4>1, <4>3 DEF IsCreating
    <3>2. CreatesAlone(g)'
      BY <1>7, <3>1 DEF CreatesAlone
    <3>3. \A q \in Procs, t \in Sessions :
            (session[q][t].pc \in {"load", "spin"} /\ PathOf(q, t) = g)' =>
                session'[q][t].pc = "load" /\ file'[g] \in {"ended", "foreign"}
      BY <1>6, <1>7, <1>9, <2>1, <2>3 DEF Kept
    <3>4. writes'[g] >= promised'[g]
      BY <1>6, <2>1, <2>3 DEF Kept
    <3> QED BY <1>6, <1>7, <2>3, <3>2, <3>3, <3>4 DEF Kept
  <2> QED BY <2>2, <2>3
<1> QED BY <1>8, <1>10, <1>11 DEF Keeping, FilesKept

\* load() throws: the session is gone from its file.
LEMMA ThrowsKeeps ==
    ASSUME Safe, Keeping, NEW p \in Procs, NEW s \in Sessions, LoadThrows(p, s)
    PROVE  Keeping'
<1>0. TypeOK /\ proc[p] \in ProcRecord
  BY DEF Safe, TypeOK
<1>1. session[p][s].pc = "load" /\ file[PathOf(p, s)] = "foreign" /\ ~session[p][s].init
  BY DEF LoadThrows, At, Keeping, StagesKnown
<1>2. PICK g \in Paths : g = PathOf(p, s) /\ (excuse[g] = "none" => Kept(g))
  BY <1>1, AtFile
<1>3. /\ session'[p][s].pc = "idle"
      /\ \A q \in Procs, t \in Sessions : q # p \/ t # s => session'[q][t] = session[q][t]
  <2>1. TypeOK /\ NoSession \in SessionRecord /\ session' = [session EXCEPT ![p][s] = NoSession]
    BY <1>0, RecordTypes DEF LoadThrows, Leave
  <2>2. /\ session'[p][s] = NoSession
        /\ \A q \in Procs, t \in Sessions : q # p \/ t # s => session'[q][t] = session[q][t]
    BY <2>1, SessionMoves
  <2> QED BY <2>2, RecordTypes
<1>4. \A q \in Procs : proc'[q].arch_map = proc[q].arch_map /\ proc'[q].closed = proc[q].closed
  <2> DEFINE r == [proc[p] EXCEPT !.mutex = "leaked"]
  <2>1. r \in ProcRecord /\ r.arch_map = proc[p].arch_map /\ r.closed = proc[p].closed
    BY <1>0 DEF ProcRecord
  <2>2. TypeOK /\ r \in ProcRecord /\ proc' = [proc EXCEPT ![p] = r]
    BY <1>0, <2>1 DEF LoadThrows, TypeOK
  <2> HIDE DEF r
  <2>3. proc'[p] = r /\ \A q \in Procs : q # p => proc'[q] = proc[q]
    BY <2>2, ProcMoves
  <2> QED BY <2>1, <2>3
<1>5. /\ file' = file /\ writes' = writes /\ promised' = promised /\ excuse' = excuse
      /\ lost \subseteq lost'
  BY DEF LoadThrows
<1>6. \A q \in Procs, t \in Sessions :
         session'[q][t].pc # "idle" => (q # p \/ t # s) /\ session'[q][t] = session[q][t]
  BY <1>3
<1>7. \A q \in Procs, k \in Names : IsOpen(q, k)' <=> IsOpen(q, k)
  BY <1>4 DEF IsOpen
<1>8. StagesKnown'
  BY <1>4, <1>6 DEF Keeping, StagesKnown
<1>9. \A q \in Procs, t \in Sessions : session'[q][t].pc # "idle" => PathOf(q, t)' = PathOf(q, t)
  BY <1>6 DEF PathOf
<1>10. FilesThere'
  BY <1>5, <1>6, <1>7, <1>9 DEF Keeping, FilesThere
<1>11. ASSUME NEW f \in Paths, excuse'[f] = "none" PROVE Kept(f)'
  <2>1. Kept(f)
    BY <1>5, <1>11 DEF Keeping, FilesKept
  <2>2. \A q \in Procs, t \in Sessions :
            /\ IsCreating(q, t) /\ PathOf(q, t) = f => session'[q][t] = session[q][t] /\ PathOf(q, t)' = f
            /\ IsCreating(q, t)' => IsCreating(q, t) /\ PathOf(q, t)' = PathOf(q, t)
            /\ IsBusyWith(q, t, f)' => IsBusyWith(q, t, f)
    BY <1>1, <1>3, <1>6, <1>9 DEF IsCreating, IsBusyWith, PathOf
  <2>3. CreatesAlone(f)'
    BY <1>5, <1>6, <1>7, <2>1, <2>2 DEF Kept, CreatesAlone, IsCreating
  <2>4. \A q \in Procs, t \in Sessions :
            (session[q][t].pc \in {"load", "spin"} /\ PathOf(q, t) = f)' =>
                session'[q][t].pc = "load" /\ file'[f] \in {"ended", "foreign"}
    BY <1>5, <1>6, <1>9, <2>1 DEF Kept
  <2>5. file'[f] = "empty" => \E q \in Procs, t \in Sessions : (IsCreating(q, t) /\ PathOf(q, t) = f)'
    BY <1>5, <2>1, <2>2 DEF Kept, IsCreating
  <2>6. file'[f] = "dirty" => f \in lost' \/ \E q \in Procs, n \in Names : IsOpen(q, n)' /\ Absolute[n] = f
    BY <1>5, <1>7, <2>1 DEF Kept
  <2>7. writes'[f] >= promised'[f]
    BY <1>5, <2>1 DEF Kept
  <2> QED BY <2>3, <2>4, <2>5, <2>6, <2>7 DEF Kept
<1> QED BY <1>8, <1>10, <1>11 DEF Keeping, FilesKept

\* What the handler and a start do short of closing an archive.
LEMMA ProcessKeeps ==
    ASSUME Safe, Keeping, NEW p \in Procs,
           \/ \E v \in Sessions \cup {"free"} : Signal(p, v)
           \/ CloseLock(p) \/ CloseUnlock(p) \/ Start(p)
    PROVE  Keeping'
<1>1. TypeOK /\ TypeOK' /\ HandlersExclude
  BY ProcessTypes DEF Safe, Shutdown
<1>2. /\ file' = file /\ writes' = writes /\ promised' = promised /\ lost' = lost /\ excuse' = excuse
      /\ session' = session
  BY DEF Signal, CloseLock, CloseUnlock, Start, storage, history
<1>3. /\ \A q \in Procs, n \in Names : IsOpen(q, n)' <=> IsOpen(q, n)
      /\ \A q \in Procs : (\A t \in Sessions : session[q][t].pc = "idle") \/ proc'[q].arch_map = proc[q].arch_map
  <2>1. CASE Start(p)
    <3>1. /\ proc'[p] = Started /\ \A q \in Procs : q # p => proc'[q] = proc[q]
          /\ proc[p] = Gone /\ \A t \in Sessions : session[p][t] = NoSession
      BY <1>1, <2>1 DEF Start, TypeOK, HandlersExclude
    <3> QED BY <3>1, RecordTypes DEF IsOpen
  <2>2. CASE ~Start(p)
    <3>1. Handles(p)
      BY <1>1, <2>2, ProcessEffects
    <3>2. \A q \in Procs : proc'[q].arch_map = proc[q].arch_map /\ proc'[q].closed = proc[q].closed
      BY <3>1 DEF Handles, Turns
    <3> QED BY <3>2 DEF IsOpen
  <2> QED BY <2>1, <2>2
<1>4. StagesKnown'
  BY <1>2, <1>3 DEF Keeping, StagesKnown
<1>5. ASSUME NEW f \in Paths PROVE SameAt(f)
  BY <1>2, <1>3 DEF SameAt, IsBusyWith, PathOf
<1> QED BY <1>1, <1>2, <1>4, <1>5, AllSameThere, AllSameKept DEF Keeping

\* close() leaves an END marker and what the file holds by now is promised.
LEMMA CloseKeeps ==
    ASSUME Safe, Keeping, NEW p \in Procs, NEW n \in Names, Close(p, n)
    PROVE  Keeping'
<1>1. TypeOK /\ HandlersExclude
  BY DEF Safe
<1>2. PICK g \in Paths : g = Absolute[n]
  BY AccessAssumption
<1>3. Closes(p, n)
  BY <1>1, ProcessEffects
<1>4. /\ file' = [file EXCEPT ![g] = "ended"] /\ promised' = [promised EXCEPT ![g] = writes[g]]
      /\ writes' = writes /\ lost' = lost /\ excuse' = excuse /\ session' = session
  BY <1>2 DEF Close, Closing
<1>5. /\ file \in [Paths -> FileStates] /\ writes \in [Paths -> 0..MaxWrites]
      /\ promised \in [Paths -> 0..MaxWrites]
  BY <1>1 DEF TypeOK
<1>6. /\ IsOpen(p, n)
      /\ \A q \in Procs : proc'[q].arch_map = proc[q].arch_map
      /\ \A q \in Procs, k \in Names : IsOpen(q, k)' => IsOpen(q, k)
      /\ \A q \in Procs, k \in Names : k # n => (IsOpen(q, k)' <=> IsOpen(q, k))
  BY <1>3 DEF Closes, Turns, IsOpen
<1>7. StagesKnown'
  BY <1>4, <1>6 DEF Keeping, StagesKnown
<1>8. \A q \in Procs, t \in Sessions : PathOf(q, t)' = PathOf(q, t)
  BY <1>4 DEF PathOf
<1>9. file'[g] = "ended" /\ promised'[g] = writes[g]
      /\ \A f \in Paths : f # g => file'[f] = file[f] /\ promised'[f] = promised[f]
  BY <1>4, <1>5
<1>10. FilesThere'
  <2>1. \A f \in Paths : file'[f] = "absent" => promised'[f] = 0
    BY <1>9 DEF Keeping, FilesThere
  <2>2. \A q \in Procs, t \in Sessions :
          session'[q][t].pc \in {"wait", "init", "load", "spin"} => file'[PathOf(q, t)'] # "absent"
    <3>1. \A q \in Procs, t \in Sessions : PathOf(q, t) \in Paths
      <4> SUFFICES ASSUME NEW q \in Procs, NEW t \in Sessions PROVE PathOf(q, t) \in Paths
        OBVIOUS
      <4>1. session[q][t].name \in Names
        BY <1>1 DEF TypeOK, SessionRecord
      <4> QED BY <4>1, AccessAssumption DEF PathOf
    <3> QED BY <1>4, <1>8, <1>9, <3>1 DEF Keeping, FilesThere
  <2>3. \A q \in Procs, k \in Names : IsOpen(q, k)' => file'[Absolute[k]] # "absent"
    BY <1>6, <1>9, AccessAssumption DEF Keeping, FilesThere
  <2> QED BY <2>1, <2>2, <2>3 DEF FilesThere
<1>11. ASSUME NEW f \in Paths, excuse'[f] = "none" PROVE Kept(f)'
  <2>1. Kept(f)
    BY <1>4, <1>11 DEF Keeping, FilesKept
  <2>2. CASE f # g
    <3>1. SameAt(f)
      BY <1>2, <1>4, <1>6, <1>8, <1>9, <2>2 DEF SameAt, IsBusyWith
    <3> QED BY <2>1, <3>1, SameKept
  <2>3. CASE f = g
    <3>1. \A q \in Procs, t \in Sessions : ~(IsCreating(q, t) /\ PathOf(q, t) = g)
      BY <1>2, <1>6, <2>1, <2>3 DEF Kept, CreatesAlone
    <3>2. CreatesAlone(g)'
      BY <1>4, <1>8, <3>1 DEF CreatesAlone, IsCreating
    <3>3. \A q \in Procs, t \in Sessions :
            (session[q][t].pc \in {"load", "spin"} /\ PathOf(q, t) = g)' =>
                session'[q][t].pc = "load" /\ file'[g] \in {"ended", "foreign"}
      BY <1>4, <1>8, <1>9, <2>1, <2>3 DEF Kept
    <3>4. writes'[g] >= promised'[g]
      BY <1>4, <1>5, <1>9
    <3> QED BY <1>9, <2>3, <3>2, <3>3, <3>4 DEF Kept
  <2> QED BY <2>2, <2>3
<1> QED BY <1>7, <1>10, <1>11 DEF Keeping, FilesKept

\* A process that dies leaves a file it had open to nobody, and one it was
\* creating with an excuse.
LEMMA DeathKeeps ==
    ASSUME Safe, Keeping, NEW p \in Procs, Exit(p) \/ Crash(p)
    PROVE  Keeping'
<1>1. TypeOK
  BY DEF Safe
<1>2. /\ Dies(p) /\ file' = file /\ writes' = writes /\ promised' = promised
  BY DEF Exit, Crash
<1>3. /\ proc'[p] = Gone /\ \A s \in Sessions : session'[p][s] = NoSession
      /\ \A q \in Procs : q # p => proc'[q] = proc[q] /\ session'[q] = session[q]
      /\ lost' = lost \cup Granted(p)
  BY <1>1, <1>2 DEF Dies, TypeOK
<1>4. /\ \A k \in Names : ~IsOpen(p, k)'
      /\ \A q \in Procs, k \in Names : IsOpen(q, k)' => IsOpen(q, k)
      /\ \A q \in Procs, k \in Names : q # p => (IsOpen(q, k)' <=> IsOpen(q, k))
      /\ \A q \in Procs, t \in Sessions : session'[q][t].pc # "idle" =>
            q # p /\ session'[q][t] = session[q][t] /\ PathOf(q, t)' = PathOf(q, t)
  BY <1>3, RecordTypes DEF IsOpen, PathOf
<1>5. \A f \in Paths : excuse'[f] = "none" =>
         /\ excuse[f] = "none"
         /\ \A s \in Sessions : ~(IsCreating(p, s) /\ PathOf(p, s) = f)
  <2> DEFINE P == {f \in Paths : Creates(p, f)}
  <2>1. Excuse(P, "creation cut short") /\ "creation cut short" \in Excuses \ {"none"}
    BY <1>2 DEF Dies, Excuses
  <2>2. \A f \in Paths : Creates(p, f) => f \in P
    OBVIOUS
  <2> HIDE DEF P
  <2>3. \A f \in Paths : excuse'[f] = "none" => excuse[f] = "none" /\ f \notin P
    BY <1>1, <2>1, ExcuseStays
  <2> QED BY <2>2, <2>3 DEF Creates, IsCreating
<1>6. StagesKnown'
  BY <1>3, <1>4 DEF Keeping, StagesKnown
<1>7. FilesThere'
  BY <1>2, <1>4 DEF Keeping, FilesThere
<1>8. ASSUME NEW f \in Paths, excuse'[f] = "none" PROVE Kept(f)'
  <2>1. Kept(f) /\ \A s \in Sessions : ~(IsCreating(p, s) /\ PathOf(p, s) = f)
    BY <1>5, <1>8 DEF Keeping, FilesKept
  <2>2. \A q \in Procs, t \in Sessions :
            /\ IsCreating(q, t) /\ PathOf(q, t) = f => (IsCreating(q, t) /\ PathOf(q, t) = f)'
            /\ (IsCreating(q, t) /\ PathOf(q, t) = f)' =>
                  IsCreating(q, t) /\ PathOf(q, t) = f /\ session'[q][t] = session[q][t]
            /\ IsBusyWith(q, t, f)' => IsBusyWith(q, t, f)
    BY <1>3, <1>4, <2>1 DEF IsCreating, IsBusyWith, PathOf
  <2>3. CreatesAlone(f)'
    BY <1>2, <1>4, <2>1, <2>2 DEF Kept, CreatesAlone
  <2>4. \A q \in Procs, t \in Sessions :
            (session[q][t].pc \in {"load", "spin"} /\ PathOf(q, t) = f)' =>
                session'[q][t].pc = "load" /\ file'[f] \in {"ended", "foreign"}
    BY <1>2, <1>4, <2>1 DEF Kept
  <2>5. file'[f] = "empty" => \E q \in Procs, t \in Sessions : (IsCreating(q, t) /\ PathOf(q, t) = f)'
    BY <1>2, <2>1, <2>2 DEF Kept
  <2>6. file'[f] = "dirty" => f \in lost' \/ \E q \in Procs, n \in Names : IsOpen(q, n)' /\ Absolute[n] = f
    <3>1. ASSUME NEW n \in Names, IsOpen(p, n), Absolute[n] = f PROVE f \in Granted(p)
      BY <3>1 DEF IsOpen, Granted
    <3> QED BY <1>2, <1>3, <1>4, <2>1, <3>1 DEF Kept
  <2>7. writes'[f] >= promised'[f]
    BY <1>2, <2>1 DEF Kept
  <2> QED BY <2>3, <2>4, <2>5, <2>6, <2>7 DEF Kept
<1> QED BY <1>6, <1>7, <1>8 DEF Keeping, FilesKept

\* After a restart a file is as it was, or has an excuse.
LEMMA RebootKeeps == Safe /\ Keeping /\ Reboot => Keeping'
<1> SUFFICES ASSUME Safe, Keeping, Reboot PROVE Keeping'
  OBVIOUS
<1>1. TypeOK
  BY DEF Safe
<1>2. /\ proc' = [p \in Procs |-> Gone] /\ promised' = promised
      /\ session' = [p \in Procs |-> [s \in Sessions |-> NoSession]]
  BY DEF Reboot
<1>3. PICK back \in SUBSET {f \in Paths : file[f] = "dirty"} :
          /\ file' = [f \in Paths |-> IF f \in back THEN "ended" ELSE file[f]]
          /\ writes' = [f \in Paths |-> IF f \in back THEN promised[f] ELSE writes[f]]
  BY DEF Reboot
<1>4. \A f \in Paths : excuse'[f] = "none" => excuse[f] = "none" /\ file[f] \notin {"empty", "dirty"}
  <2> DEFINE P == {f \in Paths : file[f] \in {"empty", "dirty"}}
  <2>1. Excuse(P, "restart") /\ "restart" \in Excuses \ {"none"}
    BY DEF Reboot, Excuses
  <2>2. \A f \in Paths : file[f] \in {"empty", "dirty"} => f \in P
    OBVIOUS
  <2> HIDE DEF P
  <2> QED BY <1>1, <2>1, <2>2, ExcuseStays
<1>5. /\ \A q \in Procs, t \in Sessions : session'[q][t].pc = "idle"
      /\ \A q \in Procs, k \in Names : ~IsOpen(q, k)'
  BY <1>2, RecordTypes DEF IsOpen
<1>6. StagesKnown' /\ FilesThere'
  BY <1>2, <1>3, <1>5 DEF Keeping, StagesKnown, FilesThere
<1>7. ASSUME NEW f \in Paths, excuse'[f] = "none" PROVE Kept(f)'
  <2>1. Kept(f) /\ file'[f] = file[f] /\ writes'[f] = writes[f] /\ file[f] \notin {"empty", "dirty"}
    BY <1>3, <1>4, <1>7 DEF Keeping, FilesKept
  <2>2. CreatesAlone(f)'
    BY <1>5 DEF CreatesAlone, IsCreating
  <2> QED BY <1>2, <1>5, <2>1, <2>2 DEF Kept
<1> QED BY <1>6, <1>7 DEF Keeping, FilesKept

LEMMA NextKeeps == Safe /\ Keeping /\ [Next]_vars => Keeping'
<1> SUFFICES ASSUME Safe, Keeping, [Next]_vars PROVE Keeping'
  OBVIOUS
<1>1. ASSUME NEW p \in Procs, NEW s \in Sessions,
             \/ \E n \in Names : Ask(p, s, n)
             \/ Provide(p, s) \/ Begin(p, s) \/ Operate(p, s) \/ EndCommand(p, s)
      PROVE  Keeping'
  BY <1>1, CheckKeeps, CreateKeeps, WaitKeeps, HzaInitKeeps, LoadKeeps, ThrowsKeeps, LostKeeps,
     WriteKeeps, QuietKeeps DEF Provide, Operate
<1>2. ASSUME NEW p \in Procs,
             \/ Start(p) \/ \E v \in Sessions \cup {"free"} : Signal(p, v)
             \/ Shutdown(p) \/ Crash(p)
      PROVE  Keeping'
  BY <1>2, ProcessKeeps, CloseKeeps, DeathKeeps DEF Shutdown
<1>3. ASSUME UNCHANGED vars PROVE Keeping'
  <2>1. /\ UNCHANGED <<proc, session, file, writes, promised, excuse, lost>>
    BY <1>3 DEF vars, storage, history
  <2> QED BY <2>1 DEF Keeping, StagesKnown, FilesThere, FilesKept, Kept, CreatesAlone, IsCreating, IsBusyWith,
                      IsOpen, PathOf
<1> QED BY <1>1, <1>2, <1>3, RebootKeeps DEF Next

LEMMA KeepingKeeps == Keeping => ClosedArchivesKept
BY DEF Keeping, FilesKept, Kept, ClosedArchivesKept

\* What an archive held when it was closed is in its file, and whoever opens the
\* file meets an END marker, through creations, shutdowns, kills and restarts,
\* unless one of the reasons of excuse applies to that file: there is no other way
\* to lose anything.
THEOREM ClosedStaysClosed == Spec => []ClosedArchivesKept
<1>1. Init => Safe /\ Keeping
  BY InitSafe, InitKeeps
<1>2. (Safe /\ Keeping) /\ [Next]_vars => (Safe /\ Keeping)'
  BY NextSafe, NextKeeps
<1> QED BY <1>1, <1>2, KeepingKeeps, PTL DEF Spec
=============================================================================
