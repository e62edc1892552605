-------------------------- MODULE SupervisorProofs --------------------------
(***************************************************************************)
(* What is proved of Supervisor for every size of the process tree, every  *)
(* cap, deadline and grace.                                                *)
(***************************************************************************)
EXTENDS Supervisor, TLAPS

\* The actions of the main thread, of the reader threads, of the process tree and of the signals,
\* by name: every proof about a step goes through them.
LEMMA NextByActor ==
  ASSUME Next
  PROVE  \/ ProcessTree
         \/ \E s \in Streams : Read(s) \/ FinishRead(s) \/ Send(s) \/ ReadError(s)
         \/ MainThread
         \/ SignalDefault \/ SignalHandled \/ ForwardKill \/ Raise
         \/ Tick
  BY DEF Next, ReaderThread

----------------------------------------------------------------------------
(* Type correctness *)

LEMMA TypeOKInit == Init => TypeOK
<1> SUFFICES ASSUME Init PROVE TypeOK
  OBVIOUS
<1> USE SupervisorAssumption DEF Init, SupervisorAssumption
<1>1. TreeTypeOK
  BY DEF TreeTypeOK, Streams
<1>2. PipesTypeOK
  <2>1. /\ written \in [Streams -> Nat] /\ taken \in [Streams -> Nat]
        /\ taken["out"] <= StdoutCap + 1
        /\ reader \in [Streams -> {"unborn", "reading", "sending", "sent"}]
    BY DEF Streams
  <2>2. readFailed \subseteq Streams /\ oversized \in BOOLEAN
    BY Zenon
  <2> QED
    BY <2>1, <2>2 DEF PipesTypeOK
<1>3. MainTypeOK
  BY DEF MainTypeOK, Labels, Results
<1>4. ClockTypeOK
  BY DEF ClockTypeOK
<1>5. SignalsTypeOK
  BY DEF SignalsTypeOK
<1> QED
  BY <1>1, <1>2, <1>3, <1>4, <1>5 DEF TypeOK

\* A part of the state that stays as it is keeps its types.
LEMMA TypeOKKept ==
  /\ TreeTypeOK /\ UNCHANGED tree => TreeTypeOK'
  /\ PipesTypeOK /\ UNCHANGED pipes => PipesTypeOK'
  /\ MainTypeOK /\ UNCHANGED main => MainTypeOK'
  /\ ClockTypeOK /\ UNCHANGED clock => ClockTypeOK'
  /\ SignalsTypeOK /\ UNCHANGED signals => SignalsTypeOK'
  BY DEF TreeTypeOK, PipesTypeOK, MainTypeOK, ClockTypeOK, SignalsTypeOK,
         tree, pipes, main, clock, signals

LEMMA TypeOKTree ==
  ASSUME TypeOK, ProcessTree
  PROVE  TypeOK'
<1> USE SupervisorAssumption, TypeOKKept DEF SupervisorAssumption, TypeOK
<1>1. ASSUME NEW p \in Procs, NEW s \in Streams, Write(p, s)
      PROVE  TypeOK'
  <2>1. PipesTypeOK'
    BY <1>1 DEF Write, PipesTypeOK
  <2> QED
    BY <1>1, <2>1 DEF Write
<1>2. ASSUME UNCHANGED <<pipes, main, clock, signals>>, TreeTypeOK'
      PROVE  TypeOK'
  BY <1>2
<1> HIDE DEF TypeOK
<1>3. ASSUME NEW p \in Procs, NEW s \in Streams, Close(p, s)
      PROVE  TypeOK'
  BY <1>2, <1>3 DEF Close, TypeOK, TreeTypeOK
<1>4. ASSUME NEW p \in Procs, NEW q \in Descendants, Fork(p, q)
      PROVE  TypeOK'
  BY <1>2, <1>4 DEF Fork, TypeOK, TreeTypeOK, Procs
<1>5. ASSUME NEW q \in Procs, Setsid(q)
      PROVE  TypeOK'
  BY <1>2, <1>5 DEF Setsid, TypeOK, TreeTypeOK
<1>6. ASSUME NEW p \in Procs, Die(p)
      PROVE  TypeOK'
  BY <1>2, <1>6 DEF Die, Ended, TypeOK, TreeTypeOK
<1>7. ASSUME NEW p \in Procs, NEW success \in BOOLEAN, Exit(p, success)
      PROVE  TypeOK'
  BY <1>2, <1>7 DEF Exit, Ended, TypeOK, TreeTypeOK
<1>8. ASSUME Recycle
      PROVE  TypeOK'
  BY <1>2, <1>8 DEF Recycle, TypeOK, TreeTypeOK
<1> QED
  BY <1>1, <1>3, <1>4, <1>5, <1>6, <1>7, <1>8 DEF ProcessTree

LEMMA TypeOKReaders ==
  ASSUME TypeOK, NEW s \in Streams, Read(s) \/ FinishRead(s) \/ Send(s) \/ ReadError(s)
  PROVE  TypeOK'
<1>1. PipesTypeOK'
  <2>1. CASE Read(s)
    BY <2>1, SupervisorAssumption
    DEF Read, WantsMore, TypeOK, PipesTypeOK, SupervisorAssumption, Streams
  <2>2. CASE FinishRead(s)
    BY <2>2 DEF FinishRead, StopReading, TypeOK, PipesTypeOK
  <2>3. CASE Send(s)
    BY <2>3 DEF Send, TypeOK, PipesTypeOK
  <2>4. CASE ReadError(s)
    BY <2>4 DEF ReadError, StopReading, TypeOK, PipesTypeOK
  <2> QED
    BY <2>1, <2>2, <2>3, <2>4
<1>2. UNCHANGED <<tree, main, clock, signals>>
  BY DEF Read, FinishRead, Send, ReadError
<1> QED
  BY <1>1, <1>2, TypeOKKept DEF TypeOK

\* killpg and waitpid keep the types of the process tree.
LEMMA KillGroupTypes ==
  ASSUME TreeTypeOK, NEW actor \in {"supervisor", "handler"}, KillGroup(actor)
  PROVE  TreeTypeOK'
  BY DEF KillGroup, TreeTypeOK

LEMMA ReapTypes ==
  ASSUME TreeTypeOK, Reap
  PROVE  TreeTypeOK'
  BY DEF Reap, TreeTypeOK

LEMMA TypeOKMain ==
  ASSUME TypeOK, MainThread
  PROVE  TypeOK'
<1> USE SupervisorAssumption, TypeOKKept, KillGroupTypes, ReapTypes
    DEF SupervisorAssumption, At, Goto, Labels, Results, TypeOK
<1>1. CASE InstallGuard
  BY <1>1 DEF InstallGuard, MainTypeOK, SignalsTypeOK
<1>2. CASE Spawn
  BY <1>2 DEF Spawn, TreeTypeOK, MainTypeOK, Procs
<1>3. CASE SpawnFails
  BY <1>3 DEF SpawnFails, MainTypeOK
<1>4. CASE Arm
  BY <1>4 DEF Arm, MainTypeOK, SignalsTypeOK
<1>5. CASE StartReaders
  BY <1>5 DEF StartReaders, PipesTypeOK, MainTypeOK
<1>6. CASE PollReaders
  BY <1>6 DEF PollReaders, MainTypeOK
<1>7. CASE CheckSize
  BY <1>7 DEF CheckSize, MainTypeOK
<1>8. CASE CheckDeadline
  BY <1>8 DEF CheckDeadline, MainTypeOK
<1>9. CASE Gate
  BY <1>9 DEF Gate, MainTypeOK
<1>10. CASE TryWait
  BY <1>10 DEF TryWait, MainTypeOK
<1>11. CASE WaitFails
  BY <1>11 DEF WaitFails, MainTypeOK
<1>12. CASE DisarmReaped
  BY <1>12 DEF DisarmReaped, MainTypeOK, SignalsTypeOK
<1>13. CASE CheckDeadline2
  BY <1>13 DEF CheckDeadline2, MainTypeOK
<1>14. CASE EnterPhase3
  BY <1>14 DEF EnterPhase3, MainTypeOK, ClockTypeOK
<1>15. CASE CollectOut
  BY <1>15 DEF CollectOut, Collect, MainTypeOK, Streams
<1>16. CASE CollectErr
  BY <1>16 DEF CollectErr, Collect, MainTypeOK, Streams
<1>17. CASE Disarm
  BY <1>17 DEF Disarm, MainTypeOK, SignalsTypeOK
<1>18. CASE Wait
  BY <1>18 DEF Wait, MainTypeOK
<1>19. CASE Resolve
  BY <1>19 DEF Resolve, Verdict, MainTypeOK
<1>20. CASE DropGuard
  BY <1>20 DEF DropGuard, MainTypeOK, SignalsTypeOK
<1> QED
  BY <1>1, <1>2, <1>3, <1>4, <1>5, <1>6, <1>7, <1>8, <1>9, <1>10, <1>11, <1>12, <1>13, <1>14,
     <1>15, <1>16, <1>17, <1>18, <1>19, <1>20 DEF MainThread, Advance

LEMMA TypeOKSignals ==
  ASSUME TypeOK, SignalDefault \/ SignalHandled \/ ForwardKill \/ Raise \/ Tick
  PROVE  TypeOK'
<1> USE SupervisorAssumption, TypeOKKept DEF SupervisorAssumption, TypeOK
<1>1. CASE SignalDefault
  BY <1>1 DEF SignalDefault, SignalsTypeOK, MainTypeOK
<1>2. CASE SignalHandled
  BY <1>2 DEF SignalHandled, SignalsTypeOK, MainTypeOK
<1>3. CASE ForwardKill
  BY <1>3, KillGroupTypes DEF ForwardKill, SignalsTypeOK
<1>4. CASE Raise
  BY <1>4 DEF Raise, SignalsTypeOK
<1>5. CASE Tick
  BY <1>5 DEF Tick, ClockTypeOK
<1> QED
  BY <1>1, <1>2, <1>3, <1>4, <1>5

\* Every variable keeps its type, and the reader of stdout never holds more than one byte past
\* the cap: the memory a toolkit can make the prover use is bounded whatever it writes.
THEOREM TypeCorrect == Spec => []TypeOK
<1>1. ASSUME TypeOK, [Next]_vars
      PROVE  TypeOK'
  <2>1. CASE Next
    BY <1>1, <2>1, NextByActor, TypeOKTree, TypeOKReaders, TypeOKMain, TypeOKSignals
    DEF Streams
  <2>2. CASE UNCHANGED vars
    BY <1>1, <2>2, TypeOKKept DEF TypeOK, vars
  <2> QED
    BY <1>1, <2>1, <2>2
<1> QED
  BY TypeOKInit, <1>1, PTL DEF Spec

----------------------------------------------------------------------------
(* The inductive invariant *)

\* The main thread has a child, armed and not reaped, in phases 1 and 2; it has decided about it
\* from the reap of phase 2, or the kill, to the verdict.
Supervised ==
  {"start", "poll", "check_size", "check_deadline", "gate", "try_wait", "deadline2"}
Decided ==
  {"disarm_reaped", "phase3", "collect_out", "collect_err", "disarm", "wait", "resolve"}

Swept == \A p \in group : ~Running(p)

\* Both buffers are here, and nothing speaks against them yet.
Accepted == slots = Streams /\ ~oversized /\ ~timedOut

\* Who is alive, who is in the group, and until when the group's number is the toolkit's.
LifeInv ==
  /\ pc \in {"install", "spawn"} => proc[Leader] = "unborn" /\ group = {}
  /\ pc \in Supervised \cup Decided \cup {"arm"} => Leader \in group
  /\ pc \in Supervised \cup {"arm"} => proc[Leader] # "gone"
  /\ pc \in {"disarm_reaped", "resolve"} => proc[Leader] = "gone"
  /\ \A p \in group : proc[p] # "unborn"
  /\ recycled => proc[Leader] = "gone"

\* What the state of a reader says of its pipe.
ReaderInv ==
  /\ pc \in {"install", "spawn", "arm", "start"} => \A s \in Streams : reader[s] = "unborn"
  /\ \A s \in slots : reader[s] = "sent"
  /\ \A s \in Streams : reader[s] \in {"sending", "sent"} =>
       Eof(s) \/ ~WantsMore(s) \/ s \in readFailed
  /\ oversized <=> reader["out"] \in {"sending", "sent"} /\ taken["out"] > StdoutCap

\* The main thread leaves phase 1 with a killed group or with both buffers, phase 2 with a killed
\* group or a reaped child, and the verdict agrees.
OutcomeInv ==
  /\ pc \in {"install", "spawn", "arm", "start", "poll", "check_size", "check_deadline"} => ~timedOut
  /\ pc = "check_deadline" /\ "out" \in slots => ~oversized
  /\ pc = "gate" => Accepted \/ (Swept /\ (timedOut \/ oversized))
  /\ pc \in {"try_wait", "deadline2"} => Accepted
  /\ pc \in Decided =>
       (Accepted /\ proc[Leader] = "gone") \/ (Swept /\ (timedOut \/ oversized))
  /\ result # "none" <=> pc \in {"drop", "done"}
  /\ result = "spawn_error" => slots = {}
  /\ result \in {"ok", "exit_status", "read_error"} => Accepted
  /\ result = "ok" => proc[Leader] = "gone" /\ status = "success" /\ "out" \notin readFailed
  /\ result \in {"too_large", "timed_out"} => Swept
  /\ result = "timed_out" /\ "out" \in slots => ~oversized

\* The handler kills the group whenever it starts while the child is supervised.
SignalInv ==
  /\ pc \in Supervised => armed
  /\ pc \notin {"install", "done"} => guard
  /\ handler = "idle" <=> signalledAt = "nowhere"
  /\ signalledAt \in Supervised \cup Decided => pc \notin {"install", "spawn"} /\ Leader \in group
  /\ signalledAt \in Supervised /\ handler \in {"raise", "dead"} => Swept
  /\ signalledAt \in Decided => ~Running(Leader)

GraceInv ==
  IF pc \in {"collect_out", "collect_err", "disarm", "wait", "resolve", "drop", "done"}
  THEN graceSpent + grace <= ReaderGrace
  ELSE graceSpent = 0

IInv ==
  /\ LifeInv /\ ReaderInv /\ OutcomeInv /\ SignalInv /\ GraceInv
  /\ SupervisorKillsOnlyItsGroup

----------------------------------------------------------------------------
(* What a step of the process tree, a kill and a reap leave true *)

\* A process that is not running never runs again, a closed pipe stays closed, and what is gone
\* stays gone.
TreeKeeps ==
  /\ Swept => Swept'
  /\ \A s \in Streams : Eof(s) => Eof(s)'
  /\ proc[Leader] = "gone" => proc'[Leader] = "gone" /\ status' = status
  /\ ~Running(Leader) => ~Running(Leader)'
  /\ Leader \in group => Leader \in group'

LEMMA TreeStep ==
  ASSUME TypeOK, LifeInv, ProcessTree
  PROVE  /\ UNCHANGED <<main, clock, signals, taken, reader, readFailed, oversized, strays>>
         /\ LifeInv'
         /\ TreeKeeps
<1> USE SupervisorAssumption
    DEF SupervisorAssumption, TypeOK, TreeTypeOK, PipesTypeOK, LifeInv, TreeKeeps, Swept,
        Running, Eof, Procs, main, signals
<1> DEFINE Goal ==
      /\ UNCHANGED <<main, clock, signals, taken, reader, readFailed, oversized, strays>>
      /\ LifeInv'
      /\ TreeKeeps
<1>1. ASSUME NEW p \in Procs, NEW s \in Streams, Write(p, s)
      PROVE  Goal
  BY <1>1 DEF Write, tree
<1>2. ASSUME NEW p \in Procs, NEW s \in Streams, Close(p, s)
      PROVE  Goal
  BY <1>2 DEF Close, pipes
<1>3. ASSUME NEW p \in Procs, NEW q \in Descendants, Fork(p, q)
      PROVE  Goal
  BY <1>3 DEF Fork, pipes
<1>4. ASSUME NEW q \in Procs, Setsid(q)
      PROVE  Goal
  BY <1>4 DEF Setsid, pipes
<1>5. ASSUME NEW p \in Procs, Die(p)
      PROVE  Goal
  BY <1>5 DEF Die, Ended, pipes
<1>6. ASSUME NEW p \in Procs, NEW success \in BOOLEAN, Exit(p, success)
      PROVE  Goal
  BY <1>6 DEF Exit, Ended, pipes
<1>7. ASSUME Recycle
      PROVE  Goal
  BY <1>7 DEF Recycle, pipes
<1> QED
  BY <1>1, <1>2, <1>3, <1>4, <1>5, <1>6, <1>7 DEF ProcessTree

\* A kill sweeps the group, and hits strangers only when its number has been recycled.
LEMMA KillStep ==
  ASSUME TypeOK, NEW actor, KillGroup(actor), UNCHANGED pipes
  PROVE  /\ UNCHANGED <<group, holds, status, recycled>>
         /\ Swept'
         /\ TreeKeeps
         /\ proc[Leader] # "gone" => proc'[Leader] # "gone"
         /\ \A p \in Procs : proc[p] # "unborn" => proc'[p] # "unborn"
         /\ proc[Leader] = "unborn" /\ Leader \notin group => proc'[Leader] = "unborn"
         /\ ~recycled => strays' = strays
         /\ strays' \subseteq strays \cup {actor}
  BY SupervisorAssumption
  DEF KillGroup, TypeOK, TreeTypeOK, TreeKeeps, Swept, Running, Eof, Procs, pipes, SupervisorAssumption

\* A reap changes nothing but the life of the leader.
LEMMA ReapStep ==
  ASSUME TypeOK, Reap
  PROVE  /\ UNCHANGED <<group, holds, status, recycled, strays>>
         /\ proc'[Leader] = "gone"
         /\ \A p \in Procs \ {Leader} : proc'[p] = proc[p]
  BY DEF Reap, TypeOK, TreeTypeOK, Procs

----------------------------------------------------------------------------
(* The invariant is inductive *)

LEMMA IInvInit == Init => IInv
<1> SUFFICES ASSUME Init PROVE IInv
  OBVIOUS
<1>0. ~recycled /\ ~oversized /\ ~timedOut
  BY Zenon DEF Init
<1>1. LifeInv
  <2>1. pc = "install" /\ proc[Leader] = "unborn" /\ group = {}
    BY DEF Init, Procs
  <2> QED
    BY <1>0, <2>1 DEF LifeInv, Supervised, Decided
<1>2. ReaderInv
  <2>1. reader = [s \in Streams |-> "unborn"] /\ slots = {}
    BY DEF Init
  <2> QED
    BY <1>0, <2>1 DEF ReaderInv, Streams
<1>3. OutcomeInv
  <2>1. pc = "install" /\ slots = {} /\ result = "none"
    BY DEF Init
  <2> QED
    BY <1>0, <2>1 DEF OutcomeInv, Decided
<1>4. SignalInv
  BY DEF Init, SignalInv, Supervised, Decided
<1>5. GraceInv
  BY DEF Init, GraceInv
<1>6. SupervisorKillsOnlyItsGroup
  BY DEF Init, SupervisorKillsOnlyItsGroup
<1> QED
  BY <1>1, <1>2, <1>3, <1>4, <1>5, <1>6 DEF IInv

LEMMA IInvTree ==
  ASSUME TypeOK, IInv, ProcessTree
  PROVE  IInv'
<1>1. /\ UNCHANGED <<main, clock, signals, taken, reader, readFailed, oversized, strays>>
      /\ LifeInv' /\ TreeKeeps
  BY TreeStep DEF IInv
<1>2. ReaderInv'
  BY <1>1 DEF IInv, ReaderInv, TreeKeeps, WantsMore, main
<1>3. OutcomeInv'
  BY <1>1 DEF IInv, OutcomeInv, Accepted, TreeKeeps, main
<1>4. SignalInv'
  BY <1>1 DEF IInv, SignalInv, TreeKeeps, main, signals
<1>5. GraceInv'
  BY <1>1 DEF IInv, GraceInv, main, clock
<1> QED
  BY <1>1, <1>2, <1>3, <1>4, <1>5 DEF IInv, SupervisorKillsOnlyItsGroup

\* The flag a reader of stdout leaves behind, as a formula.
LEMMA StopReadingFlag ==
  ASSUME NEW s, StopReading(s)
  PROVE  /\ reader' = [reader EXCEPT ![s] = "sending"]
         /\ oversized' <=> (oversized \/ (s = "out" /\ taken[s] > StdoutCap))
<1>1. reader' = [reader EXCEPT ![s] = "sending"]
  BY DEF StopReading
<1>2. oversized' <=> (oversized \/ (s = "out" /\ taken[s] > StdoutCap))
  BY Zenon DEF StopReading
<1> QED
  BY <1>1, <1>2

LEMMA IInvReaders ==
  ASSUME TypeOK, IInv, NEW s \in Streams, Read(s) \/ FinishRead(s) \/ Send(s) \/ ReadError(s)
  PROVE  IInv'
<1>1. UNCHANGED <<tree, written, main, clock, signals>>
  BY DEF Read, FinishRead, Send, ReadError
<1>2. LifeInv'
  BY <1>1 DEF IInv, LifeInv, tree, main
<1>3. ReaderInv'
  <2> USE SupervisorAssumption DEF WantsMore, Streams, SupervisorAssumption
  <2>1. /\ reader \in [Streams -> {"unborn", "reading", "sending", "sent"}]
        /\ taken \in [Streams -> Nat] /\ slots \subseteq Streams
        /\ ReaderInv
    BY DEF TypeOK, PipesTypeOK, MainTypeOK, IInv
  <2>2. CASE Read(s)
    BY <1>1, <2>1, <2>2 DEF Read, ReaderInv, Eof, tree, main
  <2>3. CASE FinishRead(s)
    <3>1. reader[s] = "reading" /\ (Eof(s) \/ ~WantsMore(s))
      BY <2>3 DEF FinishRead
    <3>2. reader' = [reader EXCEPT ![s] = "sending"] /\ UNCHANGED taken
      BY <2>3, StopReadingFlag DEF FinishRead
    <3>3. readFailed' = readFailed
      BY <2>3 DEF FinishRead
    <3>4. oversized' <=> (oversized \/ (s = "out" /\ taken[s] > StdoutCap))
      BY <2>3, StopReadingFlag DEF FinishRead
    <3> QED
      BY <1>1, <2>1, <3>1, <3>2, <3>3, <3>4 DEF ReaderInv, Eof, tree, main
  <2>4. CASE Send(s)
    BY <1>1, <2>1, <2>4 DEF Send, ReaderInv, Eof, tree, main
  <2>5. CASE ReadError(s)
    <3>1. reader[s] = "reading" /\ UNCHANGED taken
      BY <2>5 DEF ReadError
    <3>2. /\ reader' = [reader EXCEPT ![s] = "sending"]
          /\ oversized' <=> (oversized \/ (s = "out" /\ taken[s] > StdoutCap))
      BY <2>5, StopReadingFlag DEF ReadError
    <3>3. readFailed' = readFailed \cup {s}
      BY <2>5 DEF ReadError
    <3> QED
      BY <1>1, <2>1, <3>1, <3>2, <3>3 DEF ReaderInv, Eof, tree, main
  <2> QED
    BY <2>2, <2>3, <2>4, <2>5
<1>4. OutcomeInv'
  <2>1. oversized => oversized'
    BY StopReadingFlag DEF Read, FinishRead, Send, ReadError
  <2>2. ASSUME "out" \in slots
        PROVE  (oversized' => oversized) /\ ("out" \in readFailed' => "out" \in readFailed)
    <3>1. reader["out"] = "sent"
      BY <2>2 DEF IInv, ReaderInv
    <3> QED
      BY <3>1, StopReadingFlag DEF Read, FinishRead, Send, ReadError, Streams
  <2>3. Accepted => Accepted'
    BY <1>1, <2>2 DEF Accepted, main, Streams
  <2>4. Swept => Swept'
    BY <1>1 DEF Swept, Running, tree
  <2>5. result = "ok" => ("out" \in readFailed' => "out" \in readFailed)
    BY <2>2 DEF IInv, OutcomeInv, Accepted, Streams
  <2> QED
    BY <1>1, <2>1, <2>2, <2>3, <2>4, <2>5 DEF IInv, OutcomeInv, tree, main
<1>5. SignalInv'
  BY <1>1 DEF IInv, SignalInv, Swept, Running, tree, main, signals
<1>6. GraceInv'
  BY <1>1 DEF IInv, GraceInv, main, clock
<1> QED
  BY <1>1, <1>2, <1>3, <1>4, <1>5, <1>6 DEF IInv, SupervisorKillsOnlyItsGroup, tree

LEMMA IInvSignals ==
  ASSUME TypeOK, IInv, SignalDefault \/ SignalHandled \/ ForwardKill \/ Raise
  PROVE  IInv'
<1>1. /\ UNCHANGED <<pipes, main, clock, guard, armed, group, holds, status, recycled>>
      /\ "supervisor" \notin strays'
  BY DEF SignalDefault, SignalHandled, ForwardKill, Raise, KillGroup, tree, IInv,
         SupervisorKillsOnlyItsGroup
<1>2. /\ TreeKeeps /\ LifeInv'
      /\ handler = "kill" => Swept'
  <2>1. CASE ForwardKill
    <3>1. KillGroup("handler") /\ UNCHANGED <<pipes, main>>
      BY <2>1 DEF ForwardKill
    <3>2. TreeKeeps /\ Swept'
      BY <3>1, KillStep
    <3>3. LifeInv'
      <4>1. group \subseteq Procs
        BY DEF TypeOK, TreeTypeOK
      <4>2. /\ UNCHANGED <<group, recycled>>
            /\ proc[Leader] # "gone" => proc'[Leader] # "gone"
            /\ proc[Leader] = "gone" => proc'[Leader] = "gone"
            /\ \A p \in Procs : proc[p] # "unborn" => proc'[p] # "unborn"
            /\ proc[Leader] = "unborn" /\ Leader \notin group => proc'[Leader] = "unborn"
        BY <3>1, KillStep DEF TreeKeeps
      <4> QED
        BY <1>1, <4>1, <4>2 DEF IInv, LifeInv, main
    <3> QED
      BY <3>2, <3>3
  <2>2. CASE UNCHANGED tree /\ handler # "kill"
    BY <1>1, <2>2
    DEF TreeKeeps, Swept, Running, Eof, IInv, LifeInv, tree, pipes, main
  <2> QED
    BY <2>1, <2>2 DEF SignalDefault, SignalHandled, Raise
<1>3. ReaderInv'
  BY <1>1 DEF IInv, ReaderInv, Eof, WantsMore, pipes, main
<1>4. OutcomeInv'
  BY <1>1, <1>2 DEF IInv, OutcomeInv, Accepted, TreeKeeps, pipes, main
<1>5. SignalInv'
  <2>1. CASE SignalDefault
    BY <1>1, <1>2, <2>1 DEF SignalDefault, IInv, SignalInv, Supervised, Decided, main
  <2>2. CASE SignalHandled
    <3>1. \/ pc \notin {"install", "spawn"} /\ Leader \in group
          \/ pc \notin Supervised \cup Decided
      BY DEF IInv, LifeInv, Supervised, Decided
    <3>2. pc \in Decided => ~Running(Leader)
      BY <3>1 DEF IInv, OutcomeInv, Swept, Running
    <3>3. pc # "nowhere"
      BY DEF TypeOK, MainTypeOK, Labels
    <3> QED
      BY <1>1, <1>2, <2>2, <3>1, <3>2, <3>3 DEF SignalHandled, IInv, SignalInv, TreeKeeps, main
  <2>3. CASE ForwardKill
    BY <1>1, <1>2, <2>3 DEF ForwardKill, IInv, SignalInv, TreeKeeps, main
  <2>4. CASE Raise
    BY <1>1, <1>2, <2>4 DEF Raise, IInv, SignalInv, TreeKeeps, main
  <2> QED
    BY <2>1, <2>2, <2>3, <2>4
<1>6. GraceInv'
  BY <1>1 DEF IInv, GraceInv, main, clock
<1> QED
  BY <1>1, <1>2, <1>3, <1>4, <1>5, <1>6 DEF IInv, SupervisorKillsOnlyItsGroup

LEMMA IInvTick ==
  ASSUME TypeOK, IInv, Tick
  PROVE  IInv'
<1>1. UNCHANGED <<tree, pipes, main, signals>>
  BY DEF Tick
<1>2. GraceInv'
  BY <1>1, SupervisorAssumption
  DEF Tick, Collecting, CanCollect, At, IInv, GraceInv, TypeOK, ClockTypeOK, main,
      SupervisorAssumption
<1>3. LifeInv' /\ ReaderInv' /\ OutcomeInv' /\ SignalInv'
  BY <1>1
  DEF IInv, LifeInv, ReaderInv, OutcomeInv, SignalInv, Accepted, Swept, Running, Eof, WantsMore,
      tree, pipes, main, signals
<1> QED
  BY <1>1, <1>2, <1>3 DEF IInv, SupervisorKillsOnlyItsGroup, tree

LEMMA LifeInvMain ==
  ASSUME TypeOK, IInv, MainThread
  PROVE  LifeInv'
<1> USE SupervisorAssumption DEF IInv, LifeInv, Supervised, Decided, tree, pipes, main, clock, signals, At, Goto, TypeOK, TreeTypeOK, Procs
<1>1. CASE InstallGuard
  BY <1>1 DEF InstallGuard
<1>2. CASE Spawn
  BY <1>2 DEF Spawn
<1>3. CASE SpawnFails
  BY <1>3 DEF SpawnFails
<1>4. CASE Arm
  BY <1>4 DEF Arm
<1>5. CASE StartReaders
  BY <1>5 DEF StartReaders
<1>6. CASE PollReaders
  BY <1>6 DEF PollReaders
<1>7. CASE CheckSize
  BY <1>7, KillStep DEF CheckSize, TreeKeeps
<1>8. CASE CheckDeadline
  BY <1>8, KillStep DEF CheckDeadline, TreeKeeps
<1>9. CASE Gate
  BY <1>9 DEF Gate
<1>10. CASE TryWait
  BY <1>10, ReapStep DEF TryWait
<1>11. CASE WaitFails
  BY <1>11 DEF WaitFails
<1>12. CASE DisarmReaped
  BY <1>12 DEF DisarmReaped
<1>13. CASE CheckDeadline2
  BY <1>13, KillStep DEF CheckDeadline2, TreeKeeps
<1>14. CASE EnterPhase3
  BY <1>14 DEF EnterPhase3
<1>15. CASE CollectOut
  BY <1>15 DEF CollectOut, Collect, CanCollect
<1>16. CASE CollectErr
  BY <1>16 DEF CollectErr, Collect, CanCollect
<1>17. CASE Disarm
  BY <1>17 DEF Disarm
<1>18. CASE Wait
  BY <1>18, ReapStep DEF Wait
<1>19. CASE Resolve
  BY <1>19 DEF Resolve
<1>20. CASE DropGuard
  BY <1>20 DEF DropGuard
<1> QED
  BY <1>1, <1>2, <1>3, <1>4, <1>5, <1>6, <1>7, <1>8, <1>9, <1>10,
     <1>11, <1>12, <1>13, <1>14, <1>15, <1>16, <1>17, <1>18, <1>19, <1>20 DEF MainThread, Advance

LEMMA ReaderInvMain ==
  ASSUME TypeOK, IInv, MainThread
  PROVE  ReaderInv'
<1> USE SupervisorAssumption DEF IInv, ReaderInv, Eof, WantsMore, Streams, tree, pipes, main, clock, At, Goto, TypeOK, MainTypeOK, PipesTypeOK
<1>1. CASE InstallGuard
  BY <1>1 DEF InstallGuard
<1>2. CASE Spawn
  BY <1>2 DEF Spawn
<1>3. CASE SpawnFails
  BY <1>3 DEF SpawnFails
<1>4. CASE Arm
  BY <1>4 DEF Arm
<1>5. CASE StartReaders
  BY <1>5 DEF StartReaders
<1>6. CASE PollReaders
  BY <1>6 DEF PollReaders
<1>7. CASE CheckSize
  BY <1>7 DEF CheckSize, KillGroup
<1>8. CASE CheckDeadline
  BY <1>8 DEF CheckDeadline, KillGroup
<1>9. CASE Gate
  BY <1>9 DEF Gate
<1>10. CASE TryWait
  BY <1>10 DEF TryWait, Reap
<1>11. CASE WaitFails
  BY <1>11 DEF WaitFails
<1>12. CASE DisarmReaped
  BY <1>12 DEF DisarmReaped
<1>13. CASE CheckDeadline2
  BY <1>13 DEF CheckDeadline2, KillGroup
<1>14. CASE EnterPhase3
  BY <1>14 DEF EnterPhase3
<1>15. CASE CollectOut
  BY <1>15 DEF CollectOut, Collect, CanCollect
<1>16. CASE CollectErr
  BY <1>16 DEF CollectErr, Collect, CanCollect
<1>17. CASE Disarm
  BY <1>17 DEF Disarm
<1>18. CASE Wait
  BY <1>18 DEF Wait, Reap
<1>19. CASE Resolve
  BY <1>19 DEF Resolve
<1>20. CASE DropGuard
  BY <1>20 DEF DropGuard
<1> QED
  BY <1>1, <1>2, <1>3, <1>4, <1>5, <1>6, <1>7, <1>8, <1>9, <1>10,
     <1>11, <1>12, <1>13, <1>14, <1>15, <1>16, <1>17, <1>18, <1>19, <1>20 DEF MainThread, Advance

LEMMA OutcomeInvMain ==
  ASSUME TypeOK, IInv, MainThread
  PROVE  OutcomeInv'
<1> USE SupervisorAssumption DEF IInv, OutcomeInv, LifeInv, ReaderInv, Accepted, Swept, Running, Supervised, Decided, Streams, tree, pipes, At, Goto, TypeOK, TreeTypeOK, MainTypeOK, Procs
<1>1. CASE InstallGuard
  BY <1>1 DEF InstallGuard
<1>2. CASE Spawn
  BY <1>2 DEF Spawn
<1>3. CASE SpawnFails
  BY <1>3 DEF SpawnFails
<1>4. CASE Arm
  BY <1>4 DEF Arm
<1>5. CASE StartReaders
  BY <1>5 DEF StartReaders
<1>6. CASE PollReaders
  BY <1>6 DEF PollReaders
<1>7. CASE CheckSize
  BY <1>7, KillStep DEF CheckSize, TreeKeeps
<1>8. CASE CheckDeadline
  BY <1>8, KillStep DEF CheckDeadline, TreeKeeps
<1>9. CASE Gate
  BY <1>9 DEF Gate
<1>10. CASE TryWait
  BY <1>10, ReapStep DEF TryWait
<1>11. CASE WaitFails
  BY <1>11 DEF WaitFails
<1>12. CASE DisarmReaped
  BY <1>12 DEF DisarmReaped
<1>13. CASE CheckDeadline2
  BY <1>13, KillStep DEF CheckDeadline2, TreeKeeps
<1>14. CASE EnterPhase3
  BY <1>14 DEF EnterPhase3
<1>15. CASE CollectOut
  BY <1>15 DEF CollectOut, Collect, CanCollect
<1>16. CASE CollectErr
  BY <1>16 DEF CollectErr, Collect, CanCollect
<1>17. CASE Disarm
  BY <1>17 DEF Disarm
<1>18. CASE Wait
  BY <1>18, ReapStep DEF Wait
<1>19. CASE Resolve
  BY <1>19 DEF Resolve, Verdict
<1>20. CASE DropGuard
  BY <1>20 DEF DropGuard
<1> QED
  BY <1>1, <1>2, <1>3, <1>4, <1>5, <1>6, <1>7, <1>8, <1>9, <1>10,
     <1>11, <1>12, <1>13, <1>14, <1>15, <1>16, <1>17, <1>18, <1>19, <1>20 DEF MainThread, Advance

LEMMA SignalInvMain ==
  ASSUME TypeOK, IInv, MainThread
  PROVE  SignalInv'
<1> USE SupervisorAssumption DEF IInv, SignalInv, OutcomeInv, LifeInv, Swept, Running, Supervised, Decided, tree, signals, At, Goto, TypeOK, TreeTypeOK, Procs
<1>1. CASE InstallGuard
  BY <1>1 DEF InstallGuard
<1>2. CASE Spawn
  BY <1>2 DEF Spawn
<1>3. CASE SpawnFails
  BY <1>3 DEF SpawnFails
<1>4. CASE Arm
  BY <1>4 DEF Arm
<1>5. CASE StartReaders
  BY <1>5 DEF StartReaders
<1>6. CASE PollReaders
  BY <1>6 DEF PollReaders
<1>7. CASE CheckSize
  BY <1>7, KillStep DEF CheckSize, TreeKeeps
<1>8. CASE CheckDeadline
  BY <1>8, KillStep DEF CheckDeadline, TreeKeeps
<1>9. CASE Gate
  BY <1>9 DEF Gate
<1>10. CASE TryWait
  BY <1>10, ReapStep DEF TryWait
<1>11. CASE WaitFails
  BY <1>11 DEF WaitFails
<1>12. CASE DisarmReaped
  BY <1>12 DEF DisarmReaped
<1>13. CASE CheckDeadline2
  BY <1>13, KillStep DEF CheckDeadline2, TreeKeeps
<1>14. CASE EnterPhase3
  BY <1>14 DEF EnterPhase3
<1>15. CASE CollectOut
  BY <1>15 DEF CollectOut, Collect, CanCollect
<1>16. CASE CollectErr
  BY <1>16 DEF CollectErr, Collect, CanCollect
<1>17. CASE Disarm
  BY <1>17 DEF Disarm
<1>18. CASE Wait
  BY <1>18, ReapStep DEF Wait
<1>19. CASE Resolve
  BY <1>19 DEF Resolve
<1>20. CASE DropGuard
  BY <1>20 DEF DropGuard
<1> QED
  BY <1>1, <1>2, <1>3, <1>4, <1>5, <1>6, <1>7, <1>8, <1>9, <1>10,
     <1>11, <1>12, <1>13, <1>14, <1>15, <1>16, <1>17, <1>18, <1>19, <1>20 DEF MainThread, Advance

LEMMA GraceInvMain ==
  ASSUME TypeOK, IInv, MainThread
  PROVE  GraceInv'
<1> USE SupervisorAssumption DEF IInv, GraceInv, clock, At, Goto, TypeOK, ClockTypeOK, SupervisorAssumption
<1>1. CASE InstallGuard
  BY <1>1 DEF InstallGuard
<1>2. CASE Spawn
  BY <1>2 DEF Spawn
<1>3. CASE SpawnFails
  BY <1>3 DEF SpawnFails
<1>4. CASE Arm
  BY <1>4 DEF Arm
<1>5. CASE StartReaders
  BY <1>5 DEF StartReaders
<1>6. CASE PollReaders
  BY <1>6 DEF PollReaders
<1>7. CASE CheckSize
  BY <1>7 DEF CheckSize
<1>8. CASE CheckDeadline
  BY <1>8 DEF CheckDeadline
<1>9. CASE Gate
  BY <1>9 DEF Gate
<1>10. CASE TryWait
  BY <1>10 DEF TryWait
<1>11. CASE WaitFails
  BY <1>11 DEF WaitFails
<1>12. CASE DisarmReaped
  BY <1>12 DEF DisarmReaped
<1>13. CASE CheckDeadline2
  BY <1>13 DEF CheckDeadline2
<1>14. CASE EnterPhase3
  BY <1>14 DEF EnterPhase3
<1>15. CASE CollectOut
  BY <1>15 DEF CollectOut, Collect, CanCollect
<1>16. CASE CollectErr
  BY <1>16 DEF CollectErr, Collect, CanCollect
<1>17. CASE Disarm
  BY <1>17 DEF Disarm
<1>18. CASE Wait
  BY <1>18 DEF Wait
<1>19. CASE Resolve
  BY <1>19 DEF Resolve
<1>20. CASE DropGuard
  BY <1>20 DEF DropGuard
<1> QED
  BY <1>1, <1>2, <1>3, <1>4, <1>5, <1>6, <1>7, <1>8, <1>9, <1>10,
     <1>11, <1>12, <1>13, <1>14, <1>15, <1>16, <1>17, <1>18, <1>19, <1>20 DEF MainThread, Advance

LEMMA StraysMain ==
  ASSUME TypeOK, IInv, MainThread
  PROVE  SupervisorKillsOnlyItsGroup'
<1>1. ASSUME KillGroup("supervisor"), UNCHANGED pipes, pc \in Supervised
      PROVE  "supervisor" \notin strays'
  <2>1. ~recycled
    BY <1>1 DEF IInv, LifeInv
  <2> QED
    BY <1>1, <2>1, KillStep DEF IInv, SupervisorKillsOnlyItsGroup
<1>2. CASE CheckSize
  BY <1>1, <1>2
  DEF CheckSize, At, Supervised, IInv, SupervisorKillsOnlyItsGroup, tree, pipes
<1>3. CASE CheckDeadline
  BY <1>1, <1>3
  DEF CheckDeadline, At, Supervised, IInv, SupervisorKillsOnlyItsGroup, tree, pipes
<1>4. CASE CheckDeadline2
  BY <1>1, <1>4
  DEF CheckDeadline2, At, Supervised, IInv, SupervisorKillsOnlyItsGroup, tree, pipes
<1>5. CASE ~(CheckSize \/ CheckDeadline \/ CheckDeadline2)
  <2>1. UNCHANGED strays
    BY <1>5
    DEF MainThread, Advance, InstallGuard, Spawn, SpawnFails, Arm, StartReaders, PollReaders, Gate,
        TryWait, WaitFails, DisarmReaped, EnterPhase3, CollectOut, CollectErr, Disarm, Wait,
        Resolve, DropGuard, Reap, tree
  <2> QED
    BY <2>1 DEF IInv, SupervisorKillsOnlyItsGroup
<1> QED
  BY <1>2, <1>3, <1>4, <1>5

LEMMA IInvStep ==
  ASSUME TypeOK, IInv, [Next]_vars
  PROVE  IInv'
<1>1. CASE Next
  <2>1. CASE MainThread
    BY <2>1, LifeInvMain, ReaderInvMain, OutcomeInvMain, SignalInvMain, GraceInvMain, StraysMain
    DEF IInv
  <2> QED
    BY <1>1, <2>1, NextByActor, IInvTree, IInvReaders, IInvSignals, IInvTick DEF Streams
<1>2. CASE UNCHANGED vars
  BY <1>2
  DEF IInv, LifeInv, ReaderInv, OutcomeInv, SignalInv, GraceInv, SupervisorKillsOnlyItsGroup,
      Accepted, Swept, Running, Eof, WantsMore, vars, tree, pipes, main, clock, signals
<1> QED
  BY <1>1, <1>2

LEMMA Invariance == Spec => [](TypeOK /\ IInv)
<1>1. TypeOK /\ IInv /\ [Next]_vars => IInv'
  BY IInvStep
<1> QED
  BY TypeCorrect, IInvInit, <1>1, PTL DEF Spec

----------------------------------------------------------------------------
(* What follows *)

\* The kills of supervise_child never reach a process group that is not the toolkit's: until the
\* last of them the leader has not been reaped, so the number of its group cannot be recycled.
THEOREM KillsOnlyItsGroup == Spec => []SupervisorKillsOnlyItsGroup
<1>1. IInv => SupervisorKillsOnlyItsGroup
  BY DEF IInv
<1> QED
  BY Invariance, <1>1, PTL

\* A bundle that reaches the parser is whole, within the cap, and of a toolkit that succeeded.
THEOREM ParsedBundleIsWhole == Spec => []OkMeansWhole
<1>1. ASSUME TypeOK, IInv, result = "ok"
      PROVE  /\ proc[Leader] = "gone" /\ status = "success"
             /\ slots = Streams /\ taken["out"] <= StdoutCap
             /\ \A s \in Streams : s = "out" \/ s \notin readFailed =>
                  taken[s] = written[s] /\ \A p \in Procs : s \notin holds[p]
  <2>1. Accepted /\ proc[Leader] = "gone" /\ status = "success" /\ "out" \notin readFailed
    BY <1>1 DEF IInv, OutcomeInv
  <2>2. \A s \in Streams : reader[s] = "sent"
    BY <1>1, <2>1 DEF IInv, ReaderInv, Accepted
  <2>3. taken["out"] <= StdoutCap
    BY <1>1, <2>1, <2>2, SupervisorAssumption
    DEF IInv, ReaderInv, Accepted, Streams, TypeOK, PipesTypeOK, SupervisorAssumption
  <2>4. \A s \in Streams : s \notin readFailed => Eof(s)
    BY <1>1, <2>1, <2>2, <2>3 DEF IInv, ReaderInv, WantsMore
  <2> QED
    BY <2>1, <2>3, <2>4 DEF Accepted, Eof
<1>2. TypeOK /\ IInv => OkMeansWhole
  BY <1>1 DEF OkMeansWhole
<1> QED
  BY Invariance, <1>2, PTL

\* Once more than the cap has been received, the run is refused for its size.
THEOREM SizeRefusalComesFirst == Spec => []SizeRefusalWins
<1>1. ASSUME TypeOK, IInv, pc \in {"drop", "done"}, "out" \in slots, taken["out"] > StdoutCap
      PROVE  result \in {"too_large", "wait_error"}
  <2>1. reader["out"] = "sent"
    BY <1>1 DEF IInv, ReaderInv
  <2>2. oversized
    BY <1>1, <2>1 DEF IInv, ReaderInv
  <2> QED
    BY <1>1, <2>2 DEF IInv, OutcomeInv, Accepted, TypeOK, MainTypeOK, Results
<1>2. TypeOK /\ IInv => SizeRefusalWins
  BY <1>1 DEF SizeRefusalWins
<1> QED
  BY Invariance, <1>2, PTL

\* A run refused for its size or its time leaves nobody of the toolkit's group running.
THEOREM RefusalSweepsTheGroup == Spec => []SweptWhenRefused
<1>1. IInv => SweptWhenRefused
  BY DEF IInv, OutcomeInv, Swept, SweptWhenRefused
<1> QED
  BY Invariance, <1>1, PTL

\* A fatal signal takes the toolkit with it, but for the windows the code names.
THEOREM SignalLeavesNoOrphan == Spec => []NoOrphanOnceArmed
<1>1. ASSUME TypeOK, IInv, ~Alive,
             signalledAt \notin {"install", "spawn", "arm", "drop", "done"}
      PROVE  /\ ~Running(Leader)
             /\ signalledAt \in {"start", "poll", "check_size", "check_deadline", "gate",
                                 "try_wait", "deadline2"}
                  => \A p \in group : ~Running(p)
  <2>1. handler = "dead" /\ signalledAt \in Supervised \cup Decided
    BY <1>1
    DEF Alive, IInv, SignalInv, TypeOK, SignalsTypeOK, Labels, Supervised, Decided
  <2>2. signalledAt \in Supervised => Swept
    BY <1>1, <2>1 DEF IInv, SignalInv
  <2> QED
    BY <1>1, <2>1, <2>2 DEF IInv, SignalInv, Swept, Supervised
<1>2. TypeOK /\ IInv => NoOrphanOnceArmed
  BY <1>1 DEF NoOrphanOnceArmed
<1> QED
  BY Invariance, <1>2, PTL

\* The prover waits no longer than one READER_GRACE for both of its readers.
THEOREM GraceIsShared == Spec => []CollectionGraceShared
<1>1. TypeOK /\ IInv => CollectionGraceShared
  BY SupervisorAssumption
  DEF IInv, GraceInv, TypeOK, ClockTypeOK, CollectionGraceShared, SupervisorAssumption
<1> QED
  BY Invariance, <1>1, PTL
=============================================================================
