----------------------------- MODULE Supervisor -----------------------------
(***************************************************************************)
(* supervise_child (script/src/toolkit.rs): the prover runs the Python     *)
(* toolkit in a process group of its own, reads its two pipes on two       *)
(* threads, and bounds it by a deadline and a cap on its output, while a   *)
(* fatal signal may reach the prover at any moment.                        *)
(*                                                                         *)
(* The threads of the prover (main, two readers, the signal handler), the  *)
(* processes of the child's tree and the clock are separate actors; one    *)
(* action is one system call, one atomic access or one channel operation.  *)
(***************************************************************************)
EXTENDS Naturals, FiniteSets

CONSTANTS
  Leader,          \* the toolkit process, leader of its process group
  Descendants,     \* processes it may start
  StdoutCap,       \* MAX_TOOLKIT_STDOUT_BYTES
  StderrCap,       \* CAPTURE_TOOLKIT_STDERR_BYTES
  PipeCapacity,    \* what a pipe holds before a write blocks
  MaxWrites,       \* bound: what the tree ever writes to each pipe
  Deadline,        \* TOOLKIT_TIMEOUT_SECS, in ticks
  ReaderGrace,     \* READER_GRACE, in ticks
  Adversity        \* what may go wrong in this instance, a subset of Adversities

Streams == {"out", "err"}
Procs == Descendants \cup {Leader}

Adversities ==
  {"fork", "setsid", "close", "quit_early", "fail", "signal", "spawn_error", "wait_error",
   "read_error"}

ASSUME SupervisorAssumption ==
  /\ Leader \notin Descendants
  /\ StdoutCap \in Nat /\ StderrCap \in Nat /\ PipeCapacity \in Nat
  /\ MaxWrites \in [Streams -> Nat]
  /\ Deadline \in Nat /\ ReaderGrace \in Nat
  /\ Adversity \subseteq Adversities

VARIABLES
  proc,           \* the life of each process: "unborn", "running", "killed" (a SIGKILL is
                  \* pending), "zombie" (the leader, not yet waited for), "gone"
  group,          \* the processes in the leader's process group
  holds,          \* the write ends each process holds open
  status,         \* the leader's exit status
  recycled,       \* the number of the group now names a group of somebody else
  strays,         \* history: who sent a SIGKILL to such a group

  written,        \* what the tree wrote to each pipe so far
  taken,          \* what the reader of each pipe took out of it
  reader,         \* each reader thread: "unborn", "reading", "sending", "sent"
  readFailed,     \* the streams whose read ended in an I/O error
  oversized,      \* the AtomicBool

  pc,             \* the main thread
  slots,          \* the readers whose result it has received
  timedOut,
  elapsed,        \* ticks since `start`, up to Deadline
  grace,          \* ticks left until grace_until
  graceSpent,     \* history: ticks it spent blocked in recv_timeout
  result,

  guard,          \* SignalForwardGuard is installed
  armed,          \* SUPERVISED_PGID is not 0
  handler,        \* "idle", "kill" (it loaded the pgid), "raise", "dead" (the prover is)
  signalledAt     \* history: where the main thread was when the handler ran

tree == <<proc, group, holds, status, recycled, strays>>
pipes == <<written, taken, reader, readFailed, oversized>>
main == <<pc, slots, timedOut, result>>
clock == <<elapsed, grace, graceSpent>>
signals == <<guard, armed, handler, signalledAt>>
vars == <<tree, pipes, main, clock, signals>>

Alive == handler # "dead"

----------------------------------------------------------------------------
(* The child and its descendants *)

Running(p) == proc[p] = "running"

\* No process can write to the pipe any more, and what was written has been taken.
Eof(s) ==
  /\ \A p \in Procs : s \notin holds[p]
  /\ taken[s] = written[s]

\* Mutation: kill() where the code has killpg().
KillLeaderOnly(actor) ==
  /\ proc' = [p \in Procs |-> IF p = Leader /\ Running(p) THEN "killed" ELSE proc[p]]
  /\ strays' = IF recycled THEN strays \cup {actor} ELSE strays
  /\ UNCHANGED <<group, holds, status, recycled>>

\* SIGKILL to every process of the group; once the number is recycled it hits strangers.
KillGroup(actor) ==
  /\ proc' = [p \in Procs |-> IF p \in group /\ Running(p) THEN "killed" ELSE proc[p]]
  /\ strays' = IF recycled THEN strays \cup {actor} ELSE strays
  /\ UNCHANGED <<group, holds, status, recycled>>

Write(p, s) ==
  /\ Running(p) /\ s \in holds[p]
  /\ reader[s] # "sent" /\ written[s] - taken[s] < PipeCapacity
  /\ written[s] < MaxWrites[s]
  /\ written' = [written EXCEPT ![s] = @ + 1]
  /\ UNCHANGED <<tree, taken, reader, readFailed, oversized, main, clock, signals>>

Close(p, s) ==
  /\ "close" \in Adversity
  /\ Running(p) /\ s \in holds[p]
  /\ holds' = [holds EXCEPT ![p] = @ \ {s}]
  /\ UNCHANGED <<proc, group, status, recycled, strays, pipes, main, clock, signals>>

\* A new process inherits its parent's group and its open pipes.
Fork(p, q) ==
  /\ "fork" \in Adversity
  /\ Running(p) /\ proc[q] = "unborn"
  /\ proc' = [proc EXCEPT ![q] = "running"]
  /\ holds' = [holds EXCEPT ![q] = holds[p]]
  /\ group' = IF p \in group THEN group \cup {q} ELSE group
  /\ UNCHANGED <<status, recycled, strays, pipes, main, clock, signals>>

\* Any process but a group's leader may leave for a session of its own.
Setsid(q) ==
  /\ "setsid" \in Adversity
  /\ q # Leader /\ Running(q) /\ q \in group
  /\ group' = group \ {q}
  /\ UNCHANGED <<proc, holds, status, recycled, strays, pipes, main, clock, signals>>

\* What is left of a process that ended: the leader waits for the prover to reap it.
Ended(p) == IF p = Leader THEN "zombie" ELSE "gone"

\* The process ends by itself, its work done or not.
Exit(p, success) ==
  /\ Running(p)
  /\ success \/ "fail" \in Adversity
  /\ written = MaxWrites \/ "quit_early" \in Adversity
  /\ proc' = [proc EXCEPT ![p] = Ended(p)]
  /\ holds' = [holds EXCEPT ![p] = {}]
  /\ status' = IF p = Leader THEN IF success THEN "success" ELSE "failure" ELSE status
  /\ UNCHANGED <<group, recycled, strays, pipes, main, clock, signals>>

\* A pending SIGKILL takes effect.
Die(p) ==
  /\ proc[p] = "killed"
  /\ proc' = [proc EXCEPT ![p] = Ended(p)]
  /\ holds' = [holds EXCEPT ![p] = {}]
  /\ status' = IF p = Leader THEN "failure" ELSE status
  /\ UNCHANGED <<group, recycled, strays, pipes, main, clock, signals>>

\* The kernel may give the number of a group away once its leader has been reaped and its last
\* member is gone.
Recycle ==
  /\ ~recycled /\ \A p \in group : proc[p] = "gone"
  /\ Leader \in group
  /\ recycled' = TRUE
  /\ UNCHANGED <<proc, group, holds, status, strays, pipes, main, clock, signals>>

----------------------------------------------------------------------------
(* The reader threads *)

\* Mutation: stderr is read up to its cap and then left alone.
WantsMoreUpToCap(s) == IF s = "out" THEN taken[s] <= StdoutCap ELSE taken[s] < StderrCap

\* Mutation: stdout is read without a limit.
WantsMoreUnbounded(s) == TRUE

\* take(MAX + 1) on stdout; stderr is drained past its cap, to the end of the pipe.
WantsMore(s) == s = "out" => taken[s] <= StdoutCap

Read(s) ==
  /\ Alive /\ reader[s] = "reading"
  /\ WantsMore(s) /\ taken[s] < written[s]
  /\ taken' = [taken EXCEPT ![s] = @ + 1]
  /\ UNCHANGED <<tree, written, reader, readFailed, oversized, main, clock, signals>>

\* Mutation: the size of the buffer is compared with what was asked for, not with the cap.
StopReadingOffByOne(s) ==
  /\ reader' = [reader EXCEPT ![s] = "sending"]
  /\ oversized' = (oversized \/ (s = "out" /\ taken[s] > StdoutCap + 1))

\* The read is over; stdout's reader raises the size flag before it sends.
StopReading(s) ==
  /\ reader' = [reader EXCEPT ![s] = "sending"]
  /\ oversized' = (oversized \/ (s = "out" /\ taken[s] > StdoutCap))

FinishRead(s) ==
  /\ Alive /\ reader[s] = "reading"
  /\ Eof(s) \/ ~WantsMore(s)
  /\ StopReading(s)
  /\ UNCHANGED <<tree, written, taken, readFailed, main, clock, signals>>

\* stdout's reader sends the error along; stderr's drops it, and the one of the drain that
\* comes after it.
ReadError(s) ==
  /\ "read_error" \in Adversity
  /\ Alive /\ reader[s] = "reading"
  /\ StopReading(s)
  /\ readFailed' = readFailed \cup {s}
  /\ UNCHANGED <<tree, written, taken, main, clock, signals>>

\* Send the buffer; the reader's end of the pipe closes with the thread.
Send(s) ==
  /\ Alive /\ reader[s] = "sending"
  /\ reader' = [reader EXCEPT ![s] = "sent"]
  /\ UNCHANGED <<tree, written, taken, readFailed, oversized, main, clock, signals>>

ReaderThread(s) == Read(s) \/ FinishRead(s) \/ Send(s)

----------------------------------------------------------------------------
(* The main thread: start, and phase 1 *)

At(label) == Alive /\ pc = label
Goto(label) == pc' = label

\* SignalForwardGuard::install, before there is a child.
InstallGuard ==
  /\ At("install") /\ Goto("spawn")
  /\ guard' = TRUE
  /\ UNCHANGED <<tree, pipes, slots, timedOut, result, clock, armed, handler, signalledAt>>

Spawn ==
  /\ At("spawn") /\ Goto("arm")
  /\ proc' = [proc EXCEPT ![Leader] = "running"]
  /\ group' = {Leader}
  /\ holds' = [holds EXCEPT ![Leader] = Streams]
  /\ UNCHANGED <<status, recycled, strays, pipes, slots, timedOut, result, clock, signals>>

SpawnFails ==
  /\ "spawn_error" \in Adversity
  /\ At("spawn") /\ Goto("drop")
  /\ result' = "spawn_error"
  /\ UNCHANGED <<tree, pipes, slots, timedOut, clock, signals>>

\* arm_signal_forwarding: the pid is published a moment after the child exists.
Arm ==
  /\ At("arm") /\ Goto("start")
  /\ armed' = TRUE
  /\ UNCHANGED <<tree, pipes, slots, timedOut, result, clock, guard, handler, signalledAt>>

\* Start both readers and the clock.
StartReaders ==
  /\ At("start") /\ Goto("poll")
  /\ reader' = [s \in Streams |-> "reading"]
  /\ UNCHANGED <<tree, written, taken, readFailed, oversized, slots, timedOut, result, clock,
                 signals>>

\* try_recv on both channels.
PollReaders ==
  /\ At("poll") /\ Goto("check_size")
  /\ slots' = slots \cup {s \in Streams : reader[s] = "sent"}
  /\ UNCHANGED <<tree, pipes, timedOut, result, clock, signals>>

CheckSize ==
  /\ At("check_size")
  /\ \/ oversized /\ KillGroup("supervisor") /\ Goto("gate")
     \/ ~oversized /\ UNCHANGED tree /\ Goto("check_deadline")
  /\ UNCHANGED <<pipes, slots, timedOut, result, clock, signals>>

\* Mutation: the loop is left through the readers before the deadline is looked at, past phase 2.
CheckDeadlineReadersFirst ==
  /\ At("check_deadline")
  /\ \/ /\ slots = Streams
        /\ Goto("phase3")
        /\ UNCHANGED <<tree, timedOut>>
     \/ /\ slots # Streams /\ elapsed = Deadline
        /\ KillGroup("supervisor") /\ timedOut' = TRUE
        /\ Goto("gate")
     \/ /\ slots # Streams /\ elapsed < Deadline
        /\ Goto("poll")
        /\ UNCHANGED <<tree, timedOut>>
  /\ UNCHANGED <<pipes, slots, result, clock, signals>>

\* The deadline, then both slots; otherwise sleep and poll again.
CheckDeadline ==
  /\ At("check_deadline")
  /\ \/ /\ elapsed >= Deadline
        /\ KillGroup("supervisor") /\ timedOut' = TRUE
        /\ Goto("gate")
     \/ /\ elapsed < Deadline
        /\ Goto(IF slots = Streams THEN "gate" ELSE "poll")
        /\ UNCHANGED <<tree, timedOut>>
  /\ UNCHANGED <<pipes, slots, result, clock, signals>>

----------------------------------------------------------------------------
(* Phase 2: the child is the only thing left to bound *)

\* Mutation: signals are no longer forwarded once both pipes are closed.
GateDisarms ==
  /\ At("gate")
  /\ Goto(IF timedOut \/ oversized THEN "phase3" ELSE "try_wait")
  /\ armed' = FALSE
  /\ UNCHANGED <<tree, pipes, slots, timedOut, result, clock, guard, handler, signalledAt>>

\* Phase 2 is for a child nobody has killed.
Gate ==
  /\ At("gate")
  /\ Goto(IF timedOut \/ oversized THEN "phase3" ELSE "try_wait")
  /\ UNCHANGED <<tree, pipes, slots, timedOut, result, clock, signals>>

\* waitpid reaps the zombie, and with it the claim on the pid.
Reap ==
  /\ proc' = [proc EXCEPT ![Leader] = "gone"]
  /\ UNCHANGED <<group, holds, status, recycled, strays>>

\* Mutation: the group is swept once the leader has been reaped.
TryWaitThenSweep ==
  /\ At("try_wait")
  /\ \/ proc[Leader] = "zombie" /\ Reap /\ Goto("deadline2")
     \/ proc[Leader] \in {"running", "killed"} /\ UNCHANGED tree /\ Goto("deadline2")
     \/ proc[Leader] = "gone" /\ KillGroup("supervisor") /\ Goto("disarm_reaped")
  /\ UNCHANGED <<pipes, slots, timedOut, result, clock, signals>>

TryWait ==
  /\ At("try_wait")
  /\ \/ proc[Leader] = "zombie" /\ Reap /\ Goto("disarm_reaped")
     \/ proc[Leader] # "zombie" /\ UNCHANGED tree /\ Goto("deadline2")
  /\ UNCHANGED <<pipes, slots, timedOut, result, clock, signals>>

\* waitpid fails: supervise_child returns at once.
WaitFails ==
  /\ "wait_error" \in Adversity
  /\ At("try_wait") \/ At("wait")
  /\ Goto("drop")
  /\ result' = "wait_error"
  /\ UNCHANGED <<tree, pipes, slots, timedOut, clock, signals>>

DisarmReaped ==
  /\ At("disarm_reaped") /\ Goto("phase3")
  /\ armed' = FALSE
  /\ UNCHANGED <<tree, pipes, slots, timedOut, result, clock, guard, handler, signalledAt>>

CheckDeadline2 ==
  /\ At("deadline2")
  /\ \/ /\ elapsed >= Deadline
        /\ KillGroup("supervisor") /\ timedOut' = TRUE
        /\ Goto("phase3")
     \/ /\ elapsed < Deadline
        /\ Goto("try_wait")
        /\ UNCHANGED <<tree, timedOut>>
  /\ UNCHANGED <<pipes, slots, result, clock, signals>>

----------------------------------------------------------------------------
(* Phase 3: collect and reap *)

\* One grace for both readers.
EnterPhase3 ==
  /\ At("phase3") /\ Goto("collect_out")
  /\ grace' = ReaderGrace
  /\ UNCHANGED <<tree, pipes, slots, timedOut, result, elapsed, graceSpent, signals>>

\* recv_timeout(remaining()) has something to return.
CanCollect(s) == s \in slots \/ reader[s] = "sent" \/ grace = 0

Collect(s) ==
  /\ CanCollect(s)
  /\ slots' = IF reader[s] = "sent" THEN slots \cup {s} ELSE slots

\* Mutation: the second reader is waited for with a grace of its own.
CollectOutFreshGrace ==
  /\ At("collect_out") /\ Goto("collect_err")
  /\ Collect("out")
  /\ grace' = ReaderGrace
  /\ UNCHANGED <<tree, pipes, timedOut, result, elapsed, graceSpent, signals>>

CollectOut ==
  /\ At("collect_out") /\ Goto("collect_err")
  /\ Collect("out")
  /\ UNCHANGED <<tree, pipes, timedOut, result, clock, signals>>

CollectErr ==
  /\ At("collect_err") /\ Goto("disarm")
  /\ Collect("err")
  /\ UNCHANGED <<tree, pipes, timedOut, result, clock, signals>>

Disarm ==
  /\ At("disarm") /\ Goto("wait")
  /\ armed' = FALSE
  /\ UNCHANGED <<tree, pipes, slots, timedOut, result, clock, guard, handler, signalledAt>>

\* Child::wait blocks until there is a zombie, or returns the status try_wait got.
Wait ==
  /\ At("wait") /\ Goto("resolve")
  /\ \/ proc[Leader] = "zombie" /\ Reap
     \/ proc[Leader] = "gone" /\ UNCHANGED tree
  /\ UNCHANGED <<pipes, slots, timedOut, result, clock, signals>>

\* Mutation: the deadline is reported before the size.
VerdictTimeoutFirst ==
  CASE timedOut                          -> "timed_out"
    [] ~timedOut /\ oversized            -> "too_large"
    [] OTHER -> IF status # "success" THEN "exit_status"
                ELSE IF "out" \in readFailed THEN "read_error" ELSE "ok"

\* supervise_child's refusals, then run_toolkit's.
Verdict ==
  CASE oversized                                          -> "too_large"
    [] ~oversized /\ timedOut                             -> "timed_out"
    [] ~oversized /\ ~timedOut /\ status # "success"      -> "exit_status"
    [] ~oversized /\ ~timedOut /\ status = "success" /\ "out" \in readFailed -> "read_error"
    [] OTHER                                              -> "ok"

Resolve ==
  /\ At("resolve") /\ Goto("drop")
  /\ result' = Verdict
  /\ UNCHANGED <<tree, pipes, slots, timedOut, clock, signals>>

\* The guard is dropped on every return.
DropGuard ==
  /\ At("drop") /\ Goto("done")
  /\ guard' = FALSE /\ armed' = FALSE
  /\ UNCHANGED <<tree, pipes, slots, timedOut, result, clock, handler, signalledAt>>

\* The steps the main thread takes when it is scheduled; no failing call is counted on.
Advance ==
  \/ InstallGuard \/ Spawn \/ Arm \/ StartReaders
  \/ PollReaders \/ CheckSize \/ CheckDeadline
  \/ Gate \/ TryWait \/ DisarmReaped \/ CheckDeadline2
  \/ EnterPhase3 \/ CollectOut \/ CollectErr \/ Disarm \/ Wait \/ Resolve \/ DropGuard

MainThread == Advance \/ SpawnFails \/ WaitFails

----------------------------------------------------------------------------
(* Signals and time *)

\* SIGINT or SIGTERM under its default disposition ends the prover.
SignalDefault ==
  /\ "signal" \in Adversity
  /\ Alive /\ ~guard /\ handler = "idle"
  /\ handler' = "dead" /\ signalledAt' = pc
  /\ UNCHANGED <<tree, pipes, main, clock, guard, armed>>

\* forward_fatal_signal starts, on whichever thread took the signal: the main thread need not
\* stop for it.
SignalHandled ==
  /\ "signal" \in Adversity
  /\ Alive /\ guard /\ handler = "idle"
  /\ handler' = IF armed THEN "kill" ELSE "raise"
  /\ signalledAt' = pc
  /\ UNCHANGED <<tree, pipes, main, clock, guard, armed>>

ForwardKill ==
  /\ handler = "kill"
  /\ KillGroup("handler")
  /\ handler' = "raise"
  /\ UNCHANGED <<pipes, main, clock, guard, armed, signalledAt>>

\* SIG_DFL and raise.
Raise ==
  /\ handler = "raise"
  /\ handler' = "dead"
  /\ UNCHANGED <<tree, pipes, main, clock, guard, armed, signalledAt>>

\* The main thread is inside recv_timeout and has nothing to return yet.
Collecting ==
  \/ At("collect_out") /\ ~CanCollect("out")
  \/ At("collect_err") /\ ~CanCollect("err")

Started == pc \notin {"install", "spawn", "arm", "start"}

Tick ==
  /\ Alive /\ Started /\ pc # "done"
  /\ elapsed < Deadline \/ grace > 0
  /\ elapsed' = IF elapsed < Deadline THEN elapsed + 1 ELSE elapsed
  /\ grace' = IF grace > 0 THEN grace - 1 ELSE 0
  /\ graceSpent' = IF Collecting THEN graceSpent + 1 ELSE graceSpent
  /\ UNCHANGED <<tree, pipes, main, signals>>

----------------------------------------------------------------------------

Init ==
  /\ proc = [p \in Procs |-> "unborn"] /\ group = {} /\ holds = [p \in Procs |-> {}]
  /\ status = "none" /\ recycled = FALSE /\ strays = {}
  /\ written = [s \in Streams |-> 0] /\ taken = [s \in Streams |-> 0]
  /\ reader = [s \in Streams |-> "unborn"] /\ readFailed = {} /\ oversized = FALSE
  /\ pc = "install" /\ slots = {} /\ timedOut = FALSE /\ result = "none"
  /\ elapsed = 0 /\ grace = 0 /\ graceSpent = 0
  /\ guard = FALSE /\ armed = FALSE /\ handler = "idle" /\ signalledAt = "nowhere"

ProcessTree ==
  \/ \E p \in Procs, s \in Streams : Write(p, s) \/ Close(p, s)
  \/ \E p \in Procs, q \in Descendants : Fork(p, q)
  \/ \E q \in Procs : Setsid(q) \/ Die(q)
  \/ \E p \in Procs, success \in BOOLEAN : Exit(p, success)
  \/ Recycle

Next ==
  \/ ProcessTree
  \/ \E s \in Streams : ReaderThread(s) \/ ReadError(s)
  \/ MainThread
  \/ SignalDefault \/ SignalHandled \/ ForwardKill \/ Raise
  \/ Tick

Spec == Init /\ [][Next]_vars

\* The main thread and the readers are scheduled, time passes, and the kernel carries out a
\* SIGKILL. Nothing is assumed of the toolkit.
FairSpec ==
  /\ Spec
  /\ WF_vars(Advance)
  /\ \A s \in Streams : WF_vars(ReaderThread(s))
  /\ \A p \in Procs : WF_vars(Die(p))
  /\ WF_vars(Tick)

\* A toolkit that does its work: it writes what it has to write and exits with success. The
\* clock may stand still, so that only the deadline, and never slowness, decides.
PoliteSpec ==
  /\ Spec
  /\ WF_vars(Advance)
  /\ \A s \in Streams : WF_vars(ReaderThread(s)) /\ WF_vars(Write(Leader, s))
  /\ WF_vars(Exit(Leader, TRUE))

----------------------------------------------------------------------------
(* Properties *)

Labels ==
  {"install", "spawn", "arm", "start", "poll", "check_size", "check_deadline", "gate",
   "try_wait", "disarm_reaped", "deadline2", "phase3", "collect_out", "collect_err", "disarm",
   "wait", "resolve", "drop", "done"}

Results == {"none", "spawn_error", "wait_error", "too_large", "timed_out", "exit_status",
            "read_error", "ok"}

TreeTypeOK ==
  /\ proc \in [Procs -> {"unborn", "running", "killed", "zombie", "gone"}]
  /\ group \subseteq Procs
  /\ holds \in [Procs -> SUBSET Streams]
  /\ status \in {"none", "success", "failure"}
  /\ recycled \in BOOLEAN /\ strays \subseteq {"supervisor", "handler"}

PipesTypeOK ==
  /\ written \in [Streams -> Nat] /\ taken \in [Streams -> Nat]
  /\ taken["out"] <= StdoutCap + 1
  /\ reader \in [Streams -> {"unborn", "reading", "sending", "sent"}]
  /\ readFailed \subseteq Streams /\ oversized \in BOOLEAN

MainTypeOK ==
  /\ pc \in Labels /\ slots \subseteq Streams
  /\ timedOut \in BOOLEAN /\ result \in Results

ClockTypeOK == elapsed \in 0..Deadline /\ grace \in 0..ReaderGrace /\ graceSpent \in Nat

SignalsTypeOK ==
  /\ guard \in BOOLEAN /\ armed \in BOOLEAN
  /\ handler \in {"idle", "kill", "raise", "dead"}
  /\ signalledAt \in Labels \cup {"nowhere"}

\* The type of every variable. The reader of stdout never holds more than one byte past the cap
\* (toolkit.rs:324-335).
TypeOK == TreeTypeOK /\ PipesTypeOK /\ MainTypeOK /\ ClockTypeOK /\ SignalsTypeOK

\* Invariant 2 of toolkit.rs:281-286: the kills of supervise_child itself never reach a process
\* group that is not the toolkit's, whoever inherits its number after the reap.
SupervisorKillsOnlyItsGroup == "supervisor" \notin strays

\* The bundle is parsed only when it is whole: the toolkit has been reaped, it succeeded, every
\* write end of its pipes is closed, and all that was written was read, within the cap
\* (toolkit.rs:240-258, 361-366).  Of stderr that is so unless its read failed, which its reader
\* lets pass (toolkit.rs:349).
OkMeansWhole ==
  result = "ok" =>
    /\ proc[Leader] = "gone" /\ status = "success"
    /\ slots = Streams /\ taken["out"] <= StdoutCap
    /\ \A s \in Streams : s = "out" \/ s \notin readFailed =>
         taken[s] = written[s] /\ \A p \in Procs : s \notin holds[p]

\* "Resolve the refusal from the size flag first, however the loop exited" (toolkit.rs:454-457):
\* when the prover has received more than the cap, no other refusal hides it.
SizeRefusalWins ==
  pc \in {"drop", "done"} /\ "out" \in slots /\ taken["out"] > StdoutCap
    => result \in {"too_large", "wait_error"}

\* Invariant 1 of toolkit.rs:276-280: when the run is refused for its size or its time, nothing
\* in the toolkit's group runs on, a process born during the run included.
SweptWhenRefused ==
  result \in {"too_large", "timed_out"} => \A p \in group : ~Running(p)

\* toolkit.rs:298-312: a fatal signal leaves the toolkit running only when it lands before its
\* pid has been published, or after a failed waitpid gave the child up. While the readers or the
\* child are waited for, the signal takes the whole group with it, even when the main thread goes
\* on and disarms while the handler is running.
NoOrphanOnceArmed ==
  ~Alive /\ signalledAt \notin {"install", "spawn", "arm", "drop", "done"} =>
    /\ ~Running(Leader)
    /\ signalledAt \in {"start", "poll", "check_size", "check_deadline", "gate", "try_wait",
                       "deadline2"}
         => \A p \in group : ~Running(p)

\* "One grace shared across both readers, not one each" (toolkit.rs:431-433): the prover waits no
\* longer than READER_GRACE for its readers once the kill is decided.
CollectionGraceShared == graceSpent <= ReaderGrace

\* supervise_child returns, or a signal ends the prover: a descendant that keeps a pipe open from
\* a session of its own, or a toolkit that closes its pipes and sleeps, cannot hold it
\* (toolkit.rs:376-381, 403-406).
Returns == <>(pc = "done" \/ ~Alive)

\* A toolkit that writes a bundle within the cap, and any amount to stderr, is never blocked by
\* the prover: it succeeds or meets the deadline (toolkit.rs:342-355).
PoliteSucceeds == <>(result = "ok" \/ elapsed = Deadline)

\* The comments on the disarm (toolkit.rs:518, "Must be called before the leader is reaped, never
\* after") and in the handler (toolkit.rs:533-535).
DisarmPrecedesReap == proc[Leader] = "gone" => ~armed
=============================================================================
