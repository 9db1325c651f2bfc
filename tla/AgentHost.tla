----------------------------- MODULE AgentHost -----------------------------
(* One brokered agent run: the Agent Host of crates/ai/src/agent.rs driven   *)
(* by run_agent (apps/daemon/src/agent_service.rs), the child process it     *)
(* starts, the three pipes between them and the clock.                       *)
(*                                                                           *)
(* The child is not trusted: it may read or not, write anything, fill its    *)
(* stderr, fork a descendant that keeps the pipes open (unless a sandbox     *)
(* kills descendants with it), exit, or hang.  It gets no fairness.  Only    *)
(* the host's own steps and the clock are sure to happen.  What the          *)
(* proposals may do is Authority's matter; here each only takes time.        *)
EXTENDS Naturals

CONSTANTS
    Timeout,        \* timeout_ms, in ticks
    MaxFrame,       \* the longest frame, in pipe units
    PipeCap,        \* what a pipe holds, in the same units
    ErrLimit,       \* max_stderr_bytes
    MaxErr,         \* bound: units the child may write to stderr
    MaxExec         \* bound: ticks the broker may spend on the proposals

ASSUME HostAssumption ==
    /\ Timeout \in Nat \ {0} /\ MaxFrame \in Nat \ {0} /\ PipeCap \in Nat \ {0}
    /\ ErrLimit \in Nat /\ MaxErr \in Nat /\ MaxExec \in Nat

Waits == {"writing", "reading", "failing", "results", "draining", "waiting", "joining"}
Lines == {"proposals", "malformed", "oversize"}
AgentSessionStatus == {"Running", "Completed", "Failed", "TimedOut", "Crashed"}

VARIABLES
    pc,             \* where run_agent is: idle, a wait, executing, or done
    status,         \* the session status it ends with
    child,          \* none, running, exited, failed, killed
    forked,         \* a descendant holds the child's pipes open
    stdin,          \* units in the stdin pipe
    left,           \* units of the current frame not yet written
    line,           \* the line waiting in stdout, or "none"
    open,           \* the pipe ends the child has not closed
    trailing,       \* stdout after the line: "none", "some", or "over"
    err,            \* [wrote, read]: units through the stderr pipe
    drain,          \* the stderr task: none, running, ok, over, aborted
    clock,          \* [now, started, deadline, exec]
    alive,          \* ghost: ticks the child was alive
    sandboxed       \* the configuration: bubblewrap, which kills descendants too

vars == <<pc, status, child, forked, stdin, left, line, open, trailing, err, drain, clock, alive>>
childvars == <<child, forked, stdin, line, open, trailing, err>>

TypeOK ==
    /\ pc \in Waits \cup {"idle", "executing", "done"}
    /\ status \in AgentSessionStatus
    /\ child \in {"none", "running", "exited", "failed", "killed"}
    /\ forked \in BOOLEAN /\ open \subseteq {"stdin", "stdout"}
    /\ stdin \in 0..PipeCap /\ left \in 0..MaxFrame
    /\ line \in Lines \cup {"none"} /\ trailing \in {"none", "some", "over"}
    /\ err \in [wrote : 0..MaxErr, read : 0..MaxErr]
    /\ drain \in {"none", "running", "ok", "over", "aborted"}
    /\ clock \in [now : Nat, started : Nat, deadline : Nat, exec : 0..MaxExec]
    /\ alive \in Nat /\ sandboxed \in BOOLEAN

Init ==
    /\ pc = "idle" /\ status = "Running" /\ child = "none" /\ forked = FALSE
    /\ stdin = 0 /\ left = 0 /\ line = "none" /\ open = {"stdin", "stdout"} /\ trailing = "none"
    /\ err = [wrote |-> 0, read |-> 0] /\ drain = "none"
    /\ clock = [now |-> 0, started |-> 0, deadline |-> 0, exec |-> 0]
    /\ alive = 0 /\ sandboxed \in BOOLEAN

-----------------------------------------------------------------------------
(* Helpers.                                                                  *)

\* Instant::now() has reached the deadline: a timeout() that waits now fires.
Due == clock.now >= clock.deadline
\* remaining() refuses: the deadline lies in the past.
Past == clock.now > clock.deadline

\* Mutant: the error is stored as it is.
agent_error_status_Unmapped(error) == error

\* agent_error_status.
agent_error_status(error) ==
    CASE error = "TimedOut" -> "TimedOut"
      [] error \in {"ProcessFailed", "Io"} -> "Crashed"
      [] OTHER -> "Failed"

\* child.kill().await kills and reaps; a sandbox takes the descendants along.
Kill == /\ child' = IF child = "running" THEN "killed" ELSE child
        /\ forked' = (forked /\ ~sandboxed)
        /\ UNCHANGED <<stdin, line, open, trailing, err>>

\* The other end of the pipes is gone.
Gone == child # "running" /\ ~forked
StdoutAtEnd == Gone \/ ("stdout" \notin open /\ ~forked)
StdinClosed == Gone \/ ("stdin" \notin open /\ ~forked)

Finish(s) == pc' = "done" /\ status' = s

\* RunningAgent::fail: kill, then wait for the stderr task.
fail(error) == /\ pc' = "failing" /\ status' = agent_error_status(error)
               /\ Kill
               /\ UNCHANGED <<left, drain, clock, alive>>

\* An error after which nothing waits for the stderr task.
KillAndReturn(error) == /\ Finish(agent_error_status(error))
                        /\ Kill
                        /\ UNCHANGED <<left, drain, clock, alive>>

-----------------------------------------------------------------------------
(* AgentHost::start.                                                         *)

\* The configuration, the executable, the sandbox or the resource limits are
\* refused, or the process cannot be started.
start_refused ==
    /\ pc = "idle"
    /\ Finish("Failed")
    /\ UNCHANGED <<childvars, left, drain, clock, alive>>

\* The child is spawned and the request is written under a timeout of its own.
start(frame) ==
    /\ pc = "idle"
    /\ pc' = "writing" /\ child' = "running" /\ left' = frame
    /\ clock' = [clock EXCEPT !.deadline = clock.now + Timeout]
    /\ UNCHANGED <<status, forked, stdin, line, open, trailing, err, drain, alive>>

WriteUnit(from) ==
    /\ pc = from /\ left > 0 /\ stdin < PipeCap /\ ~StdinClosed
    /\ stdin' = stdin + 1 /\ left' = left - 1
    /\ UNCHANGED <<pc, status, child, forked, line, open, trailing, err, drain, clock, alive>>

start_write == WriteUnit("writing")

start_write_fails ==
    /\ pc = "writing" /\ left > 0
    /\ \/ StdinClosed /\ KillAndReturn("Io")
       \/ Due /\ KillAndReturn("TimedOut")

\* The request is out: the stderr task starts, and the deadline is set anew.
start_returns ==
    /\ pc = "writing" /\ left = 0
    /\ pc' = "reading" /\ drain' = "running"
    /\ clock' = [clock EXCEPT !.deadline = clock.now + Timeout]
    /\ UNCHANGED <<status, childvars, left, alive>>

-----------------------------------------------------------------------------
(* RunningAgent::receive_proposals and the broker loop of run_agent.         *)

receive_proposals ==
    /\ pc = "reading" /\ line = "proposals"
    /\ pc' = "executing" /\ line' = "none"
    /\ UNCHANGED <<status, child, forked, stdin, left, open, trailing, err, drain, clock, alive>>

\* Mutant: the proposals are read without a timeout.
receive_fails_Untimed ==
    /\ pc = "reading"
    /\ \/ line = "malformed" /\ fail("MalformedOutput")
       \/ line = "oversize" /\ fail("OutputTooLarge")
       \/ line = "none" /\ StdoutAtEnd /\ fail("MalformedOutput")

receive_fails ==
    /\ pc = "reading"
    /\ \/ line = "malformed" /\ fail("MalformedOutput")
       \/ line = "oversize" /\ fail("OutputTooLarge")
       \/ line = "none" /\ StdoutAtEnd /\ fail("MalformedOutput")
       \/ line = "none" /\ Due /\ fail("TimedOut")

\* Mutant: the results get a timeout of their own.
complete_NewDeadline(frame) ==
    /\ pc = "executing" /\ ~Past
    /\ pc' = "results" /\ left' = frame
    /\ clock' = [clock EXCEPT !.deadline = clock.now + Timeout]
    /\ UNCHANGED <<status, childvars, drain, alive>>

\* Every proposal has its result and the broker answers; complete looks at the
\* size of the frame first and at the deadline next.
complete(frame) ==
    /\ pc = "executing" /\ ~Past
    /\ pc' = "results" /\ left' = frame
    /\ UNCHANGED <<status, childvars, drain, clock, alive>>

\* terminate() after a storage error or an invalid context, or a result frame
\* that is too large.
executing_fails ==
    /\ pc = "executing"
    /\ \/ fail("Failed")
       \/ Past /\ fail("TimedOut")

-----------------------------------------------------------------------------
(* RunningAgent::complete, one timeout around it.                            *)

complete_write == WriteUnit("results")

\* stdin is shut down and stdout read to its end, or one unit past the limit.
complete_drain ==
    /\ \/ pc = "results" /\ left = 0 /\ pc' = "draining"
       \/ pc = "draining" /\ StdoutAtEnd /\ trailing # "over" /\ pc' = "waiting"
    /\ UNCHANGED <<status, childvars, left, drain, clock, alive>>

complete_wait ==
    /\ pc = "waiting" /\ child = "exited"
    /\ pc' = "joining"
    /\ UNCHANGED <<status, childvars, left, drain, clock, alive>>

complete_fails ==
    \/ pc = "results" /\ left > 0 /\ StdinClosed /\ KillAndReturn("Io")
    \/ pc = "draining" /\ trailing = "over" /\ KillAndReturn("OutputTooLarge")
    \/ pc = "waiting" /\ child = "failed" /\ KillAndReturn("ProcessFailed")
    \/ pc \in {"results", "draining", "waiting"} /\ Due /\ KillAndReturn("TimedOut")

\* Mutant: what the stderr task found is dropped.
join_stderr_Ignored ==
    /\ pc \in {"joining", "failing"} /\ drain \in {"ok", "over", "none"}
    /\ Finish(IF pc = "failing" THEN status ELSE "Completed")
    /\ UNCHANGED <<childvars, left, drain, clock, alive>>

\* join_stderr, after a clean exit or in fail: the task's own result counts
\* only after a clean exit.
join_stderr ==
    /\ pc \in {"joining", "failing"} /\ drain \in {"ok", "over", "none"}
    /\ Finish(IF pc = "failing" THEN status
              ELSE IF drain = "over" THEN agent_error_status("OutputTooLarge") ELSE "Completed")
    /\ UNCHANGED <<childvars, left, drain, clock, alive>>

join_stderr_times_out ==
    /\ pc \in {"joining", "failing"} /\ drain = "running" /\ Due
    /\ drain' = "aborted"
    /\ Finish(IF pc = "failing" THEN status ELSE agent_error_status("TimedOut"))
    /\ UNCHANGED <<childvars, left, clock, alive>>

\* read_bounded: to the end of stderr, or one unit past the limit, after which
\* it reads no more.
read_bounded ==
    /\ drain = "running"
    /\ \/ /\ err.read < err.wrote
          /\ err' = [err EXCEPT !.read = @ + 1]
          /\ drain' = IF err.read = ErrLimit THEN "over" ELSE drain
       \/ /\ err.read = err.wrote /\ Gone
          /\ drain' = "ok"
          /\ UNCHANGED err
    /\ UNCHANGED <<pc, status, child, forked, stdin, left, line, open, trailing, clock, alive>>

-----------------------------------------------------------------------------
(* The child, and time.                                                      *)

ChildReads ==
    /\ child = "running" /\ stdin > 0 /\ "stdin" \in open
    /\ stdin' = stdin - 1
    /\ UNCHANGED <<pc, status, child, forked, left, line, open, trailing, err, drain, clock, alive>>

\* One line, and what may follow it.
ChildWrites ==
    /\ child = "running" /\ "stdout" \in open
    /\ \/ line = "none" /\ pc \in {"writing", "reading"} /\ line' \in Lines /\ UNCHANGED trailing
       \/ trailing' \in {"some", "over"} /\ UNCHANGED line
    /\ UNCHANGED <<pc, status, child, forked, stdin, left, open, err, drain, clock, alive>>

\* Blocks while the pipe is full and somebody may still read it.
ChildComplains ==
    /\ child = "running" /\ err.wrote < MaxErr /\ err.wrote - err.read < PipeCap
    /\ err' = [err EXCEPT !.wrote = @ + 1]
    /\ UNCHANGED <<pc, status, child, forked, stdin, left, line, open, trailing, drain, clock, alive>>

ChildForks ==
    /\ child = "running" /\ ~forked
    /\ forked' = TRUE
    /\ UNCHANGED <<pc, status, child, stdin, left, line, open, trailing, err, drain, clock, alive>>

ChildCloses ==
    /\ child = "running"
    /\ \E pipe \in open : open' = open \ {pipe}
    /\ UNCHANGED <<pc, status, child, forked, stdin, left, line, trailing, err, drain, clock, alive>>

ChildExits ==
    /\ child = "running"
    /\ child' \in {"exited", "failed"}
    /\ forked' = (forked /\ ~sandboxed)
    /\ UNCHANGED <<pc, status, stdin, left, line, open, trailing, err, drain, clock, alive>>

\* Timers are served before more time passes; the broker's own work is not
\* under a timer, so only the bound stops it.
Tick ==
    /\ pc \notin {"idle", "done"}
    /\ pc \in Waits => ~Due
    /\ pc = "executing" => clock.exec < MaxExec
    /\ clock' = [clock EXCEPT !.now = @ + 1, !.exec = IF pc = "executing" THEN @ + 1 ELSE @]
    /\ alive' = IF child = "running" THEN alive + 1 ELSE alive
    /\ UNCHANGED <<pc, status, childvars, left, drain>>

-----------------------------------------------------------------------------
Host ==
    \/ start_write \/ start_write_fails \/ start_returns
    \/ receive_proposals \/ receive_fails
    \/ \E frame \in 1..MaxFrame : complete(frame)
    \/ executing_fails
    \/ complete_write \/ complete_drain \/ complete_wait \/ complete_fails
    \/ join_stderr \/ join_stderr_times_out

Child == ChildReads \/ ChildWrites \/ ChildComplains \/ ChildForks \/ ChildCloses \/ ChildExits

Next ==
    \/ start_refused
    \/ \E frame \in 1..MaxFrame : start(frame)
    \/ Host
    \/ read_bounded
    \/ Child
    \/ Tick

\* The runtime polls the handler and the stderr task, and time passes.
Spec ==
    /\ Init /\ [][Next /\ UNCHANGED sandboxed]_<<vars, sandboxed>>
    /\ WF_vars(Host) /\ WF_vars(read_bounded) /\ WF_vars(Tick)

-----------------------------------------------------------------------------
(* Properties.                                                               *)

\* However the run ends, its child is dead and reaped when the handler
\* returns, and no descendant survives a sandboxed one (agent.rs:172-207,
\* 337-369).
ChildIsReaped ==
    pc = "done" => child # "running" /\ (sandboxed => ~forked)

\* A run is recorded Completed only for a child that ended well, was handed all
\* of its results and kept both of its outputs within their limits.
CompletedIsClean ==
    status = "Completed" => /\ child = "exited" /\ left = 0
                            /\ trailing # "over" /\ line = "none"
                            /\ drain = "ok" /\ err.read = err.wrote /\ err.read <= ErrLimit

\* A run is never recorded TimedOut before its timeout has passed.
TimeoutIsNotEarly ==
    status = "TimedOut" => clock.now - clock.started >= Timeout

\* The child lives for at most two timeouts, one for handing over the request
\* and one for the rest, besides what the broker itself spent on proposals.
WallIsBounded ==
    alive <= 2 * Timeout + clock.exec

\* Every run ends, whatever the child does: two sides that wait for each other
\* on full pipes are parted by the timeout.
RunEnds == (pc = "writing") ~> (pc = "done")

\* The stderr task does not outlive the run for longer than a descendant keeps
\* the pipe open.
DrainEnds == (pc = "done" /\ ~forked) ~> (drain # "running")

\* What run_agent records about a run is what happened to the child, and when.
OutcomeIsTrue == ChildIsReaped /\ CompletedIsClean /\ TimeoutIsNotEarly

\* Neither the run nor the task that reads stderr is kept waiting for ever.
EverythingEnds == RunEnds /\ DrainEnds
=============================================================================
