-------------------------- MODULE AgentHostProofs --------------------------
(***************************************************************************)
(* What holds of every agent run, for any timeout, pipe size, limit and     *)
(* child.  HostInv says at each await of run_agent what is known of the     *)
(* child, of the pipes and of the clock.                                    *)
(***************************************************************************)
EXTENDS AgentHost, TLAPS

\* A child that is not running leaves no descendant in a sandbox, and the host
\* passes these awaits only with a child that is dead.
ChildInv ==
    /\ child # "running" /\ sandboxed => ~forked
    /\ pc \in {"idle", "failing", "joining", "done"} => child # "running"
    /\ pc = "joining" => child = "exited"

\* What has gone through the pipes by the time each await is reached.
PipeInv ==
    /\ err.read <= err.wrote
    /\ pc \in {"draining", "waiting", "joining"} => left = 0
    /\ pc \notin {"writing", "reading", "failing", "done"} => line = "none"
    /\ pc \in {"waiting", "joining"} => /\ trailing # "over"
                                        /\ child # "running" \/ "stdout" \notin open

\* The stderr task reads no more than one unit past the limit, and has ended
\* well only when nobody can write any more.
DrainInv ==
    /\ pc \in {"idle", "writing"} => drain = "none"
    /\ pc \in {"reading", "executing", "results", "draining", "waiting", "joining"}
          => drain # "none"
    /\ drain \in {"none", "running"} => err.read <= ErrLimit
    /\ drain = "ok" => child # "running" /\ err.read = err.wrote /\ err.read <= ErrLimit

\* The deadline, set once before the request and once after it.
ClockInv ==
    /\ clock.started = 0 /\ alive <= clock.now
    /\ pc = "idle" => clock.now = 0 /\ clock.deadline = 0
    /\ pc \in {"idle", "writing", "reading"} => clock.exec = 0
    /\ pc \notin {"idle", "done"} => clock.deadline >= Timeout
    /\ pc = "writing" => clock.deadline = Timeout /\ clock.now <= Timeout
    /\ clock.deadline <= 2 * Timeout
    /\ alive <= clock.deadline + clock.exec

\* The status is set where the run is given up or ends.
StatusInv ==
    /\ status = "Completed" => pc = "done"
    /\ status = "TimedOut" => clock.now >= Timeout
    /\ status # "Running" => pc \in {"failing", "done"}
    /\ CompletedIsClean

HostInv == TypeOK /\ ChildInv /\ PipeInv /\ DrainInv /\ ClockInv /\ StatusInv

\* agent_error_status gives a status that ends a run, TimedOut for a timeout
\* only, and never Completed.
LEMMA ErrorStatus ==
    ASSUME NEW error
    PROVE  /\ agent_error_status(error) \in AgentSessionStatus \ {"Running", "Completed"}
           /\ agent_error_status(error) = "TimedOut" => error = "TimedOut"
  BY DEF agent_error_status, AgentSessionStatus

\* kill() leaves no running child, and no descendant in a sandbox.
LEMMA KillEnds ==
    ASSUME TypeOK, ChildInv, Kill, UNCHANGED sandboxed
    PROVE  /\ child' \in {"none", "exited", "failed", "killed"}
           /\ child = "running" \/ child' = child
           /\ forked' \in BOOLEAN
           /\ sandboxed => ~forked'
  BY DEF TypeOK, ChildInv, Kill

\* Both ways of giving a run up, from a wait that knows enough of the clock.
LEMMA GivingUp ==
    ASSUME HostInv, UNCHANGED sandboxed, NEW error,
           fail(error) \/ KillAndReturn(error),
           pc \in {"writing", "reading", "executing", "results", "draining", "waiting"},
           error = "TimedOut" => clock.now >= clock.deadline
    PROVE  HostInv'
<1> USE DEF HostInv
<1>1. /\ pc' \in {"failing", "done"} /\ status' = agent_error_status(error) /\ Kill
      /\ UNCHANGED <<left, drain, clock, alive>>
  BY DEF fail, KillAndReturn, Finish
<1>2. /\ child' \in {"none", "exited", "failed", "killed"} /\ forked' \in BOOLEAN
      /\ child = "running" \/ child' = child
      /\ sandboxed => ~forked'
      /\ UNCHANGED <<stdin, line, open, trailing, err>>
  BY <1>1, KillEnds DEF Kill
<1>3. /\ status' \in AgentSessionStatus \ {"Running", "Completed"}
      /\ status' = "TimedOut" => clock.now >= clock.deadline
  BY <1>1, ErrorStatus
<1>4. TypeOK'
  BY <1>1, <1>2, <1>3 DEF TypeOK, Waits
<1>5. ChildInv'
  BY <1>1, <1>2 DEF ChildInv
<1>6. PipeInv' /\ DrainInv'
  BY <1>1, <1>2 DEF PipeInv, DrainInv
<1>7. ClockInv' /\ StatusInv'
  BY <1>1, <1>3, HostAssumption DEF ClockInv, StatusInv, CompletedIsClean, TypeOK
<1> QED
  BY <1>4, <1>5, <1>6, <1>7

\* Every step of the host, of the stderr task, of the child and of the clock
\* preserves the invariant.
LEMMA HostStep ==
    ASSUME HostInv, Next, UNCHANGED sandboxed
    PROVE  HostInv'
<1> USE HostAssumption DEF HostInv, TypeOK, ChildInv, PipeInv, DrainInv, ClockInv, StatusInv,
                           CompletedIsClean, AgentSessionStatus, Waits, Lines
<1>1. CASE start_refused
  BY <1>1 DEF start_refused, Finish, childvars
<1>2. ASSUME NEW frame \in 1..MaxFrame, start(frame)
      PROVE  HostInv'
  BY <1>2 DEF start, childvars
<1>3. CASE start_write
  BY <1>3 DEF start_write, WriteUnit
<1>4. CASE start_write_fails
  BY <1>4, GivingUp DEF start_write_fails, Due
<1>5. CASE start_returns
  BY <1>5 DEF start_returns, childvars
<1>6. CASE receive_proposals
  BY <1>6 DEF receive_proposals
<1>7. CASE receive_fails
  BY <1>7, GivingUp DEF receive_fails, Due
<1>8. ASSUME NEW frame \in 1..MaxFrame, complete(frame)
      PROVE  HostInv'
  BY <1>8 DEF complete, childvars, Past
<1>9. CASE executing_fails
  BY <1>9, GivingUp DEF executing_fails, Past
<1>10. CASE complete_write
  BY <1>10 DEF complete_write, WriteUnit
<1>11. CASE complete_drain
  BY <1>11 DEF complete_drain, childvars, StdoutAtEnd, Gone
<1>12. CASE complete_wait
  BY <1>12 DEF complete_wait, childvars
<1>13. CASE complete_fails
  BY <1>13, GivingUp DEF complete_fails, Due
<1>14. CASE join_stderr
  BY <1>14 DEF join_stderr, Finish, childvars, agent_error_status
<1>15. CASE join_stderr_times_out
  BY <1>15 DEF join_stderr_times_out, Finish, childvars, agent_error_status, Due
<1>16. CASE read_bounded
  BY <1>16 DEF read_bounded, Gone
<1>17. CASE ChildReads
  BY <1>17 DEF ChildReads
<1>18. CASE ChildWrites
  BY <1>18 DEF ChildWrites
<1>19. CASE ChildComplains
  BY <1>19 DEF ChildComplains
<1>20. CASE ChildForks
  BY <1>20 DEF ChildForks
<1>21. CASE ChildCloses
  BY <1>21 DEF ChildCloses
<1>22. CASE ChildExits
  <2>1. forked' \in BOOLEAN /\ (sandboxed => ~forked')
    BY <1>22 DEF ChildExits
  <2>2. /\ child' \in {"exited", "failed"} /\ child = "running"
        /\ UNCHANGED <<pc, status, stdin, left, line, open, trailing, err, drain, clock, alive>>
    BY <1>22 DEF ChildExits
  <2>3. TypeOK' /\ ClockInv' /\ StatusInv'
    BY <2>1, <2>2
  <2>4. ChildInv' /\ PipeInv' /\ DrainInv'
    BY <2>1, <2>2
  <2> QED
    BY <2>3, <2>4
<1>23. CASE Tick
  <2>1. /\ clock' = [now |-> clock.now + 1, started |-> clock.started, deadline |-> clock.deadline,
                     exec |-> IF pc = "executing" THEN clock.exec + 1 ELSE clock.exec]
    BY <1>23 DEF Tick
  <2>2. /\ pc \in Waits => clock.now < clock.deadline
        /\ pc = "executing" => clock.exec < MaxExec
        /\ pc \notin {"idle", "done"}
    BY <1>23 DEF Tick, Due
  <2>3. /\ alive' \in {alive, alive + 1}
        /\ UNCHANGED <<pc, status, child, forked, stdin, line, open, trailing, err, left, drain>>
    BY <1>23 DEF Tick, childvars
  <2>4. TypeOK'
    BY <2>1, <2>2, <2>3
  <2>5. ClockInv'
    BY <2>1, <2>2, <2>3
  <2>6. StatusInv' /\ ChildInv' /\ PipeInv' /\ DrainInv'
    BY <2>1, <2>3
  <2> QED
    BY <2>4, <2>5, <2>6
<1> QED
  BY <1>1, <1>2, <1>3, <1>4, <1>5, <1>6, <1>7, <1>8, <1>9, <1>10, <1>11, <1>12, <1>13, <1>14,
     <1>15, <1>16, <1>17, <1>18, <1>19, <1>20, <1>21, <1>22, <1>23 DEF Next, Host, Child

\* HostInv holds throughout every run.
THEOREM HostInvariant == Spec => []HostInv
<1>1. Init => HostInv
  <2> SUFFICES ASSUME Init PROVE HostInv
    OBVIOUS
  <2>1. TypeOK
    <3>1. forked \in BOOLEAN /\ sandboxed \in BOOLEAN /\ open \subseteq {"stdin", "stdout"}
      BY DEF Init
    <3>2. /\ stdin \in 0..PipeCap /\ left \in 0..MaxFrame /\ alive \in Nat
          /\ err \in [wrote : 0..MaxErr, read : 0..MaxErr]
          /\ clock \in [now : Nat, started : Nat, deadline : Nat, exec : 0..MaxExec]
      BY HostAssumption DEF Init
    <3> QED
      BY <3>1, <3>2 DEF Init, TypeOK, AgentSessionStatus
  <2>2. ChildInv
    BY DEF Init, ChildInv
  <2>3. PipeInv /\ DrainInv /\ ClockInv
    BY HostAssumption DEF Init, PipeInv, DrainInv, ClockInv
  <2>4. StatusInv
    BY DEF Init, StatusInv, CompletedIsClean
  <2> QED
    BY <2>1, <2>2, <2>3, <2>4 DEF HostInv
<1>2. HostInv /\ [Next /\ UNCHANGED sandboxed]_<<vars, sandboxed>> => HostInv'
  <2> SUFFICES ASSUME HostInv, [Next /\ UNCHANGED sandboxed]_<<vars, sandboxed>>
               PROVE  HostInv'
    OBVIOUS
  <2>1. CASE Next /\ UNCHANGED sandboxed
    BY <2>1, HostStep
  <2>2. CASE UNCHANGED <<vars, sandboxed>>
    BY <2>2 DEF vars, HostInv, TypeOK, ChildInv, PipeInv, DrainInv, ClockInv, StatusInv,
                CompletedIsClean
  <2> QED
    BY <2>1, <2>2
<1> QED
  BY <1>1, <1>2, PTL DEF Spec

\* Every variable of a run keeps its type: the pipes stay within their size, the
\* status is one of the five the session table knows.
THEOREM TypeCorrect == Spec => []TypeOK
<1>1. HostInv => TypeOK
  BY DEF HostInv
<1> QED
  BY <1>1, HostInvariant, PTL

\* However a run ends its child is reaped, Completed is recorded only for a clean
\* exchange and TimedOut only when the timeout has passed (agent.rs:172-369).
THEOREM OutcomesAreTrue == Spec => []OutcomeIsTrue
<1>1. HostInv => OutcomeIsTrue
  BY DEF HostInv, TypeOK, ChildInv, ClockInv, StatusInv, OutcomeIsTrue, ChildIsReaped,
         TimeoutIsNotEarly
<1> QED
  BY <1>1, HostInvariant, PTL

\* The child lives for two timeouts at most, besides the broker's own work.
THEOREM WallClockIsBounded == Spec => []WallIsBounded
<1>1. HostInv => WallIsBounded
  BY HostAssumption DEF HostInv, TypeOK, ClockInv, WallIsBounded
<1> QED
  BY <1>1, HostInvariant, PTL
=============================================================================
