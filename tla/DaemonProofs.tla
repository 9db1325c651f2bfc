---------------------------- MODULE DaemonProofs ----------------------------
(***************************************************************************)
(* What holds of any number of daemon processes, clients, applications and  *)
(* migrations that share one database and one socket path.                  *)
(***************************************************************************)
EXTENDS Daemon, FiniteSetTheorems, TLAPS

Loaded == {"session", "prepared", "bound", "ready", "stopping"}
Working == {"ready", "stopping"}

-----------------------------------------------------------------------------
(* Processes that start and stop.                                            *)

\* Two processes alive together have met.
MetInv ==
    \A d, e \in Daemons :
        d # e /\ pc[d] \in Live /\ pc[e] \in Live => d \in met /\ e \in met

\* Migrations are applied in order, each daemon having seen those it passed.
SchemaInv ==
    /\ \A m \in 1..Migrations : applied[m] \in {0, 1}
    /\ \A m \in 2..Migrations : applied[m] = 1 => applied[m - 1] = 1
    /\ \A d \in Daemons :
          /\ \A m \in 1..Migrations : m < version[d] => applied[m] = 1
          /\ pc[d] = "applying" => version[d] <= Migrations
          /\ pc[d] \in {"loading"} \cup Loaded => version[d] = Migrations + 1
          /\ session[d] # "none" => applied[Migrations] = 1

\* Nobody takes the session, the path or its mode from a daemon that is alone.
SocketInv ==
    \A d \in Daemons : Lone(d) /\ pc[d] \in Loaded =>
        /\ session[d] = "open"
        /\ pc[d] \in Listening => socket = d
        /\ pc[d] \in Working => private

-----------------------------------------------------------------------------
(* Registrations.                                                            *)

\* An executable is registered once.
TableInv ==
    \A a, b \in Apps : table[a] # None /\ table[b] # None /\ a # b => table[a].path # table[b].path

\* RegistryAgrees from the moment the registry is filled.
RegistryInv ==
    \A d \in Daemons, a \in Apps : Lone(d) /\ pc[d] \in Loaded =>
        \/ registry[d][a] = table[a]
        \/ registry[d][a] = None /\ Cardinality(Paths) > Limit

-----------------------------------------------------------------------------
(* Requests.                                                                 *)

\* Only a serving daemon has waiters; each is a call that reached it, was not
\* answered yet, and waits once.
QueueInv ==
    \A d \in Daemons :
        /\ pc[d] \notin Working => queue[d] = <<>>
        /\ queue[d] = <<>> => work[d] = "idle"
        /\ \A i \in 1..Len(queue[d]) : queue[d][i] \in Requests =>
              /\ conn[queue[d][i]] = d /\ queue[d][i] \in handled
              /\ client[queue[d][i]] \in {"waiting", "timedout"}
              /\ \A j \in 1..Len(queue[d]) : queue[d][j] = queue[d][i] => j = i

\* Nothing was done for a call yet.
Untouched(r) == launched[r] = None /\ carried[r] = 0 /\ r \notin recorded

\* How far a call has come, as its client and as its daemon see it.
CallInv ==
    \A r \in Requests :
        /\ conn[r] # None => /\ cmd[r] \in Commands /\ pc[conn[r]] # "off"
                             /\ client[r] \in {"waiting", "ok", "error", "failed", "timedout"}
        /\ client[r] = "validated" => cmd[r] \in Commands
        /\ client[r] \in {"waiting", "ok", "error", "timedout"} => conn[r] # None
        /\ client[r] = "failed" /\ conn[r] # None => pc[conn[r]] \notin Live
        /\ r \in handled => conn[r] # None
        /\ r \notin handled => Untouched(r) /\ client[r] \notin {"ok", "error"}

\* The request that holds the mutex: what its handler has done so far.
Head1(d) == queue[d][1]
AtWork(d, r) ==
    /\ carried[r] \in {0, 1}
    /\ work[d] \in {"idle", "verified", "refused"} => Untouched(r)
    /\ work[d] \in {"verified", "launched", "refused"} => cmd[r].op = "open"
    /\ launched[r] # None => cmd[r].op = "open"
    /\ work[d] = "launched" => launched[r] # None /\ carried[r] = 1 /\ r \notin recorded
    /\ work[d] = "ok" => carried[r] = 1
    /\ work[d] = "ok" /\ cmd[r].op = "open" => launched[r] # None /\ r \in recorded
    /\ work[d] = "error" /\ carried[r] = 1 => cmd[r].op = "open" /\ r \notin recorded
WorkInv ==
    \A d \in Daemons : queue[d] # <<>> /\ Head1(d) \in Requests => AtWork(d, Head1(d))

\* The requests behind it have not been touched.
BehindInv ==
    \A d \in Daemons : \A i \in 2..Len(queue[d]) :
        queue[d][i] \in Requests => Untouched(queue[d][i])

\* Between the check of an executable and its start the registration stays and
\* only a replaced file differs.
Verified(d, r) ==
    work[d] = "verified" =>
        LET row == registry[d][cmd[r].app] IN
        /\ row # None
        /\ disk[row.path] = basis[r].file \/ swaps > 0
        /\ Lone(d) => /\ basis[r].row # None /\ basis[r].row.enabled
                      /\ basis[r].row.version = basis[r].file
VerifiedInv ==
    \A d \in Daemons : queue[d] # <<>> /\ Head1(d) \in Requests => Verified(d, Head1(d))

DaemonInv ==
    /\ TypeOK
    /\ MetInv /\ SchemaInv /\ SocketInv /\ OneOpenSession
    /\ TableInv /\ RegistryInv
    /\ QueueInv /\ CallInv /\ WorkInv /\ BehindInv /\ VerifiedInv
    /\ LaunchedIsRegistered /\ LaunchIsRecorded
    /\ RunsAtMostOnce /\ RepliesAreTrue /\ RowsAreExplained

-----------------------------------------------------------------------------
(* Facts used throughout.                                                    *)

\* A request being served reached this daemon, which is serving.
LEMMA Holder ==
    ASSUME TypeOK, QueueInv, CallInv, NEW d \in Daemons, NEW r \in Requests,
           queue[d] # <<>>, Head(queue[d]) = r
    PROVE  /\ Head1(d) = r /\ Len(queue[d]) >= 1
           /\ pc[d] \in Working /\ pc[d] \in Live /\ pc[d] \in Loaded
           /\ conn[r] = d /\ r \in handled /\ client[r] \in {"waiting", "timedout"}
           /\ cmd[r] \in Commands /\ cmd[r].app \in Apps
<1>1. queue[d] \in Seq(Requests \cup {"stop"})
  BY DEF TypeOK
<1>2. Len(queue[d]) \in Nat /\ Len(queue[d]) >= 1 /\ Head1(d) = r
  BY <1>1 DEF Head1
<1>3. pc[d] \in Working
  BY DEF QueueInv
<1>4. conn[r] = d /\ r \in handled /\ client[r] \in {"waiting", "timedout"}
  BY <1>2 DEF QueueInv, Head1
<1>5. cmd[r] \in Commands
  BY <1>4, DaemonAssumption DEF CallInv
<1> QED
  BY <1>2, <1>3, <1>4, <1>5 DEF Working, Live, Loaded, Commands

\* Nobody else is alive beside a daemon that is alone.
LEMMA Alone ==
    ASSUME MetInv, NEW d \in Daemons, NEW e \in Daemons,
           Lone(d), pc[d] \in Live, pc[e] \in Live
    PROVE  e = d
  BY DEF MetInv, Lone

\* What the steps of processes do to pc and met: a start, or a process that is
\* alive moves on, perhaps to its end, and is never off again.
Moves(d) ==
    /\ pc[d] \in Live /\ UNCHANGED met
    /\ \E x \in Live \cup {"exited", "failed", "dead"} : pc' = [pc EXCEPT ![d] = x]

LEMMA ProcessSteps ==
    ASSUME TypeOK, QueueInv, CallInv, Next
    PROVE  \/ UNCHANGED <<pc, met>>
           \/ \E d \in Daemons : open(d)
           \/ \E d \in Daemons : Moves(d)
<1>1. ASSUME NEW d \in Daemons, Startup(d) \/ Crash(d) \/ shutdown(d)
                                   \/ finish_daemon_session(d) \/ run_fails(d)
      PROVE  UNCHANGED <<pc, met>> \/ open(d) \/ Moves(d)
  BY <1>1 DEF Startup, Crash, shutdown, finish_daemon_session, run_fails, migration_applied,
              apply_migration, begin_daemon_session, prepare_server, bind, secure_bound_socket,
              startup_fails, Go, Moves, Live, Starting, TypeOK
<1>2. ASSUME NEW d \in Daemons, NEW r \in Requests, accept(d, r) \/ Serve(d, r)
      PROVE  UNCHANGED <<pc, met>>
  BY <1>2 DEF accept, Serve, upsert_registered_application, remove_registered_application,
              verify_executable, spawn, record_execution, reply
<1>3. ASSUME NEW r \in Requests, Call(r)
      PROVE  UNCHANGED <<pc, met>>
  BY <1>3 DEF Call, validate_client, connect, client_times_out, client_disconnected, procs
<1>4. ASSUME NEW p \in Paths, NEW v \in Versions \cup {Untrusted}, Replace(p, v)
      PROVE  UNCHANGED <<pc, met>>
  BY <1>4 DEF Replace, procs
<1> QED
  BY <1>1, <1>2, <1>3, <1>4 DEF Next

LEMMA MetStep ==
    ASSUME TypeOK, QueueInv, CallInv, MetInv, Next
    PROVE  MetInv'
<1>1. CASE UNCHANGED <<pc, met>>
  BY <1>1 DEF MetInv
<1>2. ASSUME NEW d \in Daemons, open(d)
      PROVE  MetInv'
  BY <1>2 DEF open, Go, MetInv, TypeOK
<1>3. ASSUME NEW d \in Daemons, Moves(d)
      PROVE  MetInv'
  BY <1>3 DEF Moves, MetInv, TypeOK
<1> QED
  BY <1>1, <1>2, <1>3, ProcessSteps

\* The steps of a process as such.
Process(d) == Startup(d) \/ Crash(d) \/ shutdown(d) \/ finish_daemon_session(d) \/ run_fails(d)

\* Requests and files do not touch processes, schema, sessions or the socket.
LEMMA OthersSteps ==
    ASSUME Next
    PROVE  \/ \E d \in Daemons : Process(d)
           \/ UNCHANGED <<pc, version, applied, session, socket, private, met>>
<1>1. ASSUME NEW d \in Daemons, NEW r \in Requests, accept(d, r) \/ Serve(d, r)
      PROVE  UNCHANGED <<pc, version, applied, session, socket, private, met>>
  BY <1>1 DEF accept, Serve, upsert_registered_application, remove_registered_application,
              verify_executable, spawn, record_execution, reply, store, files
<1>2. ASSUME NEW r \in Requests, Call(r)
      PROVE  UNCHANGED <<pc, version, applied, session, socket, private, met>>
  BY <1>2 DEF Call, validate_client, connect, client_times_out, client_disconnected,
              procs, store, files
<1>3. ASSUME NEW p \in Paths, NEW v \in Versions \cup {Untrusted}, Replace(p, v)
      PROVE  UNCHANGED <<pc, version, applied, session, socket, private, met>>
  BY <1>3 DEF Replace, procs, store
<1> QED
  BY <1>1, <1>2, <1>3 DEF Next, Process

\* No other process takes a step of its own beside a daemon that stays alone.
LEMMA Undisturbed ==
    ASSUME TypeOK, MetInv, NEW d \in Daemons, NEW e \in Daemons, Process(d),
           Lone(e), Lone(e)', pc'[e] \in Loaded
    PROVE  d = e
<1> SUFFICES ASSUME d # e PROVE FALSE
  OBVIOUS
<1> USE DEF TypeOK, Go
<1>1. pc[e] = pc'[e] /\ pc[e] \in Live
  BY DEF Process, Startup, Crash, shutdown, finish_daemon_session, run_fails, open,
         migration_applied, apply_migration, begin_daemon_session, prepare_server, bind,
         secure_bound_socket, startup_fails, Live, Starting, Loaded
<1>2. CASE open(d)
  BY <1>1, <1>2 DEF open, Lone
<1>3. CASE ~open(d)
  <2>1. pc[d] \in Live
    BY <1>3 DEF Process, Startup, Crash, shutdown, finish_daemon_session, run_fails,
                migration_applied, apply_migration, begin_daemon_session, prepare_server, bind,
                secure_bound_socket, startup_fails, Live, Starting
  <2> QED
    BY <1>1, <2>1, Alone
<1> QED
  BY <1>2, <1>3

LEMMA SchemaStep ==
    ASSUME TypeOK, SchemaInv, Next
    PROVE  SchemaInv'
<1> USE DaemonAssumption DEF SchemaInv, TypeOK, Loaded, Go
<1>1. ASSUME NEW d \in Daemons, open(d)
      PROVE  SchemaInv'
  BY <1>1 DEF open, store
<1>2. ASSUME NEW d \in Daemons, migration_applied(d)
      PROVE  SchemaInv'
  BY <1>2 DEF migration_applied, store
<1>3. ASSUME NEW d \in Daemons, apply_migration(d)
      PROVE  SchemaInv'
  <2> DEFINE v == version[d]
  <2>1. /\ v \in 1..Migrations /\ applied[v] = 0
        /\ applied' = [applied EXCEPT ![v] = 1]
        /\ version' = [version EXCEPT ![d] = v + 1]
        /\ pc' = [pc EXCEPT ![d] = "migrating"] /\ UNCHANGED session
    BY <1>3 DEF apply_migration
  <2>2. \A m \in 1..Migrations : applied'[m] \in {0, 1} /\ (applied[m] = 1 => applied'[m] = 1)
    BY <2>1
  <2>3. \A m \in 2..Migrations : applied'[m] = 1 => applied'[m - 1] = 1
    <3> SUFFICES ASSUME NEW m \in 2..Migrations, applied'[m] = 1
                 PROVE  applied'[m - 1] = 1
      OBVIOUS
    <3>1. m - 1 \in 1..Migrations
      OBVIOUS
    <3>2. CASE m = v
      BY <2>1, <2>2, <3>1, <3>2
    <3>3. CASE m # v
      BY <2>1, <2>2, <3>1, <3>3
    <3> QED
      BY <3>2, <3>3
  <2>4. \A e \in Daemons : \A m \in 1..Migrations : m < version'[e] => applied'[m] = 1
    BY <2>1, <2>2
  <2>5. \A e \in Daemons : /\ pc'[e] = "applying" => version'[e] <= Migrations
                           /\ pc'[e] \in {"loading"} \cup Loaded => version'[e] = Migrations + 1
                           /\ session'[e] # "none" => applied'[Migrations] = 1
    <3>1. Migrations \in 1..Migrations
      OBVIOUS
    <3>2. \A e \in Daemons : session'[e] # "none" => applied'[Migrations] = 1
      BY <2>1, <2>2, <3>1
    <3>3. \A e \in Daemons : pc'[e] = IF e = d THEN "migrating" ELSE pc[e]
      BY <2>1
    <3>4. \A e \in Daemons \ {d} : version'[e] = version[e]
      BY <2>1
    <3> QED
      BY <3>2, <3>3, <3>4
  <2> HIDE DEF v
  <2>6. \A m \in 1..Migrations : applied'[m] \in {0, 1}
    BY <2>2
  <2> QED
    BY <2>3, <2>4, <2>5, <2>6
<1>4. ASSUME NEW d \in Daemons, begin_daemon_session(d)
      PROVE  SchemaInv'
  <2>1. /\ version[d] = Migrations + 1 /\ Migrations \in 1..Migrations
        /\ pc' = [pc EXCEPT ![d] = "session"] /\ UNCHANGED <<version, applied>>
    BY <1>4 DEF begin_daemon_session
  <2>2. applied[Migrations] = 1
    BY <2>1
  <2> QED
    BY <2>1, <2>2
<1>5. ASSUME NEW d \in Daemons, prepare_server(d) \/ bind(d) \/ secure_bound_socket(d) \/ shutdown(d)
      PROVE  SchemaInv'
  <2>1. /\ pc[d] \in Loaded /\ pc'[d] \in Loaded
        /\ \A e \in Daemons \ {d} : pc'[e] = pc[e]
        /\ UNCHANGED <<version, applied, session>>
    BY <1>5 DEF prepare_server, bind, secure_bound_socket, shutdown, store
  <2>2. ASSUME NEW e \in Daemons
        PROVE  /\ pc'[e] = "applying" => version'[e] <= Migrations
               /\ pc'[e] \in {"loading"} \cup Loaded => version'[e] = Migrations + 1
    <3>1. CASE e = d
      BY <2>1, <3>1
    <3>2. CASE e # d
      BY <2>1, <3>2
    <3> QED
      BY <3>1, <3>2
  <2> QED
    BY <2>1, <2>2
<1>6. ASSUME NEW d \in Daemons, startup_fails(d) \/ Crash(d) \/ run_fails(d)
      PROVE  SchemaInv'
  <2>1. /\ pc'[d] \in {"failed", "dead"} /\ version'[d] = 1
        /\ \A e \in Daemons \ {d} : pc'[e] = pc[e] /\ version'[e] = version[e]
        /\ UNCHANGED <<applied, session>>
    <3>1. version' = [version EXCEPT ![d] = 1] /\ UNCHANGED <<applied, session>>
      BY <1>6 DEF startup_fails, Crash, run_fails, Forget, store
    <3>2. pc' = [pc EXCEPT ![d] = "failed"] \/ pc' = [pc EXCEPT ![d] = "dead"]
      BY <1>6 DEF startup_fails, Crash, run_fails
    <3> QED
      BY <3>1, <3>2
  <2>2. ASSUME NEW e \in Daemons, NEW m \in 1..Migrations, m < version'[e] PROVE applied'[m] = 1
    <3>1. e # d
      BY <2>1, <2>2
    <3>2. version'[e] = version[e] /\ applied' = applied
      BY <2>1, <3>1
    <3> QED
      BY <2>2, <3>2
  <2>3. ASSUME NEW e \in Daemons
        PROVE  /\ pc'[e] = "applying" => version'[e] <= Migrations
               /\ pc'[e] \in {"loading"} \cup Loaded => version'[e] = Migrations + 1
               /\ session'[e] # "none" => applied'[Migrations] = 1
    <3>1. CASE e = d
      BY <2>1, <3>1
    <3>2. CASE e # d
      BY <2>1, <3>2
    <3> QED
      BY <3>1, <3>2
  <2>4. /\ \A m \in 1..Migrations : applied'[m] \in {0, 1}
        /\ \A m \in 2..Migrations : applied'[m] = 1 => applied'[m - 1] = 1
    BY <2>1
  <2> QED
    BY <2>2, <2>3, <2>4
<1>7. ASSUME NEW d \in Daemons, finish_daemon_session(d)
      PROVE  SchemaInv'
  BY <1>7 DEF finish_daemon_session, Forget
<1>8. CASE UNCHANGED <<pc, version, applied, session, socket, private, met>>
  BY <1>8
<1> QED
  BY <1>1, <1>2, <1>3, <1>4, <1>5, <1>6, <1>7, <1>8, OthersSteps DEF Process, Startup

LEMMA SessionStep ==
    ASSUME TypeOK, OneOpenSession, Next
    PROVE  OneOpenSession'
<1> USE DEF OneOpenSession, TypeOK
<1>1. ASSUME NEW d \in Daemons, begin_daemon_session(d)
      PROVE  OneOpenSession'
  BY <1>1 DEF begin_daemon_session
<1>2. ASSUME NEW d \in Daemons, finish_daemon_session(d)
      PROVE  OneOpenSession'
  BY <1>2 DEF finish_daemon_session
<1>3. ASSUME NEW d \in Daemons,
             \/ open(d) \/ migration_applied(d) \/ apply_migration(d) \/ prepare_server(d)
             \/ bind(d) \/ secure_bound_socket(d) \/ startup_fails(d) \/ Crash(d) \/ shutdown(d)
             \/ run_fails(d)
      PROVE  UNCHANGED session
  BY <1>3 DEF open, migration_applied, apply_migration, prepare_server, bind, secure_bound_socket,
              startup_fails, Crash, shutdown, run_fails, store
<1> QED
  BY <1>1, <1>2, <1>3, OthersSteps DEF Process, Startup

\* A step of any process leaves what a lone daemon holds alone: it is its own.
LEMMA SocketStep ==
    ASSUME TypeOK, QueueInv, CallInv, MetInv, SocketInv, Next
    PROVE  SocketInv'
<1> SUFFICES ASSUME NEW e \in Daemons, Lone(e)', pc'[e] \in Loaded
             PROVE  /\ session'[e] = "open"
                    /\ pc'[e] \in Listening => socket' = e
                    /\ pc'[e] \in Working => private'
  BY DEF SocketInv
<1>0. Lone(e)
  BY ProcessSteps DEF Lone, open, Moves
<1> USE DEF SocketInv, TypeOK, Loaded, Listening, Working, Go
<1>1. ASSUME NEW d \in Daemons, Process(d)
      PROVE  d = e
  BY <1>0, <1>1, Undisturbed
<1>2. ASSUME open(e) \/ migration_applied(e) \/ apply_migration(e) \/ startup_fails(e) \/ Crash(e)
               \/ finish_daemon_session(e) \/ run_fails(e)
      PROVE  FALSE
  BY <1>2 DEF open, migration_applied, apply_migration, startup_fails, Crash,
              finish_daemon_session, run_fails
<1>3. CASE begin_daemon_session(e)
  BY <1>3 DEF begin_daemon_session
<1>4. CASE prepare_server(e) \/ bind(e) \/ secure_bound_socket(e) \/ shutdown(e)
  BY <1>0, <1>4 DEF prepare_server, bind, secure_bound_socket, shutdown, store, files
<1>5. CASE UNCHANGED <<pc, version, applied, session, socket, private, met>>
  BY <1>0, <1>5
<1> QED
  BY <1>1, <1>2, <1>3, <1>4, <1>5, OthersSteps DEF Process, Startup

-----------------------------------------------------------------------------
(* Registrations.                                                            *)

\* What begin_daemon_session loads is the table, unless the limit cut it.
LEMMA Loading ==
    ASSUME TypeOK, TableInv, NEW some \in list_registered_applications, NEW a \in Apps
    PROVE  LET row == IF a \in some THEN table[a] ELSE None
           IN  row = table[a] \/ (row = None /\ Cardinality(Paths) > Limit)
<1> DEFINE present == {b \in Apps : table[b] # None}
           place == [b \in present |-> table[b].path]
<1>1. IsFiniteSet(present) /\ Cardinality(present) \in Nat
  BY DaemonAssumption, FS_Subset, FS_CardinalityType
<1>2. some \subseteq present
  BY DEF list_registered_applications
<1>3. CASE Cardinality(present) <= Limit
  <2>1. Cardinality(some) = Cardinality(present)
    BY <1>3 DEF list_registered_applications
  <2>2. some = present
    BY <1>1, <1>2, <2>1, FS_Subset
  <2> QED
    BY <2>2
<1>4. CASE ~(Cardinality(present) <= Limit)
  <2>1. \A b \in present : table[b] \in Rows /\ table[b].path \in Paths
    BY DEF TypeOK, Rows
  <2>2. place \in Injection(present, Paths)
    BY <2>1 DEF TableInv, Injection, IsInjective
  <2>3. Cardinality(present) <= Cardinality(Paths) /\ Cardinality(Paths) \in Nat
    BY <2>2, DaemonAssumption, FS_Injection, FS_CardinalityType
  <2>4. Cardinality(Paths) > Limit
    BY <1>1, <1>4, <2>3, DaemonAssumption
  <2> QED
    BY <2>4
<1> QED
  BY <1>3, <1>4

\* Only two requests change the table, and with it the registry.
Registers(d, r) == upsert_registered_application(d, r) \/ remove_registered_application(d, r)

LEMMA RegistrationSteps ==
    ASSUME Next
    PROVE  \/ \E d \in Daemons : Process(d) /\ UNCHANGED table
           \/ \E d \in Daemons, r \in Requests : Registers(d, r)
           \/ UNCHANGED <<pc, registry, table, met>>
<1>1. ASSUME NEW d \in Daemons, Process(d)
      PROVE  UNCHANGED table
  BY <1>1 DEF Process, Startup, Crash, shutdown, finish_daemon_session, run_fails, open,
              migration_applied, apply_migration, begin_daemon_session, prepare_server, bind,
              secure_bound_socket, startup_fails, store
<1>2. ASSUME NEW d \in Daemons, NEW r \in Requests,
             accept(d, r) \/ verify_executable(d, r) \/ spawn(d, r) \/ record_execution(d, r)
               \/ reply(d, r)
      PROVE  UNCHANGED <<pc, registry, table, met>>
  BY <1>2 DEF accept, verify_executable, spawn, record_execution, reply, store
<1>3. ASSUME NEW r \in Requests, Call(r)
      PROVE  UNCHANGED <<pc, registry, table, met>>
  BY <1>3 DEF Call, validate_client, connect, client_times_out, client_disconnected, procs, store
<1>4. ASSUME NEW p \in Paths, NEW v \in Versions \cup {Untrusted}, Replace(p, v)
      PROVE  UNCHANGED <<pc, registry, table, met>>
  BY <1>4 DEF Replace, procs, store
<1> QED
  BY <1>1, <1>2, <1>3, <1>4 DEF Next, Process, Serve, Registers

\* The row an upsert writes, when it does, is one the table may hold.
LEMMA Upserted ==
    ASSUME TypeOK, QueueInv, CallInv, NEW d \in Daemons, NEW r \in Requests,
           upsert_registered_application(d, r)
    PROVE  \/ UNCHANGED <<table, registry>>
           \/ \E row \in Rows :
                 /\ ~Taken(cmd[r].app, row.path) /\ cmd[r].app \in Apps
                 /\ table' = [table EXCEPT ![cmd[r].app] = row]
                 /\ registry' = [registry EXCEPT ![d][cmd[r].app] = row]
<1>1. /\ cmd[r] \in Commands /\ cmd[r].app \in Apps /\ cmd[r].op = "upsert"
  BY Holder DEF upsert_registered_application, Serving
<1>2. cmd[r].path \in Paths /\ cmd[r].enabled \in BOOLEAN
  BY <1>1 DEF Commands
<1> DEFINE row == [path |-> cmd[r].path, version |-> inspect_executable(cmd[r].path),
                   enabled |-> cmd[r].enabled]
<1>3. row.version = None \/ row \in Rows
  BY <1>2 DEF inspect_executable, trusted, TypeOK, Rows
<1> QED
  BY <1>1, <1>3 DEF upsert_registered_application, Rejects

\* A removal, when it is not refused, leaves no row.
LEMMA Removed ==
    ASSUME TypeOK, QueueInv, CallInv, NEW d \in Daemons, NEW r \in Requests,
           remove_registered_application(d, r)
    PROVE  /\ cmd[r].app \in Apps
           /\ \/ UNCHANGED <<table, registry>>
              \/ /\ table' = [table EXCEPT ![cmd[r].app] = None]
                 /\ registry' = IF table[cmd[r].app] # None
                                THEN [registry EXCEPT ![d][cmd[r].app] = None] ELSE registry
<1>1. cmd[r].app \in Apps
  BY Holder DEF remove_registered_application, Serving
<1>2. \/ UNCHANGED <<table, registry>>
      \/ /\ table' = [table EXCEPT ![cmd[r].app] = None]
         /\ registry' = IF table[cmd[r].app] # None
                        THEN [registry EXCEPT ![d][cmd[r].app] = None] ELSE registry
  BY DEF remove_registered_application, Rejects
<1> QED
  BY <1>1, <1>2

LEMMA TableStep ==
    ASSUME TypeOK, QueueInv, CallInv, TableInv, Next
    PROVE  TableInv'
<1>1. ASSUME NEW d \in Daemons, NEW r \in Requests, upsert_registered_application(d, r)
      PROVE  TableInv'
  <2>1. CASE UNCHANGED table
    BY <2>1 DEF TableInv
  <2>2. ASSUME NEW row \in Rows, ~Taken(cmd[r].app, row.path), cmd[r].app \in Apps,
               table' = [table EXCEPT ![cmd[r].app] = row]
        PROVE  TableInv'
    BY <2>2 DEF TableInv, Taken, TypeOK
  <2> QED
    BY <1>1, <2>1, <2>2, Upserted
<1>2. ASSUME NEW d \in Daemons, NEW r \in Requests, remove_registered_application(d, r)
      PROVE  TableInv'
  <2>1. \A a \in Apps : table'[a] = table[a] \/ table'[a] = None
    BY <1>2, Removed DEF TypeOK
  <2> QED
    BY <2>1 DEF TableInv
<1> QED
  BY <1>1, <1>2, RegistrationSteps DEF Registers, TableInv

LEMMA RegistryStep ==
    ASSUME TypeOK, QueueInv, CallInv, MetInv, TableInv, RegistryInv, Next
    PROVE  RegistryInv'
<1> SUFFICES ASSUME NEW e \in Daemons, NEW a \in Apps, Lone(e)', pc'[e] \in Loaded
             PROVE  \/ registry'[e][a] = table'[a]
                    \/ registry'[e][a] = None /\ Cardinality(Paths) > Limit
  BY DEF RegistryInv
<1>0. Lone(e)
  BY ProcessSteps DEF Lone, open, Moves
<1>1. CASE UNCHANGED <<pc, registry, table, met>>
  BY <1>0, <1>1 DEF RegistryInv
<1>2. ASSUME NEW d \in Daemons, Process(d), UNCHANGED table
      PROVE  \/ registry'[e][a] = table'[a]
             \/ registry'[e][a] = None /\ Cardinality(Paths) > Limit
  <2>1. d = e
    BY <1>0, <1>2, Undisturbed
  <2>2. CASE begin_daemon_session(e)
    <3>1. PICK some \in list_registered_applications :
             registry' = [registry EXCEPT ![e] = [b \in Apps |-> IF b \in some THEN table[b] ELSE None]]
      BY <2>2 DEF begin_daemon_session
    <3>2. registry'[e][a] = IF a \in some THEN table[a] ELSE None
      BY <3>1 DEF TypeOK
    <3> QED
      BY <1>2, <3>2, Loading
  <2>3. CASE prepare_server(e) \/ bind(e) \/ secure_bound_socket(e) \/ shutdown(e)
    BY <1>0, <1>2, <2>3 DEF prepare_server, bind, secure_bound_socket, shutdown, Go, RegistryInv,
                            Loaded
  <2>4. CASE open(e) \/ migration_applied(e) \/ apply_migration(e) \/ startup_fails(e) \/ Crash(e)
               \/ finish_daemon_session(e) \/ run_fails(e)
    BY <2>4 DEF open, migration_applied, apply_migration, startup_fails, Crash,
                finish_daemon_session, run_fails, Go, TypeOK, Loaded
  <2> QED
    BY <1>2, <2>1, <2>2, <2>3, <2>4 DEF Process, Startup
<1>3. ASSUME NEW d \in Daemons, NEW r \in Requests, Registers(d, r)
      PROVE  \/ registry'[e][a] = table'[a]
             \/ registry'[e][a] = None /\ Cardinality(Paths) > Limit
  <2>1. pc' = pc /\ pc[d] \in Live /\ pc[e] \in Live
    BY <1>3, Holder DEF Registers, upsert_registered_application, remove_registered_application,
                        Serving, Loaded, Live, Starting
  <2>2. d = e
    BY <1>0, <2>1, Alone
  <2>3. CASE upsert_registered_application(d, r)
    <3>1. CASE UNCHANGED <<table, registry>>
      BY <1>0, <2>1, <3>1 DEF RegistryInv
    <3>2. ASSUME NEW row \in Rows, cmd[r].app \in Apps,
                 table' = [table EXCEPT ![cmd[r].app] = row],
                 registry' = [registry EXCEPT ![d][cmd[r].app] = row]
          PROVE  \/ registry'[e][a] = table'[a]
                 \/ registry'[e][a] = None /\ Cardinality(Paths) > Limit
      BY <1>0, <2>1, <2>2, <3>2 DEF RegistryInv, TypeOK
    <3> QED
      BY <2>3, <3>1, <3>2, Upserted
  <2>4. CASE remove_registered_application(d, r)
    <3>1. CASE UNCHANGED <<table, registry>>
      BY <1>0, <2>1, <3>1 DEF RegistryInv
    <3>2. CASE /\ table' = [table EXCEPT ![cmd[r].app] = None]
               /\ registry' = IF table[cmd[r].app] # None
                              THEN [registry EXCEPT ![d][cmd[r].app] = None] ELSE registry
      BY <1>0, <2>1, <2>2, <2>4, <3>2, Removed DEF RegistryInv, TypeOK
    <3> QED
      BY <2>4, <3>1, <3>2, Removed
  <2> QED
    BY <1>3, <2>3, <2>4 DEF Registers
<1> QED
  BY <1>1, <1>2, <1>3, RegistrationSteps

-----------------------------------------------------------------------------
(* Requests.                                                                 *)

RequestInv ==
    /\ QueueInv /\ CallInv /\ WorkInv /\ BehindInv /\ VerifiedInv
    /\ LaunchedIsRegistered /\ LaunchIsRecorded /\ RunsAtMostOnce /\ RepliesAreTrue

\* What a process that is starting, or ends, does to the requests.
Starts(d) ==
    /\ pc[d] \in {"off"} \cup Starting
    /\ pc' = pc \/ \E x \in Starting \cup {"ready"} : pc' = [pc EXCEPT ![d] = x]
    /\ met \subseteq met' /\ \A e \in Daemons \ {d} : registry'[e] = registry[e]
    /\ UNCHANGED <<queue, work, disk, swaps, client, cmd, conn,
                   handled, launched, recorded, basis, carried>>

Ends(d) ==
    /\ pc[d] \in Live
    /\ \E x \in {"exited", "failed", "dead"} : pc' = [pc EXCEPT ![d] = x]
    /\ queue' = [queue EXCEPT ![d] = <<>>] /\ work' = [work EXCEPT ![d] = "idle"]
    /\ \A e \in Daemons \ {d} : registry'[e] = registry[e]
    /\ UNCHANGED <<met, disk, swaps, client, cmd, conn,
                   handled, launched, recorded, basis, carried>>

LEMMA ProcessKinds ==
    ASSUME TypeOK, NEW d \in Daemons, Process(d)
    PROVE  Starts(d) \/ Ends(d) \/ shutdown(d)
<1> USE DEF calls, effects, files, store, TypeOK, Go
<1>1. CASE open(d)
  BY <1>1 DEF open, Starts, Starting
<1>2. CASE migration_applied(d) \/ apply_migration(d)
  BY <1>2 DEF migration_applied, apply_migration, Starts, Starting
<1>3. CASE begin_daemon_session(d)
  BY <1>3 DEF begin_daemon_session, Starts, Starting
<1>4. CASE prepare_server(d) \/ bind(d) \/ secure_bound_socket(d)
  BY <1>4 DEF prepare_server, bind, secure_bound_socket, Starts, Starting
<1>5. CASE startup_fails(d) \/ Crash(d)
  BY <1>5 DEF startup_fails, Crash, Forget, Ends, Live
<1>6. CASE finish_daemon_session(d) \/ run_fails(d)
  BY <1>6 DEF finish_daemon_session, run_fails, Forget, Ends, Live
<1> QED
  BY <1>1, <1>2, <1>3, <1>4, <1>5, <1>6 DEF Process, Startup

\* A start concerns no request: none waits for it, and none that reached a
\* daemon reached one that had not started.
LEMMA StartsKeep ==
    ASSUME TypeOK, RequestInv, NEW d \in Daemons, Starts(d)
    PROVE  RequestInv'
<1> USE DEF RequestInv
<1>1. /\ queue[d] = <<>>
      /\ \A e \in Daemons : e # d => pc'[e] = pc[e]
      /\ pc'[d] = pc[d] \/ pc'[d] \in Starting \cup {"ready"}
      /\ pc[d] \notin Working
  BY DEF Starts, QueueInv, TypeOK, Working, Starting
<1>2. QueueInv'
  BY <1>1 DEF Starts, QueueInv
<1>3. CallInv'
  <2>1. ASSUME NEW r \in Requests, conn[r] # None
        PROVE  pc'[conn[r]] # "off" /\ (pc[conn[r]] \notin Live => pc'[conn[r]] \notin Live)
    <3>1. conn[r] \in Daemons /\ pc[conn[r]] # "off"
      BY <2>1 DEF CallInv, TypeOK
    <3> QED
      BY <1>1, <3>1 DEF Starts, Starting, Live
  <2> QED
    BY <2>1 DEF Starts, CallInv, Untouched
<1>4. WorkInv' /\ BehindInv' /\ RunsAtMostOnce' /\ RepliesAreTrue'
  BY DEF Starts, WorkInv, AtWork, Untouched, BehindInv, RunsAtMostOnce, RepliesAreTrue, Head1
<1>5. VerifiedInv'
  <2>1. \A e \in Daemons : queue'[e] # <<>> =>
           e # d /\ registry'[e] = registry[e] /\ (e \notin met' => e \notin met)
    BY <1>1 DEF Starts
  <2> QED
    BY <2>1 DEF Starts, VerifiedInv, Verified, Head1, Lone
<1>6. LaunchedIsRegistered'
  BY DEF Starts, LaunchedIsRegistered, Lone
<1>7. LaunchIsRecorded'
  <2> SUFFICES ASSUME NEW r \in Requests, launched[r] # None, r \notin recorded,
                      pc[conn[r]] \notin Live
               PROVE  pc'[conn[r]] \notin Live
    BY DEF Starts, LaunchIsRecorded
  <2>1. conn[r] \in Daemons /\ pc[conn[r]] # "off"
    BY DEF CallInv, Untouched, TypeOK
  <2> QED
    BY <1>1, <2>1 DEF Starts, Starting, Live
<1> QED
  BY <1>2, <1>3, <1>4, <1>5, <1>6, <1>7

\* With a process its waiters go.
LEMMA EndsKeep ==
    ASSUME TypeOK, RequestInv, NEW d \in Daemons, Ends(d)
    PROVE  RequestInv'
<1> USE DEF RequestInv
<1>1. /\ \A e \in Daemons : e # d => /\ pc'[e] = pc[e] /\ queue'[e] = queue[e]
                                     /\ work'[e] = work[e] /\ registry'[e] = registry[e]
      /\ queue'[d] = <<>> /\ work'[d] = "idle"
      /\ pc'[d] \notin Live /\ pc'[d] # "off" /\ pc'[d] \notin Working
  BY DEF Ends, TypeOK, Live, Starting, Working
<1>2. QueueInv'
  <2>1. Len(queue'[d]) = 0
    BY <1>1
  <2> QED
    BY <1>1, <2>1 DEF Ends, QueueInv
<1>3. CallInv'
  BY <1>1 DEF Ends, CallInv, Untouched, TypeOK
<1>4. WorkInv'
  BY <1>1 DEF Ends, WorkInv, AtWork, Untouched, Head1
<1>8. VerifiedInv'
  BY <1>1 DEF Ends, VerifiedInv, Verified, Head1, Lone
<1>5. BehindInv'
  <2>1. Len(queue'[d]) = 0
    BY <1>1
  <2> QED
    BY <1>1, <2>1 DEF Ends, BehindInv, Untouched
<1>6. LaunchedIsRegistered' /\ RunsAtMostOnce' /\ RepliesAreTrue'
  BY DEF Ends, LaunchedIsRegistered, RunsAtMostOnce, RepliesAreTrue, Lone
<1>7. LaunchIsRecorded'
  <2> SUFFICES ASSUME NEW r \in Requests, launched[r] # None, r \notin recorded
               PROVE  \/ pc'[conn[r]] \notin Live
                      \/ queue'[conn[r]] # <<>> /\ Head(queue'[conn[r]]) = r
                      \/ client[r] \in {"error", "timedout"}
    BY DEF Ends, LaunchIsRecorded
  <2>1. conn[r] \in Daemons
    BY DEF CallInv, Untouched, TypeOK
  <2> QED
    BY <1>1, <2>1 DEF LaunchIsRecorded
<1> QED
  BY <1>2, <1>3, <1>4, <1>5, <1>6, <1>7, <1>8

\* The queue as a sequence.
LEMMA Appended ==
    ASSUME NEW S, NEW q \in Seq(S), NEW x \in S
    PROVE  /\ Len(q) \in Nat /\ Len(Append(q, x)) = Len(q) + 1
           /\ \A i \in 1..Len(q) : Append(q, x)[i] = q[i]
           /\ Append(q, x)[Len(q) + 1] = x /\ Append(q, x) # <<>>
           /\ q = <<>> <=> Len(q) = 0
           /\ q # <<>> => Head(Append(q, x)) = Head(q)
<1>1. /\ Len(q) \in Nat /\ Len(Append(q, x)) = Len(q) + 1
      /\ \A i \in 1..Len(q) : Append(q, x)[i] = q[i]
      /\ Append(q, x)[Len(q) + 1] = x
  OBVIOUS
<1>2. q = <<>> <=> Len(q) = 0
  OBVIOUS
<1>3. Append(q, x) # <<>>
  BY <1>1
<1>4. q # <<>> => Head(Append(q, x)) = Head(q)
  BY <1>1, <1>2
<1> QED
  BY <1>1, <1>2, <1>3, <1>4

\* Joining the queue: the main task that stops, or a request for the first time.
Joins(d, x) ==
    /\ pc[d] = "ready" /\ x \in Requests \cup {"stop"}
    /\ queue' = [queue EXCEPT ![d] = Append(@, x)]
    /\ UNCHANGED <<registry, work, met, disk, swaps, client, cmd, conn,
                   launched, recorded, basis, carried>>
    /\ \/ x = "stop" /\ pc' = [pc EXCEPT ![d] = "stopping"] /\ UNCHANGED handled
       \/ /\ x \in Requests /\ conn[x] = d /\ x \notin handled
          /\ handled' = handled \cup {x} /\ UNCHANGED pc

\* Whoever joins stands behind the others, and nothing was done for it yet.
LEMMA JoinsKeep ==
    ASSUME TypeOK, RequestInv, NEW d \in Daemons, NEW x, Joins(d, x)
    PROVE  RequestInv'
<1> USE DEF RequestInv
<1> DEFINE n == Len(queue[d])
<1>1. /\ n \in Nat /\ Len(queue'[d]) = n + 1
      /\ \A i \in 1..n : queue'[d][i] = queue[d][i]
      /\ queue'[d][n + 1] = x /\ queue'[d] # <<>>
      /\ queue[d] = <<>> <=> n = 0
      /\ queue[d] # <<>> => Head(queue'[d]) = Head(queue[d])
  <2>1. queue[d] \in Seq(Requests \cup {"stop"}) /\ queue'[d] = Append(queue[d], x)
    BY DEF Joins, TypeOK
  <2> QED
    BY <2>1, Appended DEF Joins
<1>2. /\ \A e \in Daemons : e # d => pc'[e] = pc[e] /\ queue'[e] = queue[e]
      /\ pc[d] \in Working /\ pc'[d] \in Working /\ pc[d] \in Live /\ pc'[d] \in Live
      /\ pc'[d] # "off"
  BY DEF Joins, TypeOK, Working, Live, Starting
<1>3. x \in Requests => /\ conn[x] = d /\ x \in handled' /\ x \notin handled
                        /\ client[x] \in {"waiting", "timedout"} /\ Untouched(x)
  BY <1>2, DaemonAssumption DEF Joins, CallInv
<1>4. \A i \in 1..n : queue[d][i] # x \/ x \notin Requests
  BY <1>3 DEF QueueInv
<1> HIDE DEF n
<1>5. QueueInv'
  <2> SUFFICES ASSUME NEW e \in Daemons
               PROVE  /\ pc'[e] \notin Working => queue'[e] = <<>>
                      /\ queue'[e] = <<>> => work'[e] = "idle"
                      /\ \A i \in 1..Len(queue'[e]) : queue'[e][i] \in Requests =>
                            /\ conn'[queue'[e][i]] = e /\ queue'[e][i] \in handled'
                            /\ client'[queue'[e][i]] \in {"waiting", "timedout"}
                            /\ \A j \in 1..Len(queue'[e]) : queue'[e][j] = queue'[e][i] => j = i
    BY DEF QueueInv
  <2>1. CASE e # d
    BY <1>2, <2>1 DEF Joins, QueueInv
  <2>2. CASE e = d
    <3> SUFFICES ASSUME NEW i \in 1..(n + 1), queue'[d][i] \in Requests
                 PROVE  /\ conn[queue'[d][i]] = d /\ queue'[d][i] \in handled'
                        /\ client[queue'[d][i]] \in {"waiting", "timedout"}
                        /\ \A j \in 1..(n + 1) : queue'[d][j] = queue'[d][i] => j = i
      BY <1>1, <1>2, <2>2 DEF Joins
    <3>1. CASE i = n + 1
      <4>1. queue'[d][i] = x /\ x \in Requests
        BY <1>1, <3>1
      <4>2. \A j \in 1..n : queue'[d][j] # x
        BY <1>1, <1>4, <4>1
      <4>3. \A j \in 1..(n + 1) : j \in 1..n \/ j = n + 1
        BY <1>1
      <4>4. \A j \in 1..(n + 1) : queue'[d][j] = queue'[d][i] => j = i
        BY <3>1, <4>1, <4>2, <4>3
      <4> QED
        BY <1>3, <4>1, <4>4
    <3>2. CASE i \in 1..n
      <4>1. /\ conn[queue[d][i]] = d /\ queue[d][i] \in handled
            /\ client[queue[d][i]] \in {"waiting", "timedout"}
            /\ \A j \in 1..n : queue[d][j] = queue[d][i] => j = i
        BY <1>1, <3>2 DEF QueueInv, n
      <4> QED
        BY <1>1, <1>4, <3>2, <4>1 DEF Joins
    <3> QED
      BY <1>1, <3>1, <3>2
  <2> QED
    BY <2>1, <2>2
<1>6. CallInv'
  <2>1. handled \subseteq handled' /\ handled' \subseteq handled \cup ({x} \cap Requests)
    BY DEF Joins
  <2>2. \A e \in Daemons : /\ pc[e] # "off" => pc'[e] # "off"
                           /\ pc[e] \notin Live => pc'[e] \notin Live
    BY <1>2
  <2>3. \A r \in Requests : conn[r] # None => conn[r] \in Daemons
    BY DEF TypeOK
  <2>4. x \in Requests => conn[x] # None
    BY <1>3, DaemonAssumption
  <2> QED
    BY <2>1, <2>2, <2>3, <2>4 DEF Joins, CallInv, Untouched
<1>7. WorkInv' /\ VerifiedInv'
  <2>1. \A e \in Daemons : queue'[e] # <<>> /\ queue'[e][1] \in Requests =>
           \/ queue[e] # <<>> /\ queue'[e][1] = queue[e][1]
           \/ e = d /\ work[d] = "idle" /\ Untouched(queue'[e][1])
    <3>1. CASE n = 0
      BY <1>1, <1>2, <1>3, <3>1 DEF QueueInv
    <3>2. CASE n # 0
      BY <1>1, <1>2, <3>2
    <3> QED
      BY <3>1, <3>2
  <2>2. WorkInv'
    BY <2>1 DEF Joins, WorkInv, AtWork, Untouched, Head1
  <2>3. VerifiedInv'
    BY <2>1 DEF Joins, VerifiedInv, Verified, Head1, Lone
  <2> QED
    BY <2>2, <2>3
<1>8. BehindInv'
  <2> SUFFICES ASSUME NEW e \in Daemons, NEW i \in 2..Len(queue'[e]), queue'[e][i] \in Requests
               PROVE  Untouched(queue'[e][i])
    BY DEF BehindInv, Joins, Untouched
  <2>1. CASE e # d
    BY <1>2, <2>1 DEF BehindInv
  <2>2. CASE e = d /\ i = n + 1
    BY <1>1, <1>3, <2>2
  <2>3. CASE e = d /\ i \in 2..n
    BY <1>1, <2>3 DEF BehindInv, n
  <2> QED
    BY <1>1, <2>1, <2>2, <2>3
<1>9. LaunchedIsRegistered'
  BY DEF Joins, LaunchedIsRegistered, Lone
<1>10. RunsAtMostOnce' /\ RepliesAreTrue'
  BY <1>3 DEF Joins, RunsAtMostOnce, RepliesAreTrue
<1>11. LaunchIsRecorded'
  <2> SUFFICES ASSUME NEW r \in Requests, launched[r] # None, r \notin recorded
               PROVE  \/ pc'[conn[r]] \notin Live
                      \/ queue'[conn[r]] # <<>> /\ Head(queue'[conn[r]]) = r
                      \/ client[r] \in {"error", "timedout"}
    BY DEF Joins, LaunchIsRecorded
  <2>1. conn[r] \in Daemons
    BY DEF CallInv, Untouched, TypeOK
  <2>2. CASE conn[r] # d
    BY <1>2, <2>1, <2>2 DEF LaunchIsRecorded
  <2>3. CASE conn[r] = d /\ queue[d] # <<>>
    BY <1>1, <1>2, <2>3 DEF LaunchIsRecorded
  <2>4. CASE conn[r] = d /\ queue[d] = <<>>
    BY <1>2, <2>4 DEF LaunchIsRecorded
  <2> QED
    BY <2>2, <2>3, <2>4
<1> QED
  BY <1>5, <1>6, <1>7, <1>8, <1>9, <1>10, <1>11

\* A step of the handler that holds the mutex.
Works(d, r) ==
    /\ queue[d] # <<>> /\ Head(queue[d]) = r
    /\ \A e \in Daemons \ {d} : work'[e] = work[e] /\ registry'[e] = registry[e]
    /\ \A q \in Requests \ {r} : /\ launched'[q] = launched[q] /\ basis'[q] = basis[q]
                                 /\ carried'[q] = carried[q]
                                 /\ q \in recorded' <=> q \in recorded
    /\ UNCHANGED <<pc, queue, met, disk, swaps, client, cmd, conn, handled>>

\* LaunchedIsRegistered, of one request.
AsRegistered(r) ==
    launched[r] # None /\ Lone(conn[r]) =>
        /\ basis[r].row # None /\ basis[r].row.enabled
        /\ basis[r].row.version = basis[r].file
        /\ launched[r] # basis[r].file => swaps > 0

\* No handler interferes with what another one does: the requests that wait for
\* other daemons are other requests.
LEMMA WorksKeep ==
    ASSUME TypeOK, RequestInv, NEW d \in Daemons, NEW r \in Requests, Works(d, r),
           AtWork(d, r)', Verified(d, r)', AsRegistered(r)'
    PROVE  RequestInv'
<1> USE DEF RequestInv
<1>1. /\ Head1(d) = r /\ Len(queue[d]) >= 1 /\ Len(queue[d]) \in Nat
      /\ conn[r] = d /\ r \in handled /\ client[r] \in {"waiting", "timedout"}
  <2>1. queue[d] \in Seq(Requests \cup {"stop"})
    BY DEF TypeOK
  <2>2. Len(queue[d]) \in Nat
    BY <2>1
  <2>3. queue[d] # <<>> /\ Head(queue[d]) = r
    BY DEF Works
  <2> QED
    BY <2>2, <2>3, Holder
<1>2. \A e \in Daemons : queue[e] # <<>> =>
         1 \in 1..Len(queue[e]) /\ \A i \in 2..Len(queue[e]) : i \in 1..Len(queue[e]) /\ i # 1
  BY DEF TypeOK
<1>3. \A e \in Daemons : queue[e] # <<>> /\ Head1(e) \in Requests /\ e # d => Head1(e) # r
  BY <1>1, <1>2 DEF QueueInv, Head1
<1>4. QueueInv'
  BY <1>1 DEF Works, QueueInv
<1>5. CallInv'
  BY <1>1, DaemonAssumption DEF Works, CallInv, Untouched
<1>6. WorkInv'
  BY <1>1, <1>3 DEF Works, WorkInv, AtWork, Untouched, Head1
<1>7. BehindInv'
  <2> SUFFICES ASSUME NEW e \in Daemons, NEW i \in 2..Len(queue[e]), queue[e][i] \in Requests
               PROVE  Untouched(queue[e][i])'
    BY DEF BehindInv, Works
  <2>1. i \in 1..Len(queue[e]) /\ 1 \in 1..Len(queue[e]) /\ i # 1
    BY DEF TypeOK
  <2>2. queue[e][i] # r
    BY <1>1, <2>1 DEF QueueInv, Head1
  <2> QED
    BY <2>2 DEF Works, BehindInv, Untouched
<1>8. VerifiedInv'
  BY <1>1, <1>3 DEF Works, VerifiedInv, Verified, Head1, Lone
<1>9. LaunchedIsRegistered'
  BY DEF Works, LaunchedIsRegistered, AsRegistered, Lone
<1>10. LaunchIsRecorded'
  BY <1>1 DEF Works, LaunchIsRecorded
<1>11. RunsAtMostOnce' /\ RepliesAreTrue'
  <2>1. carried'[r] <= 1 /\ conn[r] # None
    BY <1>1, DaemonAssumption DEF AtWork
  <2> QED
    BY <1>1, <2>1 DEF Works, RunsAtMostOnce, RepliesAreTrue
<1> QED
  BY <1>4, <1>5, <1>6, <1>7, <1>8, <1>9, <1>10, <1>11

\* The steps of a handler, one by one.
LEMMA HandlersKeep ==
    ASSUME TypeOK, MetInv, RegistryInv, RequestInv, NEW d \in Daemons, NEW r \in Requests,
           Serve(d, r), ~reply(d, r)
    PROVE  RequestInv'
<1> USE DEF RequestInv
<1>1. queue[d] # <<>> /\ Head(queue[d]) = r
  BY DEF Serve, upsert_registered_application, remove_registered_application,
         verify_executable, spawn, record_execution, Serving
<1>2. /\ Head1(d) = r /\ pc[d] \in Live /\ pc[d] \in Loaded
      /\ conn[r] = d /\ cmd[r] \in Commands /\ cmd[r].app \in Apps
  BY <1>1, Holder
<1>3. AtWork(d, r) /\ Verified(d, r) /\ AsRegistered(r)
  BY <1>1, <1>2 DEF WorkInv, VerifiedInv, LaunchedIsRegistered, AsRegistered
<1> SUFFICES Works(d, r) /\ AtWork(d, r)' /\ Verified(d, r)' /\ AsRegistered(r)'
  BY WorksKeep
<1> USE DEF calls, effects, files, store, TypeOK, Serving
<1>4. CASE upsert_registered_application(d, r) \/ remove_registered_application(d, r)
  <2>1. /\ work[d] = "idle" /\ work'[d] \in {"ok", "error"}
        /\ cmd[r].op # "open"
        /\ \A e \in Daemons \ {d} : work'[e] = work[e] /\ registry'[e] = registry[e]
        /\ UNCHANGED <<pc, queue, met, disk, swaps, client, cmd, conn, handled, launched,
                       recorded, basis>>
        /\ \/ work'[d] = "error" /\ carried' = carried
           \/ work'[d] = "ok" /\ carried' = [carried EXCEPT ![r] = @ + 1]
    BY <1>2, <1>4 DEF upsert_registered_application, remove_registered_application, Rejects,
                      CarryOut
  <2>2. Untouched(r) /\ carried'[r] \in {0, 1} /\ (work'[d] = "ok" => carried'[r] = 1)
    BY <1>3, <2>1 DEF AtWork, Untouched
  <2>3. Works(d, r) /\ Verified(d, r)' /\ AsRegistered(r)'
    BY <1>1, <1>3, <2>1, <2>2 DEF Works, Verified, AsRegistered, Untouched, Lone
  <2>4. AtWork(d, r)'
    BY <2>1, <2>2 DEF AtWork, Untouched
  <2> QED
    BY <2>3, <2>4
<1>5. CASE verify_executable(d, r)
  <2> DEFINE row == registry[d][cmd[r].app]
  <2>1. /\ work[d] = "idle" /\ cmd[r].op = "open" /\ Untouched(r)
        /\ \A e \in Daemons \ {d} : work'[e] = work[e]
        /\ UNCHANGED <<pc, registry, table, queue, met, disk, swaps, client, cmd, conn, handled,
                       launched, recorded, carried>>
    BY <1>3, <1>5 DEF verify_executable, AtWork
  <2>2. \A q \in Requests \ {r} : basis'[q] = basis[q]
    BY <1>5 DEF verify_executable, Observe
  <2>3. \/ work'[d] = "refused"
        \/ /\ work'[d] = "verified" /\ row # None /\ row.enabled
           /\ inspect_executable(row.path) = row.version
           /\ basis'[r] = [row |-> table[cmd[r].app], file |-> inspect_executable(row.path)]
    BY <1>5 DEF verify_executable, Observe
  <2>4. Works(d, r) /\ AtWork(d, r)' /\ AsRegistered(r)'
    BY <1>1, <2>1, <2>2, <2>3 DEF Works, AtWork, Untouched, AsRegistered
  <2>5. Verified(d, r)'
    <3> SUFFICES ASSUME work'[d] = "verified"
                 PROVE  /\ row # None
                        /\ disk[row.path] = basis'[r].file
                        /\ Lone(d) => /\ basis'[r].row # None /\ basis'[r].row.enabled
                                      /\ basis'[r].row.version = basis'[r].file
      BY <2>1 DEF Verified, Lone
    <3>1. row \in Rows /\ row.version \in Versions
      BY <1>2, <2>3 DEF Rows
    <3>2. disk[row.path] = inspect_executable(row.path)
      BY <2>3, <3>1, DaemonAssumption DEF inspect_executable
    <3>3. Lone(d) => row = table[cmd[r].app]
      BY <1>2, <2>3 DEF RegistryInv
    <3> QED
      BY <2>3, <3>2, <3>3
  <2> QED
    BY <2>4, <2>5
<1>6. CASE spawn(d, r)
  <2> DEFINE row == registry[d][cmd[r].app]
  <2>1. /\ work[d] = "verified" /\ cmd[r].op = "open" /\ Untouched(r)
        /\ row # None /\ (disk[row.path] = basis[r].file \/ swaps > 0)
        /\ \A e \in Daemons \ {d} : work'[e] = work[e]
        /\ UNCHANGED <<pc, registry, table, queue, met, disk, swaps, client, cmd, conn, handled,
                       recorded, basis>>
    BY <1>3, <1>6 DEF spawn, AtWork, Verified
  <2>2. \/ work'[d] = "refused" /\ launched' = launched /\ carried' = carried
        \/ /\ work'[d] = "launched" /\ launched' = [launched EXCEPT ![r] = disk[row.path]]
           /\ carried' = [carried EXCEPT ![r] = @ + 1] /\ carried'[r] = 1
    BY <1>6, <2>1 DEF spawn, Untouched
  <2>3. disk[row.path] # None
    <3>1. row \in Rows /\ row.path \in Paths
      BY <1>2, <2>1 DEF Rows
    <3> QED
      BY <3>1, DaemonAssumption
  <2>4. Works(d, r) /\ AtWork(d, r)' /\ Verified(d, r)'
    BY <1>1, <2>1, <2>2, <2>3 DEF Works, AtWork, Untouched, Verified
  <2>5. AsRegistered(r)'
    BY <1>2, <1>3, <2>1, <2>2 DEF AsRegistered, Verified, Untouched, Lone
  <2> QED
    BY <2>4, <2>5
<1>7. CASE record_execution(d, r)
  <2>1. /\ work[d] \in {"launched", "refused"} /\ cmd[r].op = "open"
        /\ \A e \in Daemons \ {d} : work'[e] = work[e]
        /\ \A q \in Requests \ {r} : q \in recorded' <=> q \in recorded
        /\ UNCHANGED <<pc, registry, table, queue, met, disk, swaps, client, cmd, conn, handled,
                       launched, basis, carried>>
    BY <1>7 DEF record_execution
  <2>2. \/ work'[d] = "error" /\ recorded' = recorded
        \/ work'[d] = "error" /\ work[d] = "refused"
        \/ work'[d] = "ok" /\ work[d] = "launched" /\ r \in recorded'
    BY <1>7 DEF record_execution
  <2>3. Works(d, r) /\ Verified(d, r)' /\ AsRegistered(r)'
    BY <1>1, <1>3, <2>1, <2>2 DEF Works, Verified, AsRegistered, Lone
  <2>4. AtWork(d, r)'
    BY <1>3, <2>1, <2>2 DEF AtWork, Untouched
  <2> QED
    BY <2>3, <2>4
<1> QED
  BY <1>4, <1>5, <1>6, <1>7 DEF Serve

LEMMA Dropped ==
    ASSUME NEW S, NEW q \in Seq(S), q # <<>>
    PROVE  /\ Len(q) \in Nat \ {0} /\ Len(Tail(q)) = Len(q) - 1
           /\ Tail(q) \in Seq(S) /\ Head(q) = q[1]
           /\ \A i \in 1..Len(Tail(q)) : Tail(q)[i] = q[i + 1]
           /\ Tail(q) # <<>> => Len(q) >= 2 /\ Tail(q)[1] = q[2]
<1>1. Len(q) \in Nat \ {0} /\ Head(q) = q[1] /\ Tail(q) \in Seq(S) /\ Len(Tail(q)) = Len(q) - 1
  OBVIOUS
<1>2. \A i \in 1..Len(Tail(q)) : Tail(q)[i] = q[i + 1]
  BY <1>1
<1>3. ASSUME Tail(q) # <<>>
      PROVE  Len(q) >= 2 /\ Tail(q)[1] = q[2]
  <2>1. Len(Tail(q)) # 0
    BY <1>1, <1>3
  <2> QED
    BY <1>1, <1>2, <2>1
<1> QED
  BY <1>1, <1>2, <1>3

\* The answer: the request leaves the queue, its record complete, and the next
\* one finds a handler that has done nothing yet.
LEMMA ReplyKeeps ==
    ASSUME TypeOK, RequestInv, NEW d \in Daemons, NEW r \in Requests, reply(d, r)
    PROVE  RequestInv'
<1> USE DEF RequestInv
<1> DEFINE n == Len(queue[d])
<1>1. queue[d] # <<>> /\ Head(queue[d]) = r
  BY DEF reply
<1>2. /\ Head1(d) = r /\ pc[d] \in Live /\ pc[d] \in Working
      /\ conn[r] = d /\ r \in handled /\ client[r] \in {"waiting", "timedout"}
      /\ cmd[r] \in Commands
  BY <1>1, Holder
<1>3. AtWork(d, r) /\ work[d] \in {"ok", "error"}
  BY <1>1, <1>2 DEF WorkInv, reply
<1>4. /\ UNCHANGED <<pc, registry, met, disk, swaps, cmd, conn,
                     handled, launched, recorded, basis, carried>>
      /\ \A e \in Daemons \ {d} : queue'[e] = queue[e] /\ work'[e] = work[e]
      /\ queue'[d] = Tail(queue[d]) /\ work'[d] = "idle"
      /\ \A q \in Requests \ {r} : client'[q] = client[q]
      /\ client'[r] = work[d] \/ (client[r] = "timedout" /\ client'[r] = "timedout")
  BY <1>2 DEF reply, effects, files, TypeOK
<1>5. /\ n \in Nat \ {0} /\ Len(queue'[d]) = n - 1 /\ queue[d][1] = r
      /\ \A i \in 1..(n - 1) : queue'[d][i] = queue[d][i + 1]
      /\ queue'[d] # <<>> => n >= 2 /\ queue'[d][1] = queue[d][2]
  <2>1. queue[d] \in Seq(Requests \cup {"stop"})
    BY DEF TypeOK
  <2> QED
    BY <1>1, <1>4, <2>1, Dropped
<1>6. \A i \in 2..n : queue[d][i] # r
  BY <1>5 DEF QueueInv, n
<1>7. \A e \in Daemons \ {d} : \A i \in 1..Len(queue[e]) : queue[e][i] # r
  BY <1>2 DEF QueueInv
<1>8. QueueInv'
  <2> SUFFICES ASSUME NEW e \in Daemons
               PROVE  /\ pc'[e] \notin Working => queue'[e] = <<>>
                      /\ queue'[e] = <<>> => work'[e] = "idle"
                      /\ \A i \in 1..Len(queue'[e]) : queue'[e][i] \in Requests =>
                            /\ conn'[queue'[e][i]] = e /\ queue'[e][i] \in handled'
                            /\ client'[queue'[e][i]] \in {"waiting", "timedout"}
                            /\ \A j \in 1..Len(queue'[e]) : queue'[e][j] = queue'[e][i] => j = i
    BY DEF QueueInv
  <2>1. CASE e # d
    BY <1>4, <1>7, <2>1 DEF QueueInv
  <2>2. CASE e = d
    <3>0. pc'[d] \in Working /\ work'[d] = "idle" /\ conn' = conn /\ handled' = handled
      BY <1>2, <1>4
    <3> SUFFICES ASSUME NEW i \in 1..Len(queue'[d]), queue'[d][i] \in Requests
                 PROVE  /\ conn[queue'[d][i]] = d /\ queue'[d][i] \in handled
                        /\ client'[queue'[d][i]] \in {"waiting", "timedout"}
                        /\ \A j \in 1..Len(queue'[d]) : queue'[d][j] = queue'[d][i] => j = i
      BY <2>2, <3>0
    <3>1. /\ i \in 1..(n - 1) /\ i + 1 \in 1..n /\ i + 1 \in 2..n
          /\ queue'[d][i] = queue[d][i + 1]
          /\ \A j \in 1..Len(queue'[d]) : j + 1 \in 1..n /\ queue'[d][j] = queue[d][j + 1]
      BY <1>5
    <3>2. /\ conn[queue[d][i + 1]] = d /\ queue[d][i + 1] \in handled
          /\ client[queue[d][i + 1]] \in {"waiting", "timedout"}
          /\ \A j \in 1..n : queue[d][j] = queue[d][i + 1] => j = i + 1
      BY <3>1 DEF QueueInv
    <3> HIDE DEF n
    <3>3. queue[d][i + 1] # r
      BY <1>6, <3>1
    <3>4. \A j \in 1..Len(queue'[d]) : queue'[d][j] = queue'[d][i] => j = i
      <4> SUFFICES ASSUME NEW j \in 1..Len(queue'[d]), queue'[d][j] = queue'[d][i]
                   PROVE  j = i
        OBVIOUS
      <4>1. j + 1 = i + 1
        BY <3>1, <3>2
      <4> QED
        BY <1>5, <4>1
    <3> QED
      BY <1>4, <3>1, <3>2, <3>3, <3>4
  <2> QED
    BY <2>1, <2>2
<1> HIDE DEF n
<1>9. CallInv'
  <2>1. client'[r] \in {"ok", "error", "timedout"}
    BY <1>3, <1>4
  <2> QED
    BY <1>2, <1>4, <2>1, DaemonAssumption DEF CallInv, Untouched
<1>10. /\ \A e \in Daemons \ {d} : queue'[e] = queue[e] /\ work'[e] = work[e]
       /\ queue'[d] # <<>> /\ Head1(d)' \in Requests =>
             work'[d] = "idle" /\ Untouched(Head1(d)')
  <2>1. queue'[d] # <<>> => 2 \in 2..n /\ Head1(d)' = queue[d][2]
    BY <1>5 DEF Head1
  <2> QED
    BY <1>4, <2>1 DEF BehindInv, n
<1>11. WorkInv'
  <2> SUFFICES ASSUME NEW e \in Daemons, queue'[e] # <<>>, Head1(e)' \in Requests
               PROVE  AtWork(e, Head1(e))'
    BY DEF WorkInv
  <2>1. CASE e = d
    <3>1. work'[d] = "idle" /\ Untouched(Head1(d)')
      BY <1>10, <2>1
    <3>2. UNCHANGED <<cmd, launched, recorded, carried>>
      BY <1>4
    <3> QED
      BY <2>1, <3>1, <3>2 DEF AtWork, Untouched
  <2>2. CASE e # d
    <3>1. queue'[e] = queue[e] /\ work'[e] = work[e] /\ Head1(e)' = Head1(e)
      BY <1>10, <2>2 DEF Head1
    <3>2. AtWork(e, Head1(e))
      BY <3>1 DEF WorkInv
    <3>3. UNCHANGED <<cmd, launched, recorded, carried>>
      BY <1>4
    <3> QED
      BY <3>1, <3>2, <3>3 DEF AtWork, Untouched
  <2> QED
    BY <2>1, <2>2
<1>12. VerifiedInv'
  BY <1>4, <1>10 DEF VerifiedInv, Verified, Head1, Lone
<1>13. BehindInv'
  <2> SUFFICES ASSUME NEW e \in Daemons, NEW i \in 2..Len(queue'[e]), queue'[e][i] \in Requests
               PROVE  Untouched(queue'[e][i])
    BY <1>4 DEF BehindInv, Untouched
  <2>1. CASE e # d
    BY <1>4, <2>1 DEF BehindInv
  <2>2. CASE e = d
    <3>1. i \in 1..(n - 1) /\ i + 1 \in 2..n
      BY <1>5, <2>2
    <3>2. queue'[e][i] = queue[d][i + 1]
      BY <1>5, <2>2, <3>1
    <3>3. i + 1 \in 2..Len(queue[d]) /\ queue[d][i + 1] \in Requests
      BY <3>1, <3>2 DEF n
    <3> QED
      BY <3>2, <3>3 DEF BehindInv
  <2> QED
    BY <2>1, <2>2
<1>14. LaunchedIsRegistered'
  BY <1>4 DEF LaunchedIsRegistered, Lone
<1>15. LaunchIsRecorded'
  <2> SUFFICES ASSUME NEW q \in Requests, launched[q] # None, q \notin recorded
               PROVE  \/ pc[conn[q]] \notin Live
                      \/ queue'[conn[q]] # <<>> /\ Head(queue'[conn[q]]) = q
                      \/ client'[q] \in {"error", "timedout"}
    BY <1>4 DEF LaunchIsRecorded
  <2>1. CASE q = r
    BY <1>3, <1>4, <2>1 DEF AtWork
  <2>2. CASE q # r
    <3>1. conn[q] \in Daemons
      BY DEF CallInv, Untouched, TypeOK
    <3> QED
      BY <1>1, <1>4, <2>2, <3>1 DEF LaunchIsRecorded
  <2> QED
    BY <2>1, <2>2
<1>16. RunsAtMostOnce' /\ RepliesAreTrue'
  <2>1. /\ client'[r] = "ok" => carried[r] = 1 /\ (cmd[r].op = "open" => r \in recorded)
        /\ client'[r] = "error" /\ carried[r] = 1 => cmd[r].op = "open" /\ r \notin recorded
    BY <1>2, <1>3, <1>4 DEF AtWork
  <2> QED
    BY <1>4, <2>1 DEF RunsAtMostOnce, RepliesAreTrue
<1> QED
  BY <1>8, <1>9, <1>11, <1>12, <1>13, <1>14, <1>15, <1>16

\* A client's steps concern its own call only: before it reached a daemon
\* nothing was done for it, and a lost connection was not served.
LEMMA CallsKeep ==
    ASSUME TypeOK, RequestInv, NEW r \in Requests, Call(r)
    PROVE  RequestInv'
<1> USE DEF RequestInv
<1>1. /\ UNCHANGED <<pc, registry, queue, work, met, disk, swaps,
                     handled, launched, recorded, basis, carried>>
      /\ \A q \in Requests \ {r} : client'[q] = client[q] /\ cmd'[q] = cmd[q] /\ conn'[q] = conn[q]
  <2>1. CASE \E c \in Commands : validate_client(r, c)
    BY <2>1 DEF validate_client, procs, files, effects, TypeOK
  <2>2. CASE connect(r)
    BY <2>2 DEF connect, procs, files, effects, TypeOK
  <2>3. CASE client_times_out(r) \/ client_disconnected(r)
    BY <2>3 DEF client_times_out, client_disconnected, procs, files, effects, TypeOK
  <2> QED
    BY <2>1, <2>2, <2>3 DEF Call
<1>2. CASE \/ \E c \in Commands : validate_client(r, c)
           \/ connect(r)
  <2>1. client[r] \in {"idle", "validated"}
    BY <1>2 DEF validate_client, connect
  <2>2. conn[r] = None /\ r \notin handled /\ Untouched(r)
    BY <2>1 DEF CallInv
  <2>3. /\ client'[r] \in {"validated", "refused", "waiting", "failed"}
        /\ client'[r] = "validated" => cmd'[r] \in Commands /\ conn'[r] = None
        /\ client'[r] = "refused" \/ client'[r] = "failed" => conn'[r] = None
        /\ client'[r] = "waiting" => /\ conn'[r] \in Daemons /\ cmd'[r] \in Commands
                                     /\ pc[conn'[r]] # "off"
    BY <1>2, <2>2 DEF validate_client, connect, CallInv, TypeOK, Listening
  <2>4. \A d \in Daemons : \A i \in 1..Len(queue[d]) : queue[d][i] # r
    BY <2>2 DEF QueueInv
  <2>5. QueueInv'
    BY <1>1, <2>4 DEF QueueInv
  <2>6. CallInv'
    BY <1>1, <2>2, <2>3, DaemonAssumption DEF CallInv, Untouched
  <2>7. \A d \in Daemons : queue[d] # <<>> => Head1(d) # r
    <3>1. \A d \in Daemons : queue[d] # <<>> => 1 \in 1..Len(queue[d])
      BY DEF TypeOK
    <3> QED
      BY <2>4, <3>1 DEF Head1
  <2>8. WorkInv'
    BY <1>1, <2>7 DEF WorkInv, AtWork, Untouched, Head1
  <2>9. VerifiedInv'
    BY <1>1, <2>7 DEF VerifiedInv, Verified, Head1, Lone
  <2>10. BehindInv' /\ LaunchedIsRegistered' /\ LaunchIsRecorded'
    BY <1>1, <2>2 DEF BehindInv, Untouched, LaunchedIsRegistered, LaunchIsRecorded, Lone
  <2>11. RunsAtMostOnce' /\ RepliesAreTrue'
    BY <1>1, <2>2, <2>3 DEF RunsAtMostOnce, RepliesAreTrue, Untouched
  <2> QED
    BY <2>5, <2>6, <2>8, <2>9, <2>10, <2>11
<1>3. CASE client_times_out(r) \/ client_disconnected(r)
  <2>1. /\ client[r] = "waiting" /\ UNCHANGED <<cmd, conn>>
        /\ \/ client'[r] = "timedout"
           \/ client'[r] = "failed" /\ pc[conn[r]] \notin Live
    BY <1>3 DEF client_times_out, client_disconnected, TypeOK
  <2>2. conn[r] \in Daemons
    BY <2>1 DEF CallInv, TypeOK
  <2>3. \A d \in Daemons : \A i \in 1..Len(queue[d]) : queue[d][i] = r => client'[r] = "timedout"
    <3>1. \A d \in Daemons : Len(queue[d]) # 0 => pc[d] \in Live
      BY DEF QueueInv, Working, Live
    <3> QED
      <4> SUFFICES ASSUME NEW d \in Daemons, NEW i \in 1..Len(queue[d]), queue[d][i] = r
                   PROVE  client'[r] = "timedout"
        OBVIOUS
      <4>1. conn[r] = d
        BY DEF QueueInv
      <4>2. pc[d] \in Live
        BY <3>1
      <4> QED
        BY <2>1, <4>1, <4>2
  <2>4. QueueInv'
    BY <1>1, <2>1, <2>3 DEF QueueInv
  <2>5. CallInv'
    BY <1>1, <2>1, <2>2 DEF CallInv, Untouched
  <2>6. WorkInv' /\ BehindInv'
    BY <1>1, <2>1 DEF WorkInv, AtWork, Untouched, BehindInv, Head1
  <2>8. VerifiedInv' /\ LaunchedIsRegistered'
    BY <1>1, <2>1 DEF VerifiedInv, Verified, LaunchedIsRegistered, Head1, Lone
  <2>7. LaunchIsRecorded' /\ RunsAtMostOnce' /\ RepliesAreTrue'
    BY <1>1, <2>1 DEF LaunchIsRecorded, RunsAtMostOnce, RepliesAreTrue
  <2> QED
    BY <2>4, <2>5, <2>6, <2>7, <2>8
<1> QED
  BY <1>2, <1>3 DEF Call

LEMMA RequestStep ==
    ASSUME TypeOK, MetInv, RegistryInv, RequestInv, Next
    PROVE  RequestInv'
<1>1. ASSUME NEW d \in Daemons, Process(d)
      PROVE  RequestInv'
  <2>1. CASE shutdown(d)
    <3>1. Joins(d, "stop")
      BY <2>1 DEF shutdown, Joins, Go, calls, effects, files
    <3> QED
      BY <3>1, JoinsKeep
  <2> QED
    BY <1>1, <2>1, ProcessKinds, StartsKeep, EndsKeep
<1>2. ASSUME NEW d \in Daemons, NEW r \in Requests, accept(d, r)
      PROVE  RequestInv'
  <2>1. Joins(d, r)
    BY <1>2 DEF accept, Joins, calls, files
  <2> QED
    BY <2>1, JoinsKeep
<1>3. ASSUME NEW d \in Daemons, NEW r \in Requests, Serve(d, r)
      PROVE  RequestInv'
  BY <1>3, HandlersKeep, ReplyKeeps
<1>4. ASSUME NEW r \in Requests, Call(r)
      PROVE  RequestInv'
  BY <1>4, CallsKeep
<1>5. ASSUME NEW p \in Paths, NEW v \in Versions \cup {Untrusted}, Replace(p, v)
      PROVE  RequestInv'
  <2>1. /\ swaps' > 0 /\ UNCHANGED <<pc, registry, queue, work, met, client, cmd, conn,
                                     handled, launched, recorded, basis, carried>>
    BY <1>5 DEF Replace, procs, calls, effects, TypeOK
  <2>2. /\ QueueInv' /\ CallInv' /\ WorkInv' /\ BehindInv' /\ LaunchIsRecorded'
        /\ RunsAtMostOnce' /\ RepliesAreTrue'
    BY <2>1 DEF RequestInv, QueueInv, CallInv, WorkInv, AtWork, Untouched, BehindInv,
                LaunchIsRecorded, RunsAtMostOnce, RepliesAreTrue, Head1
  <2>3. VerifiedInv' /\ LaunchedIsRegistered'
    BY <2>1 DEF RequestInv, VerifiedInv, Verified, LaunchedIsRegistered, Head1, Lone
  <2> QED
    BY <2>2, <2>3 DEF RequestInv
<1> QED
  BY <1>1, <1>2, <1>3, <1>4, <1>5 DEF Next, Process

\* The row of an application, as the call that wrote it last explains it.
Explained(a) ==
    IF writer[a] = None THEN table[a] = None
    ELSE LET c == cmd[writer[a]]
         IN  /\ carried[writer[a]] = 1 /\ c.app = a
             /\ \/ c.op = "remove" /\ table[a] = None
                \/ /\ c.op = "upsert" /\ table[a] # None
                   /\ table[a].path = c.path /\ table[a].enabled = c.enabled

\* A command that takes effect had not, and becomes the writer of its row; of the
\* other steps only a start of an application counts as one.
LEMMA RowsStep ==
    ASSUME TypeOK, RequestInv, RowsAreExplained, Next
    PROVE  RowsAreExplained'
<1> USE DEF RequestInv
<1>1. \A a \in Apps : Explained(a)
  BY DEF RowsAreExplained, Explained
<1>2. \A r \in Requests : carried[r] = 1 /\ cmd[r].op # "open" => writer[cmd[r].app] # None
  BY DEF RowsAreExplained
<1>3. \A a \in Apps : writer[a] # None => writer[a] \in Requests
  BY DEF TypeOK
<1>4. SUFFICES /\ \A a \in Apps : Explained(a)'
               /\ \A r \in Requests :
                     carried'[r] = 1 /\ cmd'[r].op # "open" => writer'[cmd'[r].app] # None
  BY DEF RowsAreExplained, Explained
<1>5. CASE UNCHANGED <<table, cmd, carried, writer>>
  BY <1>1, <1>2, <1>5 DEF Explained
<1>6. ASSUME NEW d \in Daemons, NEW r \in Requests, Registers(d, r)
      PROVE  /\ \A a \in Apps : Explained(a)'
             /\ \A q \in Requests :
                   carried'[q] = 1 /\ cmd'[q].op # "open" => writer'[cmd'[q].app] # None
  <2>1. /\ queue[d] # <<>> /\ Head(queue[d]) = r /\ work[d] = "idle" /\ cmd' = cmd
        /\ cmd[r].op \in {"upsert", "remove"}
    BY <1>6 DEF Registers, upsert_registered_application, remove_registered_application, Serving,
                calls
  <2>2. cmd[r] \in Commands /\ cmd[r].app \in Apps /\ carried[r] = 0 /\ r # None
    BY <2>1, Holder, DaemonAssumption DEF WorkInv, AtWork, Untouched
  <2>3. CASE UNCHANGED <<table, carried, writer>>
    BY <1>1, <1>2, <2>1, <2>3 DEF Explained
  <2>4. ASSUME carried' = [carried EXCEPT ![r] = @ + 1],
               writer' = [writer EXCEPT ![cmd[r].app] = r],
               \A a \in Apps \ {cmd[r].app} : table'[a] = table[a],
               \/ cmd[r].op = "remove" /\ table'[cmd[r].app] = None
               \/ /\ cmd[r].op = "upsert" /\ table'[cmd[r].app] # None
                  /\ table'[cmd[r].app].path = cmd[r].path
                  /\ table'[cmd[r].app].enabled = cmd[r].enabled
        PROVE  /\ \A a \in Apps : Explained(a)'
               /\ \A q \in Requests :
                     carried'[q] = 1 /\ cmd'[q].op # "open" => writer'[cmd'[q].app] # None
    <3>1. /\ carried'[r] = 1 /\ writer'[cmd[r].app] = r
          /\ \A q \in Requests \ {r} : carried'[q] = carried[q]
          /\ \A a \in Apps \ {cmd[r].app} : writer'[a] = writer[a]
      BY <2>2, <2>4 DEF TypeOK
    <3>2. Explained(cmd[r].app)'
      BY <2>1, <2>2, <2>4, <3>1 DEF Explained
    <3>3. ASSUME NEW a \in Apps \ {cmd[r].app} PROVE Explained(a)'
      <4>1. writer[a] # r
        BY <1>1, <2>2 DEF Explained
      <4> QED
        BY <1>1, <1>3, <2>1, <2>4, <3>1, <4>1 DEF Explained
    <3>4. ASSUME NEW q \in Requests, carried'[q] = 1, cmd[q].op # "open"
          PROVE  writer'[cmd[q].app] # None
      <4>1. CASE q = r
        BY <2>2, <3>1, <4>1
      <4>2. CASE q # r
        <5>1. writer[cmd[q].app] # None
          BY <1>2, <3>1, <3>4, <4>2
        <5> QED
          BY <2>2, <2>4, <5>1 DEF TypeOK
      <4> QED
        BY <4>1, <4>2
    <3> QED
      BY <2>1, <3>2, <3>3, <3>4
  <2>5. CASE upsert_registered_application(d, r)
    <3> DEFINE row == [path |-> cmd[r].path, version |-> inspect_executable(cmd[r].path),
                       enabled |-> cmd[r].enabled]
    <3>1. \/ UNCHANGED <<table, carried, writer>>
          \/ CarryOut(r) /\ row.version # None /\ table' = [table EXCEPT ![cmd[r].app] = row]
      BY <2>5 DEF upsert_registered_application, Rejects
    <3>2. row.path = cmd[r].path /\ row.enabled = cmd[r].enabled
      OBVIOUS
    <3>3. cmd[r].op = "upsert" /\ (row.version # None => row \in Rows)
      BY <2>2, <2>5 DEF upsert_registered_application, Serving, Commands, inspect_executable,
                        trusted, Rows, TypeOK
    <3> HIDE DEF row
    <3>4. CASE CarryOut(r) /\ row.version # None /\ table' = [table EXCEPT ![cmd[r].app] = row]
      BY <2>2, <2>4, <3>2, <3>3, <3>4, DaemonAssumption DEF CarryOut, TypeOK
    <3> QED
      BY <2>3, <3>1, <3>4
  <2>6. CASE remove_registered_application(d, r)
    <3>1. \/ UNCHANGED <<table, carried, writer>>
          \/ /\ CarryOut(r) /\ table' = [table EXCEPT ![cmd[r].app] = None]
             /\ cmd[r].op = "remove"
      BY <2>6 DEF remove_registered_application, Rejects, Serving
    <3> QED
      BY <2>2, <2>3, <2>4, <3>1 DEF CarryOut, TypeOK
  <2> QED
    BY <1>6, <2>5, <2>6 DEF Registers
<1>7. ASSUME NEW d \in Daemons, NEW r \in Requests, spawn(d, r)
      PROVE  /\ \A a \in Apps : Explained(a)'
             /\ \A q \in Requests :
                   carried'[q] = 1 /\ cmd'[q].op # "open" => writer'[cmd'[q].app] # None
  <2>1. /\ queue[d] # <<>> /\ Head(queue[d]) = r /\ work[d] = "verified"
        /\ UNCHANGED <<table, cmd, writer>> /\ cmd[r].op = "open"
        /\ \A q \in Requests \ {r} : carried'[q] = carried[q]
    BY <1>7 DEF spawn, Serving, store, calls, TypeOK
  <2>2. carried[r] = 0
    BY <2>1, Holder DEF WorkInv, AtWork, Untouched
  <2>3. \A a \in Apps : writer[a] # r
    BY <1>1, <2>2, DaemonAssumption DEF Explained
  <2> QED
    BY <1>1, <1>2, <1>3, <2>1, <2>3 DEF Explained
<1>8. ASSUME NEW r \in Requests, NEW c \in Commands, validate_client(r, c)
      PROVE  /\ \A a \in Apps : Explained(a)'
             /\ \A q \in Requests :
                   carried'[q] = 1 /\ cmd'[q].op # "open" => writer'[cmd'[q].app] # None
  <2>1. /\ UNCHANGED <<table, carried, writer>> /\ client[r] = "idle"
        /\ \A q \in Requests \ {r} : cmd'[q] = cmd[q]
    BY <1>8 DEF validate_client, store, effects, TypeOK
  <2>2. carried[r] = 0
    BY <2>1 DEF CallInv, Untouched
  <2>3. \A a \in Apps : writer[a] # r
    BY <1>1, <2>2, DaemonAssumption DEF Explained
  <2> QED
    BY <1>1, <1>2, <1>3, <2>1, <2>2, <2>3 DEF Explained
<1>9. ASSUME NEW d \in Daemons, Process(d)
      PROVE  UNCHANGED <<table, cmd, carried, writer>>
  BY <1>9 DEF Process, Startup, Crash, shutdown, finish_daemon_session, run_fails, open,
              migration_applied, apply_migration, begin_daemon_session, prepare_server, bind,
              secure_bound_socket, startup_fails, store, calls, effects
<1>10. ASSUME NEW d \in Daemons, NEW r \in Requests,
              accept(d, r) \/ verify_executable(d, r) \/ record_execution(d, r) \/ reply(d, r)
       PROVE  UNCHANGED <<table, cmd, carried, writer>>
  BY <1>10 DEF accept, verify_executable, record_execution, reply, store, calls, effects
<1>11. ASSUME NEW r \in Requests, connect(r) \/ client_times_out(r) \/ client_disconnected(r)
       PROVE  UNCHANGED <<table, cmd, carried, writer>>
  BY <1>11 DEF connect, client_times_out, client_disconnected, store, effects
<1>12. ASSUME NEW p \in Paths, NEW v \in Versions \cup {Untrusted}, Replace(p, v)
       PROVE  UNCHANGED <<table, cmd, carried, writer>>
  BY <1>12 DEF Replace, store, calls, effects
<1> QED
  BY <1>5, <1>6, <1>7, <1>8, <1>9, <1>10, <1>11, <1>12 DEF Next, Process, Serve, Call, Registers

-----------------------------------------------------------------------------
(* Types.                                                                    *)

LEMMA Ghosts ==
    ASSUME TypeOK, NEW r \in Requests, CarryOut(r) \/ UNCHANGED <<carried, writer>>
    PROVE  carried' \in [Requests -> Nat] /\ writer' \in [Apps -> Requests \cup {None}]
<1>1. carried \in [Requests -> Nat] /\ writer \in [Apps -> Requests \cup {None}]
  BY DEF TypeOK
<1>2. carried[r] + 1 \in Nat
  BY <1>1
<1> QED
  BY <1>1, <1>2 DEF CarryOut

LEMMA TypeStep ==
    ASSUME TypeOK, SchemaInv, RequestInv, Next
    PROVE  TypeOK'
<1> USE DaemonAssumption DEF Live, Starting, Go, procs, store, files, calls, effects
<1>1. ASSUME NEW d \in Daemons, open(d) \/ migration_applied(d)
      PROVE  TypeOK'
  <2>1. CASE open(d)
    BY <2>1 DEF open, TypeOK
  <2>2. CASE migration_applied(d)
    <3>1. CASE version[d] > Migrations
      BY <2>2, <3>1 DEF migration_applied, TypeOK
    <3>2. CASE ~(version[d] > Migrations) /\ applied[version[d]] > 0
      <4>1. version[d] + 1 \in 1..(Migrations + 1)
        BY <3>2 DEF TypeOK
      <4> QED
        <5>1. version' = [version EXCEPT ![d] = version[d] + 1]
          BY <2>2, <3>2 DEF migration_applied
        <5>2. version' \in [Daemons -> 1..(Migrations + 1)]
          BY <4>1, <5>1 DEF TypeOK
        <5> QED
          BY <2>2, <3>2, <5>2 DEF migration_applied, TypeOK
    <3>3. CASE ~(version[d] > Migrations) /\ ~(applied[version[d]] > 0)
      BY <2>2, <3>3 DEF migration_applied, TypeOK
    <3> QED
      BY <3>1, <3>2, <3>3
  <2> QED
    BY <1>1, <2>1, <2>2
<1>2. ASSUME NEW d \in Daemons, apply_migration(d)
      PROVE  TypeOK'
  <2>1. version[d] \in 1..Migrations
    BY <1>2 DEF apply_migration, SchemaInv, TypeOK
  <2>2. /\ applied' \in [1..Migrations -> Nat]
        /\ version' \in [Daemons -> 1..(Migrations + 1)]
        /\ pc' \in [Daemons -> Live \cup {"off", "exited", "failed", "dead"}]
    BY <1>2, <2>1 DEF apply_migration, TypeOK
  <2> QED
    BY <1>2, <2>2 DEF apply_migration, TypeOK
<1>3. ASSUME NEW d \in Daemons, begin_daemon_session(d)
      PROVE  TypeOK'
  <2>1. registry' \in [Daemons -> [Apps -> Rows \cup {None}]]
    BY <1>3 DEF begin_daemon_session, TypeOK
  <2> QED
    BY <1>3, <2>1 DEF begin_daemon_session, TypeOK
<1>4. ASSUME NEW d \in Daemons, prepare_server(d) \/ bind(d) \/ secure_bound_socket(d)
      PROVE  TypeOK'
  <2>1. /\ pc' \in [Daemons -> Live \cup {"off", "exited", "failed", "dead"}]
        /\ socket' \in Daemons \cup {None} /\ private' \in BOOLEAN
    BY <1>4 DEF prepare_server, bind, secure_bound_socket, Go, Live, Starting, TypeOK
  <2>2. UNCHANGED <<version, registry, queue, work, met, store, disk, swaps, calls, effects>>
    BY <1>4 DEF prepare_server, bind, secure_bound_socket
  <2> QED
    BY <2>1, <2>2 DEF store, calls, effects, TypeOK
<1>5. ASSUME NEW d \in Daemons, Forget(d)
      PROVE  /\ version' \in [Daemons -> 1..(Migrations + 1)]
             /\ registry' \in [Daemons -> [Apps -> Rows \cup {None}]]
             /\ queue' \in [Daemons -> Seq(Requests \cup {"stop"})]
             /\ work' \in [Daemons -> {"idle", "verified", "launched", "refused", "ok", "error"}]
  BY <1>5 DEF Forget, TypeOK
<1>6. ASSUME NEW d \in Daemons, startup_fails(d) \/ Crash(d)
      PROVE  TypeOK'
  <2>1. CASE startup_fails(d)
    BY <1>5, <2>1 DEF startup_fails, TypeOK
  <2>2. CASE Crash(d)
    BY <1>5, <2>2 DEF Crash, TypeOK
  <2> QED
    BY <1>6, <2>1, <2>2
<1>7. ASSUME NEW d \in Daemons, finish_daemon_session(d) \/ run_fails(d)
      PROVE  TypeOK'
  <2>1. CASE finish_daemon_session(d)
    BY <1>5, <2>1 DEF finish_daemon_session, TypeOK
  <2>2. CASE run_fails(d)
    BY <1>5, <2>2 DEF run_fails, TypeOK
  <2> QED
    BY <1>7, <2>1, <2>2
<1>8. ASSUME NEW d \in Daemons, shutdown(d)
      PROVE  TypeOK'
  BY <1>8 DEF shutdown, TypeOK
<1>9. ASSUME NEW d \in Daemons, NEW r \in Requests, accept(d, r)
      PROVE  TypeOK'
  BY <1>9 DEF accept, TypeOK
<1>10. ASSUME NEW d \in Daemons, NEW r \in Requests, upsert_registered_application(d, r)
      PROVE  TypeOK'
  <2>0. carried' \in [Requests -> Nat] /\ writer' \in [Apps -> Requests \cup {None}]
    BY <1>10, Ghosts DEF upsert_registered_application, Rejects
  <2>1. work' \in [Daemons -> {"idle", "verified", "launched", "refused", "ok", "error"}]
    <3>1. work' = [work EXCEPT ![d] = "error"] \/ work' = [work EXCEPT ![d] = "ok"]
      BY <1>10 DEF upsert_registered_application, Rejects
    <3> QED
      BY <3>1 DEF TypeOK
  <2>2. /\ table' \in [Apps -> Rows \cup {None}]
        /\ registry' \in [Daemons -> [Apps -> Rows \cup {None}]]
    <3>1. CASE UNCHANGED <<table, registry>>
      BY <3>1 DEF TypeOK
    <3>2. ASSUME NEW row \in Rows, cmd[r].app \in Apps,
                 table' = [table EXCEPT ![cmd[r].app] = row],
                 registry' = [registry EXCEPT ![d][cmd[r].app] = row]
          PROVE  /\ table' \in [Apps -> Rows \cup {None}]
                 /\ registry' \in [Daemons -> [Apps -> Rows \cup {None}]]
      BY <3>2 DEF TypeOK
    <3> QED
      BY <1>10, <3>1, <3>2, Upserted DEF RequestInv
  <2> QED
    BY <1>10, <2>0, <2>1, <2>2 DEF upsert_registered_application, TypeOK
<1>11. ASSUME NEW d \in Daemons, NEW r \in Requests, remove_registered_application(d, r)
      PROVE  TypeOK'
  <2>1. carried' \in [Requests -> Nat] /\ writer' \in [Apps -> Requests \cup {None}]
    BY <1>11, Ghosts DEF remove_registered_application, Rejects
  <2>2. work' \in [Daemons -> {"idle", "verified", "launched", "refused", "ok", "error"}]
    <3>1. work' = [work EXCEPT ![d] = "error"] \/ work' = [work EXCEPT ![d] = "ok"]
      BY <1>11 DEF remove_registered_application, Rejects
    <3> QED
      BY <3>1 DEF TypeOK
  <2>0. /\ table \in [Apps -> Rows \cup {None}]
        /\ registry \in [Daemons -> [Apps -> Rows \cup {None}]]
    BY DEF TypeOK
  <2>3. table' \in [Apps -> Rows \cup {None}]
    BY <1>11, <2>0, Removed DEF RequestInv
  <2>4. registry' \in [Daemons -> [Apps -> Rows \cup {None}]]
    BY <1>11, <2>0, Removed DEF RequestInv
  <2> QED
    BY <1>11, <2>1, <2>2, <2>3, <2>4 DEF remove_registered_application, TypeOK
<1>12. ASSUME NEW d \in Daemons, NEW r \in Requests, verify_executable(d, r)
      PROVE  TypeOK'
  <2>1. cmd[r].app \in Apps
    BY <1>12, Holder DEF verify_executable, Serving, RequestInv
  <2>2. \A p \in Paths : inspect_executable(p) \in Versions \cup {None}
    BY DEF inspect_executable, trusted, TypeOK
  <2>3. registry[d][cmd[r].app] # None => registry[d][cmd[r].app].path \in Paths
    BY <2>1 DEF TypeOK, Rows
  <2>4. basis' \in [Requests -> {None} \cup [row : Rows \cup {None}, file : Versions \cup {None}]]
    <3>1. \/ UNCHANGED basis
          \/ /\ registry[d][cmd[r].app] # None
             /\ basis' = [basis EXCEPT ![r] =
                            [row |-> table[cmd[r].app],
                             file |-> inspect_executable(registry[d][cmd[r].app].path)]]
      BY <1>12 DEF verify_executable, Observe
    <3>2. table[cmd[r].app] \in Rows \cup {None}
      BY <2>1 DEF TypeOK
    <3> QED
      <4> DEFINE seen == [row |-> table[cmd[r].app],
                          file |-> inspect_executable(registry[d][cmd[r].app].path)]
                 All == {None} \cup [row : Rows \cup {None}, file : Versions \cup {None}]
      <4>1. registry[d][cmd[r].app] # None => seen \in All
        BY <2>2, <2>3, <3>2
      <4>2. basis \in [Requests -> All]
        BY DEF TypeOK
      <4>3. basis' = basis \/ (seen \in All /\ basis' = [basis EXCEPT ![r] = seen])
        BY <3>1, <4>1
      <4> HIDE DEF seen, All
      <4>4. basis' \in [Requests -> All]
        BY <4>2, <4>3
      <4> QED
        BY <4>4 DEF All
  <2>5. work' \in [Daemons -> {"idle", "verified", "launched", "refused", "ok", "error"}]
    <3>1. work' = [work EXCEPT ![d] = "verified"] \/ work' = [work EXCEPT ![d] = "refused"]
      BY <1>12 DEF verify_executable
    <3> QED
      BY <3>1 DEF TypeOK
  <2>6. UNCHANGED <<pc, version, registry, queue, met, store, files, calls, handled, launched,
                    recorded, carried, writer>>
    BY <1>12 DEF verify_executable
  <2> QED
    BY <2>4, <2>5, <2>6 DEF TypeOK
<1>13. ASSUME NEW d \in Daemons, NEW r \in Requests, spawn(d, r)
      PROVE  TypeOK'
  <2>1. queue[d] # <<>> /\ Head(queue[d]) = r /\ work[d] = "verified"
    BY <1>13 DEF spawn, Serving
  <2>2. cmd[r].app \in Apps /\ Head1(d) = r
    BY <2>1, Holder DEF RequestInv
  <2>3. registry[d][cmd[r].app] # None
    BY <2>1, <2>2 DEF RequestInv, VerifiedInv, Verified
  <2>4. registry[d][cmd[r].app].path \in Paths
    BY <2>2, <2>3 DEF TypeOK, Rows
  <2> QED
    <3>1. disk[registry[d][cmd[r].app].path] \in Versions \cup {Untrusted}
      BY <2>4 DEF TypeOK
    <3>2. launched' \in [Requests -> Versions \cup {None, Untrusted}]
      BY <1>13, <3>1 DEF spawn, TypeOK
    <3>3. work' = [work EXCEPT ![d] = "launched"] \/ work' = [work EXCEPT ![d] = "refused"]
      BY <1>13 DEF spawn
    <3>4. carried' \in [Requests -> Nat]
      <4>1. carried \in [Requests -> Nat]
        BY DEF TypeOK
      <4>2. carried' = carried \/ carried' = [carried EXCEPT ![r] = carried[r] + 1]
        BY <1>13 DEF spawn
      <4> QED
        BY <4>1, <4>2
    <3>5. work' \in [Daemons -> {"idle", "verified", "launched", "refused", "ok", "error"}]
      BY <3>3 DEF TypeOK
    <3>6. UNCHANGED <<pc, version, registry, queue, met, store, files, calls, handled, recorded,
                      basis, writer>>
      BY <1>13 DEF spawn
    <3> QED
      BY <3>2, <3>4, <3>5, <3>6 DEF TypeOK
<1>14. ASSUME NEW d \in Daemons, NEW r \in Requests, record_execution(d, r)
      PROVE  TypeOK'
  <2>1. work' \in [Daemons -> {"idle", "verified", "launched", "refused", "ok", "error"}]
    <3>1. work' = [work EXCEPT ![d] = "error"] \/ work' = [work EXCEPT ![d] = "ok"]
      BY <1>14 DEF record_execution
    <3> QED
      BY <3>1 DEF TypeOK
  <2>2. recorded' \subseteq Requests
    BY <1>14 DEF record_execution, TypeOK
  <2>3. UNCHANGED <<pc, version, registry, queue, met, store, files, calls, handled, launched,
                    basis, carried, writer>>
    BY <1>14 DEF record_execution
  <2> QED
    BY <2>1, <2>2, <2>3 DEF TypeOK
<1>15. ASSUME NEW d \in Daemons, NEW r \in Requests, reply(d, r)
      PROVE  TypeOK'
  <2>1. queue[d] \in Seq(Requests \cup {"stop"}) /\ queue[d] # <<>>
    BY <1>15 DEF reply, TypeOK
  <2>2. Tail(queue[d]) \in Seq(Requests \cup {"stop"})
    BY <2>1, Dropped
  <2> QED
    BY <1>15, <2>2 DEF reply, TypeOK
<1>16. ASSUME NEW r \in Requests, Call(r)
      PROVE  TypeOK'
  <2>1. CASE \E c \in Commands : validate_client(r, c)
    <3>1. PICK c \in Commands : validate_client(r, c)
      BY <2>1
    <3>2. CASE socket # None /\ private
      <4>1. /\ client' = [client EXCEPT ![r] = "validated"] /\ cmd' = [cmd EXCEPT ![r] = c]
            /\ UNCHANGED <<procs, store, files, conn, effects>>
        BY <3>1, <3>2 DEF validate_client
      <4>2. cmd' \in [Requests -> Commands \cup {None}]
        BY <4>1 DEF TypeOK
      <4>3. client' \in [Requests -> {"idle", "validated", "waiting", "ok", "error", "refused",
                                     "failed", "timedout"}]
        BY <4>1 DEF TypeOK
      <4> QED
        BY <4>1, <4>2, <4>3 DEF TypeOK
    <3>3. CASE ~(socket # None /\ private)
      BY <3>1, <3>3 DEF validate_client, TypeOK
    <3> QED
      BY <3>2, <3>3
  <2>2. CASE connect(r)
    <3>1. CASE socket # None /\ pc[socket] \in Listening
      <4>1. /\ client' = [client EXCEPT ![r] = "waiting"] /\ conn' = [conn EXCEPT ![r] = socket]
            /\ UNCHANGED <<procs, store, files, cmd, effects>>
        BY <2>2, <3>1 DEF connect
      <4>2. conn' \in [Requests -> Daemons \cup {None}]
        BY <4>1 DEF TypeOK
      <4>3. client' \in [Requests -> {"idle", "validated", "waiting", "ok", "error", "refused",
                                     "failed", "timedout"}]
        BY <4>1 DEF TypeOK
      <4> QED
        BY <4>1, <4>2, <4>3 DEF TypeOK
    <3>2. CASE ~(socket # None /\ pc[socket] \in Listening)
      BY <2>2, <3>2 DEF connect, TypeOK
    <3> QED
      BY <3>1, <3>2
  <2>3. CASE client_times_out(r) \/ client_disconnected(r)
    <3>1. \/ client' = [client EXCEPT ![r] = "timedout"]
          \/ client' = [client EXCEPT ![r] = "failed"]
      BY <2>3 DEF client_times_out, client_disconnected
    <3>2. client' \in [Requests -> {"idle", "validated", "waiting", "ok", "error", "refused",
                                   "failed", "timedout"}]
      BY <3>1 DEF TypeOK
    <3>3. UNCHANGED <<procs, store, files, cmd, conn, effects>>
      BY <2>3 DEF client_times_out, client_disconnected
    <3> QED
      BY <3>2, <3>3 DEF TypeOK
  <2> QED
    BY <1>16, <2>1, <2>2, <2>3 DEF Call
<1>17. ASSUME NEW p \in Paths, NEW v \in Versions \cup {Untrusted}, Replace(p, v)
      PROVE  TypeOK'
  BY <1>17 DEF Replace, TypeOK
<1> QED
  BY <1>1, <1>2, <1>3, <1>4, <1>6, <1>7, <1>8, <1>9, <1>10, <1>11, <1>12, <1>13, <1>14, <1>15,
     <1>16, <1>17 DEF Next, Startup, Serve

-----------------------------------------------------------------------------
(* The theorems.                                                             *)

LEMMA DaemonInit ==
    ASSUME Init
    PROVE  DaemonInv
<1> USE DaemonAssumption DEF Init
<1>1. TypeOK
  <2>1. queue \in [Daemons -> Seq(Requests \cup {"stop"})]
    OBVIOUS
  <2>2. disk \in [Paths -> Versions \cup {Untrusted}]
    OBVIOUS
  <2>3. version \in [Daemons -> 1..(Migrations + 1)]
    OBVIOUS
  <2>4. /\ basis \in [Requests -> {None} \cup [row : Rows \cup {None}, file : Versions \cup {None}]]
        /\ launched \in [Requests -> Versions \cup {None, Untrusted}]
        /\ cmd \in [Requests -> Commands \cup {None}] /\ conn \in [Requests -> Daemons \cup {None}]
    OBVIOUS
  <2>5. /\ registry \in [Daemons -> [Apps -> Rows \cup {None}]]
        /\ table \in [Apps -> Rows \cup {None}]
    OBVIOUS
  <2>6. swaps \in 0..MaxSwaps /\ applied \in [1..Migrations -> Nat]
    OBVIOUS
  <2>7. pc \in [Daemons -> Live \cup {"off", "exited", "failed", "dead"}]
    OBVIOUS
  <2>8. carried \in [Requests -> Nat] /\ writer \in [Apps -> Requests \cup {None}]
    OBVIOUS
  <2> QED
    BY <2>1, <2>2, <2>3, <2>4, <2>5, <2>6, <2>7, <2>8 DEF TypeOK
<1>2. \A d \in Daemons : pc[d] = "off" /\ queue[d] = <<>> /\ Len(queue[d]) = 0 /\ work[d] = "idle"
  OBVIOUS
<1>3. MetInv /\ SocketInv /\ OneOpenSession /\ TableInv /\ RegistryInv
  BY DEF MetInv, SocketInv, OneOpenSession, TableInv, RegistryInv, Live, Starting, Loaded
<1>4. SchemaInv
  BY DEF SchemaInv, Loaded
<1>5. QueueInv /\ WorkInv /\ BehindInv /\ VerifiedInv
  BY <1>2 DEF QueueInv, WorkInv, BehindInv, VerifiedInv
<1>6. CallInv /\ LaunchedIsRegistered /\ LaunchIsRecorded
  BY DEF CallInv, Untouched, LaunchedIsRegistered, LaunchIsRecorded
<1>7. RunsAtMostOnce /\ RepliesAreTrue /\ RowsAreExplained
  BY DEF RunsAtMostOnce, RepliesAreTrue, RowsAreExplained
<1> QED
  BY <1>1, <1>3, <1>4, <1>5, <1>6, <1>7 DEF DaemonInv

LEMMA DaemonStep ==
    ASSUME DaemonInv, [Next]_vars
    PROVE  DaemonInv'
<1>1. CASE Next
  <2>1. RequestInv
    BY DEF DaemonInv, RequestInv
  <2>2. RequestInv' /\ TypeOK'
    BY <1>1, <2>1, RequestStep, TypeStep DEF DaemonInv
  <2>3. MetInv' /\ SchemaInv' /\ SocketInv' /\ OneOpenSession'
    BY <1>1, MetStep, SchemaStep, SocketStep, SessionStep DEF DaemonInv
  <2>4. TableInv' /\ RegistryInv'
    BY <1>1, TableStep, RegistryStep DEF DaemonInv
  <2>5. RowsAreExplained'
    BY <1>1, <2>1, RowsStep DEF DaemonInv
  <2> QED
    BY <2>2, <2>3, <2>4, <2>5 DEF DaemonInv, RequestInv
<1>2. CASE UNCHANGED vars
  <2> USE <1>2 DEF vars, procs, store, files, calls, effects, DaemonInv, Lone, Head1
  <2>1. TypeOK'
    BY DEF TypeOK
  <2>2. MetInv' /\ SchemaInv' /\ SocketInv' /\ OneOpenSession'
    BY DEF MetInv, SchemaInv, SocketInv, OneOpenSession
  <2>3. TableInv' /\ RegistryInv' /\ QueueInv' /\ CallInv'
    BY DEF TableInv, RegistryInv, QueueInv, CallInv, Untouched
  <2>4. WorkInv' /\ BehindInv' /\ VerifiedInv'
    BY DEF WorkInv, AtWork, Untouched, BehindInv, VerifiedInv, Verified
  <2>5. LaunchedIsRegistered' /\ LaunchIsRecorded'
    BY DEF LaunchedIsRegistered, LaunchIsRecorded
  <2>6. RunsAtMostOnce' /\ RepliesAreTrue' /\ RowsAreExplained'
    BY DEF RunsAtMostOnce, RepliesAreTrue, RowsAreExplained
  <2> QED
    BY <2>1, <2>2, <2>3, <2>4, <2>5, <2>6
<1> QED
  BY <1>1, <1>2

\* DaemonInv is inductive: it holds in every state daemons, clients and whoever
\* replaces files can bring about.
THEOREM DaemonInvariant == Spec => []DaemonInv
  BY DaemonInit, DaemonStep, PTL DEF Spec

\* Every variable keeps its type, the waiters of the service mutex and what was
\* observed of an executable included.
THEOREM TypeCorrect == Spec => []TypeOK
<1>1. DaemonInv => TypeOK
  BY DEF DaemonInv
<1> QED
  BY <1>1, DaemonInvariant, PTL

\* However many daemons start, fail and crash, and whenever: the schema is
\* migrated once and in order, one session is open, and a daemon that nobody
\* overlapped is reachable and private (ipc.rs:66-101, sqlite.rs:476-511).
THEOREM StartsAreAlwaysSound == Spec => []StartsAreSound
<1>1. DaemonInv => StartsAreSound
  <2> SUFFICES ASSUME DaemonInv PROVE StartsAreSound
    OBVIOUS
  <2> USE DaemonAssumption DEF DaemonInv
  <2>1. \A m \in 1..Migrations : applied[m] <= 1 /\ (m > 1 /\ applied[m] = 1 => applied[m - 1] = 1)
    BY DEF SchemaInv
  <2>2. SchemaIsSound
    BY <2>1 DEF SchemaInv, SchemaIsSound
  <2>3. ReadyIsReachable
    <3> SUFFICES ASSUME NEW d \in Daemons, pc[d] = "ready", Lone(d)
                 PROVE  /\ socket = d /\ private /\ session[d] = "open"
                        /\ \A m \in 1..Migrations : applied[m] = 1
      BY DEF ReadyIsReachable
    <3>1. socket = d /\ private /\ session[d] = "open"
      BY DEF SocketInv, Loaded, Listening, Working
    <3>2. version[d] = Migrations + 1
      BY DEF SchemaInv, Loaded
    <3>3. \A m \in 1..Migrations : m < version[d]
      BY <3>2
    <3> QED
      BY <3>1, <3>3 DEF SchemaInv
  <2> QED
    BY <2>2, <2>3 DEF StartsAreSound
<1> QED
  BY <1>1, DaemonInvariant, PTL

\* A lone daemon decides by the applications that are registered, those that the
\* startup limit kept out excepted (security_service.rs:311-365).
THEOREM RegistryAlwaysAgrees == Spec => []RegistryAgrees
<1>1. DaemonInv => RegistryAgrees
  BY DEF DaemonInv, RegistryInv, RegistryAgrees, Loaded
<1> QED
  BY <1>1, DaemonInvariant, PTL

\* What a lone daemon starts is what was registered unless the file was replaced
\* under it, and what any daemon starts is on record or not reported as a success
\* (executor.rs:90-126, service.rs:544-575).
THEOREM LaunchesAreAlwaysSound == Spec => []LaunchesAreSound
<1>1. DaemonInv => LaunchesAreSound
  BY DEF DaemonInv, LaunchesAreSound
<1> QED
  BY <1>1, DaemonInvariant, PTL

\* However clients time out, are cut off and repeat their commands: every call takes
\* effect at most once, an answer says whether it did and ends it, and what is
\* registered is what the last command that took effect asked for (client.rs:55-82,
\* security_service.rs:311-365).
THEOREM AnswersAreAlwaysTrue == Spec => []AnswersAreTrue
<1>1. DaemonInv => AnswersAreTrue
  BY DEF DaemonInv, AnswersAreTrue
<1> QED
  BY <1>1, DaemonInvariant, PTL
=============================================================================
