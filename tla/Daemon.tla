------------------------------- MODULE Daemon -------------------------------
(* The daemon process and what it shares with others: the database file, the *)
(* runtime socket, the registered applications and their executables.        *)
(*                                                                           *)
(* Every member of Daemons is one process (apps/daemon/src/ipc.rs): it       *)
(* starts once, serves, and stops, fails or crashes; a restart is another    *)
(* member.  Two of them may be alive together.  Every member of Requests is  *)
(* one call of DaemonClient (crates/protocol/src/client.rs); a retry is      *)
(* another member with the same command.  The policy path in front of the    *)
(* executor is Authority's matter; here every open command is authorized.    *)
EXTENDS Naturals, Sequences, FiniteSets

CONSTANTS
    Daemons, Requests, Apps, Paths,
    Versions,       \* contents an executable file may have
    Untrusted,      \* a file inspect_executable refuses, or none at all
    None,
    Migrations,     \* the number of schema migrations
    Limit,          \* how many applications are loaded at startup (200)
    MaxSwaps        \* bound: times an executable file is replaced

Rows == [path : Paths, version : Versions, enabled : BOOLEAN]
Commands == [op : {"upsert"}, app : Apps, path : Paths, enabled : BOOLEAN]
            \cup [op : {"remove", "open"}, app : Apps]

\* "stop" is the place of the main task in the queue of the service mutex.
ASSUME DaemonAssumption ==
    /\ Migrations \in Nat \ {0} /\ Limit \in Nat /\ MaxSwaps \in Nat
    /\ Untrusted \notin Versions
    /\ None \notin Versions \cup Daemons \cup Rows \cup Requests \cup {Untrusted}
    /\ "stop" \notin Requests
    /\ IsFiniteSet(Apps) /\ IsFiniteSet(Paths)

Starting == {"migrating", "applying", "loading", "session", "prepared", "bound"}
Live == Starting \cup {"ready", "stopping"}
Listening == {"bound", "ready", "stopping"}

VARIABLES
    pc,             \* [Daemons -> where its run() is]
    version,        \* [Daemons -> the next migration it looks at]
    registry,       \* [Daemons -> [Apps -> row or None]]: the in-memory registry
    queue,          \* [Daemons -> waiters on the service mutex; the head holds it]
    work,           \* [Daemons -> how far the head has come]
    applied,        \* [1..Migrations -> how often it was applied]
    session,        \* [Daemons -> its daemon_sessions row: none, open, ended]
    table,          \* [Apps -> row or None]: registered_applications
    socket,         \* the daemon whose socket the runtime path names, or None
    private,        \* the path's mode is 0600
    disk,           \* [Paths -> what the file is]
    client,         \* [Requests -> where the call is]
    cmd,            \* [Requests -> its command, or None]
    conn,           \* [Requests -> the daemon it reached, or None]
    handled,        \* requests whose connection a daemon accepted
    launched,       \* [Requests -> the version it started, or None]
    recorded,       \* requests with an executions row
    basis,          \* ghost: [Requests -> table row and file when verified, or None]
    carried,        \* ghost: [Requests -> how often its command took effect]
    writer,         \* ghost: [Apps -> the call that wrote or removed its row last, or None]
    met,            \* ghost: daemons that were alive together with another
    swaps           \* bound: replacements so far

procs == <<pc, version, registry, queue, work, met>>
store == <<applied, session, table>>
files == <<socket, private, disk, swaps>>
calls == <<client, cmd, conn>>
effects == <<handled, launched, recorded, basis, carried, writer>>
vars == <<procs, store, files, calls, effects>>

TypeOK ==
    /\ pc \in [Daemons -> Live \cup {"off", "exited", "failed", "dead"}]
    /\ version \in [Daemons -> 1..(Migrations + 1)]
    /\ registry \in [Daemons -> [Apps -> Rows \cup {None}]]
    /\ queue \in [Daemons -> Seq(Requests \cup {"stop"})]
    /\ work \in [Daemons -> {"idle", "verified", "launched", "refused", "ok", "error"}]
    /\ applied \in [1..Migrations -> Nat]
    /\ session \in [Daemons -> {"none", "open", "ended"}]
    /\ table \in [Apps -> Rows \cup {None}]
    /\ socket \in Daemons \cup {None} /\ private \in BOOLEAN
    /\ disk \in [Paths -> Versions \cup {Untrusted}]
    /\ client \in [Requests -> {"idle", "validated", "waiting", "ok", "error",
                                "refused", "failed", "timedout"}]
    /\ cmd \in [Requests -> Commands \cup {None}] /\ conn \in [Requests -> Daemons \cup {None}]
    /\ handled \subseteq Requests /\ recorded \subseteq Requests
    /\ launched \in [Requests -> Versions \cup {None, Untrusted}]
    /\ basis \in [Requests -> {None} \cup [row : Rows \cup {None}, file : Versions \cup {None}]]
    /\ carried \in [Requests -> Nat] /\ writer \in [Apps -> Requests \cup {None}]
    /\ met \subseteq Daemons /\ swaps \in 0..MaxSwaps

\* No database, a runtime directory without a socket, trusted executables.
Init ==
    /\ pc = [d \in Daemons |-> "off"] /\ version = [d \in Daemons |-> 1]
    /\ registry = [d \in Daemons |-> [a \in Apps |-> None]]
    /\ queue = [d \in Daemons |-> <<>>] /\ work = [d \in Daemons |-> "idle"]
    /\ applied = [m \in 1..Migrations |-> 0]
    /\ session = [d \in Daemons |-> "none"] /\ table = [a \in Apps |-> None]
    /\ socket = None /\ private = FALSE /\ swaps = 0
    /\ disk \in [Paths -> Versions]
    /\ client = [r \in Requests |-> "idle"] /\ cmd = [r \in Requests |-> None]
    /\ conn = [r \in Requests |-> None]
    /\ handled = {} /\ recorded = {} /\ met = {}
    /\ launched = [r \in Requests |-> None] /\ basis = [r \in Requests |-> None]
    /\ carried = [r \in Requests |-> 0] /\ writer = [a \in Apps |-> None]

-----------------------------------------------------------------------------
(* Startup: ipc::run up to its loop.                                         *)

Go(d, from, to) == pc[d] = from /\ pc' = [pc EXCEPT ![d] = to]

\* DataPaths::prepare and Database::open up to the migrations.
open(d) ==
    /\ Go(d, "off", "migrating")
    /\ met' = LET others == {e \in Daemons : pc[e] \in Live}
              IN  IF others = {} THEN met ELSE met \cup others \cup {d}
    /\ UNCHANGED <<version, registry, queue, work, store, files, calls, effects>>

\* The "applied?" query of apply_migrations, outside the transaction.
migration_applied(d) ==
    /\ pc[d] = "migrating"
    /\ IF version[d] > Migrations
       THEN pc' = [pc EXCEPT ![d] = "loading"] /\ UNCHANGED version
       ELSE IF applied[version[d]] > 0
       THEN version' = [version EXCEPT ![d] = @ + 1] /\ UNCHANGED pc
       ELSE pc' = [pc EXCEPT ![d] = "applying"] /\ UNCHANGED version
    /\ UNCHANGED <<registry, queue, work, met, store, files, calls, effects>>

\* Mutant: the statements tolerate a schema that has them already.
apply_migration_Again(d) ==
    /\ Go(d, "applying", "migrating")
    /\ applied' = [applied EXCEPT ![version[d]] = @ + 1]
    /\ version' = [version EXCEPT ![d] = @ + 1]
    /\ UNCHANGED <<registry, queue, work, met, session, table, files, calls, effects>>

\* The transaction: its statements fail on a schema that has them already.
apply_migration(d) ==
    /\ Go(d, "applying", "migrating") /\ applied[version[d]] = 0
    /\ applied' = [applied EXCEPT ![version[d]] = @ + 1]
    /\ version' = [version EXCEPT ![d] = @ + 1]
    /\ UNCHANGED <<registry, queue, work, met, session, table, files, calls, effects>>

\* list_registered_applications: all of them, or as many as the limit allows.
list_registered_applications ==
    LET present == {a \in Apps : table[a] # None}
    IN  {some \in SUBSET present : Cardinality(some) = IF Cardinality(present) <= Limit
                                                      THEN Cardinality(present) ELSE Limit}

\* The registry is filled; then every session still open is ended and this one
\* begins, in one transaction.
begin_daemon_session(d) ==
    /\ Go(d, "loading", "session")
    /\ \E some \in list_registered_applications :
          registry' = [registry EXCEPT ![d] =
                         [a \in Apps |-> IF a \in some THEN table[a] ELSE None]]
    /\ session' = [e \in Daemons |-> IF e = d THEN "open"
                                     ELSE IF session[e] = "open" THEN "ended" ELSE session[e]]
    /\ UNCHANGED <<version, queue, work, met, applied, table, files, calls, effects>>

\* A socket found at the path is removed, whoever listens on it.
prepare_server(d) ==
    /\ Go(d, "session", "prepared")
    /\ socket' = None /\ private' = FALSE
    /\ UNCHANGED <<version, registry, queue, work, met, store, disk, swaps, calls, effects>>

\* UnixListener::bind needs a free path.
bind(d) ==
    /\ Go(d, "prepared", "bound") /\ socket = None
    /\ socket' = d /\ private' = FALSE
    /\ UNCHANGED <<version, registry, queue, work, met, store, disk, swaps, calls, effects>>

secure_bound_socket(d) ==
    /\ Go(d, "bound", "ready") /\ socket # None
    /\ private' = TRUE
    /\ UNCHANGED <<version, registry, queue, work, met, store, socket, disk, swaps, calls, effects>>

\* The memory of a process that ends.
Forget(d) ==
    /\ registry' = [registry EXCEPT ![d] = [a \in Apps |-> None]]
    /\ version' = [version EXCEPT ![d] = 1]
    /\ queue' = [queue EXCEPT ![d] = <<>>] /\ work' = [work EXCEPT ![d] = "idle"]

\* Any step may fail; what the earlier ones did stays, the socket included:
\* the guard that removes it comes last.
startup_fails(d) ==
    /\ pc[d] \in Starting
    /\ pc' = [pc EXCEPT ![d] = "failed"]
    /\ Forget(d)
    /\ UNCHANGED <<met, store, files, calls, effects>>

Crash(d) ==
    /\ pc[d] \in Live
    /\ pc' = [pc EXCEPT ![d] = "dead"]
    /\ Forget(d)
    /\ UNCHANGED <<met, store, files, calls, effects>>

-----------------------------------------------------------------------------
(* DaemonClient::request_with_id.                                            *)

validate_client(r, c) ==
    /\ client[r] = "idle"
    /\ IF socket # None /\ private
       THEN client' = [client EXCEPT ![r] = "validated"] /\ cmd' = [cmd EXCEPT ![r] = c]
       ELSE client' = [client EXCEPT ![r] = "refused"] /\ UNCHANGED cmd
    /\ UNCHANGED <<procs, store, files, conn, effects>>

\* Connects to whatever the path names by now, and writes the request.
connect(r) ==
    /\ client[r] = "validated"
    /\ IF socket # None /\ pc[socket] \in Listening
       THEN /\ client' = [client EXCEPT ![r] = "waiting"]
            /\ conn' = [conn EXCEPT ![r] = socket]
       ELSE client' = [client EXCEPT ![r] = "failed"] /\ UNCHANGED conn
    /\ UNCHANGED <<procs, store, files, cmd, effects>>

\* Five seconds without an answer; the daemon is not told.
client_times_out(r) ==
    /\ client[r] = "waiting"
    /\ client' = [client EXCEPT ![r] = "timedout"]
    /\ UNCHANGED <<procs, store, files, cmd, conn, effects>>

client_disconnected(r) ==
    /\ client[r] = "waiting" /\ pc[conn[r]] \notin Live
    /\ client' = [client EXCEPT ![r] = "failed"]
    /\ UNCHANGED <<procs, store, files, cmd, conn, effects>>

-----------------------------------------------------------------------------
(* The serving loop.  The service mutex is fair: waiters get it in order.    *)

\* A connection is accepted, read and queued, its client still there or not.
accept(d, r) ==
    /\ pc[d] = "ready" /\ conn[r] = d /\ r \notin handled
    /\ handled' = handled \cup {r}
    /\ queue' = [queue EXCEPT ![d] = Append(@, r)]
    /\ UNCHANGED <<pc, version, registry, work, met, store, files, calls>>
    /\ UNCHANGED <<launched, recorded, basis, carried, writer>>

Serving(d, r, op) ==
    /\ queue[d] # <<>> /\ Head(queue[d]) = r /\ r # "stop"
    /\ cmd[r].op = op

\* No symbolic link on the way, trusted owners, nothing others may write.
trusted(p) == disk[p] # Untrusted

\* inspect_executable: the identity of a file that passes, or None.
inspect_executable(p) == IF trusted(p) THEN disk[p] ELSE None

\* Another application holds the executable (UNIQUE).
Taken(a, p) == \E b \in Apps \ {a} : table[b] # None /\ table[b].path = p

\* Ghost: the command of this call has taken effect on its application.
CarryOut(r) ==
    /\ carried' = [carried EXCEPT ![r] = @ + 1]
    /\ writer' = [writer EXCEPT ![cmd[r].app] = r]

\* The handler ends with an error and has changed nothing.
Rejects(d) ==
    /\ work' = [work EXCEPT ![d] = "error"]
    /\ UNCHANGED <<table, registry, carried, writer>>

\* Mutant: the registry first, and the table's refusal does not undo it.
upsert_registered_application_RegistryFirst(d, r) ==
    /\ Serving(d, r, "upsert") /\ work[d] = "idle"
    /\ LET c == cmd[r]
           row == [path |-> c.path, version |-> inspect_executable(c.path), enabled |-> c.enabled]
       IN  /\ row.version # None
           /\ registry' = [registry EXCEPT ![d][c.app] = row]
           /\ IF Taken(c.app, c.path)
              THEN work' = [work EXCEPT ![d] = "error"] /\ UNCHANGED <<table, carried, writer>>
              ELSE /\ work' = [work EXCEPT ![d] = "ok"]
                   /\ table' = [table EXCEPT ![c.app] = row]
                   /\ CarryOut(r)
    /\ UNCHANGED <<pc, version, queue, met, applied, session, files, calls>>
    /\ UNCHANGED <<handled, launched, recorded, basis>>

\* The table first, the registry next, both under the write lock; the table may
\* also refuse because the storage fails.
upsert_registered_application(d, r) ==
    /\ Serving(d, r, "upsert") /\ work[d] = "idle"
    /\ LET c == cmd[r]
           row == [path |-> c.path, version |-> inspect_executable(c.path), enabled |-> c.enabled]
       IN  \/ Rejects(d)
           \/ /\ row.version # None /\ ~Taken(c.app, c.path)
              /\ work' = [work EXCEPT ![d] = "ok"]
              /\ table' = [table EXCEPT ![c.app] = row]
              /\ registry' = [registry EXCEPT ![d][c.app] = row]
              /\ CarryOut(r)
    /\ UNCHANGED <<pc, version, queue, met, applied, session, files, calls>>
    /\ UNCHANGED <<handled, launched, recorded, basis>>

\* The registry forgets the application only when the table knew it; the storage
\* may fail before either does.
remove_registered_application(d, r) ==
    /\ Serving(d, r, "remove") /\ work[d] = "idle"
    /\ \/ Rejects(d)
       \/ /\ work' = [work EXCEPT ![d] = "ok"]
          /\ table' = [table EXCEPT ![cmd[r].app] = None]
          /\ registry' = IF table[cmd[r].app] # None
                         THEN [registry EXCEPT ![d][cmd[r].app] = None] ELSE registry
          /\ CarryOut(r)
    /\ UNCHANGED <<pc, version, queue, met, applied, session, files, calls>>
    /\ UNCHANGED <<handled, launched, recorded, basis>>

\* Ghost: what the table and the file say when the executor has verified.
Observe(r, p) ==
    basis' = [basis EXCEPT ![r] = [row |-> table[cmd[r].app], file |-> inspect_executable(p)]]

\* Mutant: the identity kept at registration is not compared.
verify_executable_Uncompared(d, r) ==
    /\ Serving(d, r, "open") /\ work[d] = "idle"
    /\ LET row == registry[d][cmd[r].app]
       IN  IF row # None /\ row.enabled
           THEN work' = [work EXCEPT ![d] = "verified"] /\ Observe(r, row.path)
           ELSE work' = [work EXCEPT ![d] = "refused"] /\ UNCHANGED basis
    /\ UNCHANGED <<pc, version, registry, queue, met, store, files, calls>>
    /\ UNCHANGED <<handled, launched, recorded, carried, writer>>

\* RealLinuxExecutor::execute up to the spawn: the registered, enabled
\* application, and its executable unchanged.
verify_executable(d, r) ==
    /\ Serving(d, r, "open") /\ work[d] = "idle"
    /\ LET row == registry[d][cmd[r].app]
       IN  IF row # None /\ row.enabled /\ inspect_executable(row.path) = row.version
           THEN work' = [work EXCEPT ![d] = "verified"] /\ Observe(r, row.path)
           ELSE work' = [work EXCEPT ![d] = "refused"] /\ UNCHANGED basis
    /\ UNCHANGED <<pc, version, registry, queue, met, store, files, calls>>
    /\ UNCHANGED <<handled, launched, recorded, carried, writer>>

\* The spawn runs what the path names at that moment, or fails.
spawn(d, r) ==
    /\ Serving(d, r, "open") /\ work[d] = "verified"
    /\ \/ /\ work' = [work EXCEPT ![d] = "launched"]
          /\ launched' = [launched EXCEPT ![r] = disk[registry[d][cmd[r].app].path]]
          /\ carried' = [carried EXCEPT ![r] = @ + 1]
       \/ work' = [work EXCEPT ![d] = "refused"] /\ UNCHANGED <<launched, carried>>
    /\ UNCHANGED <<pc, version, registry, queue, met, store, files, calls>>
    /\ UNCHANGED <<handled, recorded, basis, writer>>

\* The receipt is written; a storage error is answered and the launch stands.
record_execution(d, r) ==
    /\ Serving(d, r, "open") /\ work[d] \in {"launched", "refused"}
    /\ \/ /\ recorded' = recorded \cup {r}
          /\ work' = [work EXCEPT ![d] = IF work[d] = "launched" THEN "ok" ELSE "error"]
       \/ work' = [work EXCEPT ![d] = "error"] /\ UNCHANGED recorded
    /\ UNCHANGED <<pc, version, registry, queue, met, store, files, calls>>
    /\ UNCHANGED <<handled, launched, basis, carried, writer>>

\* Mutant: a request whose answer found nobody is served again.
reply_ServingAgain(d, r) ==
    /\ queue[d] # <<>> /\ Head(queue[d]) = r /\ work[d] \in {"ok", "error"}
    /\ client' = IF client[r] = "waiting" THEN [client EXCEPT ![r] = work[d]] ELSE client
    /\ queue' = IF client[r] = "waiting" THEN [queue EXCEPT ![d] = Tail(@)] ELSE queue
    /\ work' = [work EXCEPT ![d] = "idle"]
    /\ UNCHANGED <<pc, version, registry, met, store, files, cmd, conn, effects>>

\* The answer reaches a client that still waits; the mutex passes on.
reply(d, r) ==
    /\ queue[d] # <<>> /\ Head(queue[d]) = r /\ work[d] \in {"ok", "error"}
    /\ client' = IF client[r] = "waiting" THEN [client EXCEPT ![r] = work[d]] ELSE client
    /\ queue' = [queue EXCEPT ![d] = Tail(@)] /\ work' = [work EXCEPT ![d] = "idle"]
    /\ UNCHANGED <<pc, version, registry, met, store, files, cmd, conn, effects>>

\* Ctrl-C leaves the loop and waits for the mutex.
shutdown(d) ==
    /\ Go(d, "ready", "stopping")
    /\ queue' = [queue EXCEPT ![d] = Append(@, "stop")]
    /\ UNCHANGED <<version, registry, work, met, store, files, calls, effects>>

\* The session ends by its id, the guard removes the socket at the path, and
\* the process goes away with the connections that were not served.
finish_daemon_session(d) ==
    /\ pc[d] = "stopping" /\ queue[d] # <<>> /\ Head(queue[d]) = "stop"
    /\ pc' = [pc EXCEPT ![d] = "exited"]
    /\ session' = [session EXCEPT ![d] = "ended"]
    /\ socket' = None /\ private' = FALSE
    /\ Forget(d)
    /\ UNCHANGED <<met, applied, table, disk, swaps, calls, effects>>

\* accept() or the end of the session fails: run returns the error, and the
\* guard removes the socket all the same.
run_fails(d) ==
    /\ \/ pc[d] = "ready"
       \/ pc[d] = "stopping" /\ queue[d] # <<>> /\ Head(queue[d]) = "stop"
    /\ pc' = [pc EXCEPT ![d] = "failed"]
    /\ socket' = None /\ private' = FALSE
    /\ Forget(d)
    /\ UNCHANGED <<met, store, disk, swaps, calls, effects>>

\* Somebody replaces an executable.
Replace(p, v) ==
    /\ swaps < MaxSwaps /\ disk[p] # v
    /\ swaps' = swaps + 1
    /\ disk' = [disk EXCEPT ![p] = v]
    /\ UNCHANGED <<procs, store, socket, private, calls, effects>>

-----------------------------------------------------------------------------
Startup(d) ==
    \/ open(d) \/ migration_applied(d) \/ apply_migration(d)
    \/ begin_daemon_session(d) \/ prepare_server(d) \/ bind(d) \/ secure_bound_socket(d)
    \/ startup_fails(d)

Serve(d, r) ==
    \/ upsert_registered_application(d, r) \/ remove_registered_application(d, r)
    \/ verify_executable(d, r) \/ spawn(d, r) \/ record_execution(d, r) \/ reply(d, r)

Call(r) ==
    \/ \E c \in Commands : validate_client(r, c)
    \/ connect(r) \/ client_times_out(r) \/ client_disconnected(r)

Next ==
    \/ \E d \in Daemons : Startup(d) \/ Crash(d) \/ shutdown(d)
                            \/ finish_daemon_session(d) \/ run_fails(d)
    \/ \E d \in Daemons, r \in Requests : accept(d, r) \/ Serve(d, r)
    \/ \E r \in Requests : Call(r)
    \/ \E p \in Paths, v \in Versions \cup {Untrusted} : Replace(p, v)

Spec == Init /\ [][Next]_vars

-----------------------------------------------------------------------------
(* Properties.                                                               *)

Lone(d) == d \notin met

\* After any crash or failed start, a daemon that nobody overlapped serves on
\* the runtime path, privately, with its session open and the schema complete
\* (ipc.rs:66-101).
ReadyIsReachable ==
    \A d \in Daemons : pc[d] = "ready" /\ Lone(d) =>
        /\ socket = d /\ private /\ session[d] = "open"
        /\ \A m \in 1..Migrations : applied[m] = 1

\* At most one daemon session is open, crashes and concurrent starts included
\* (runtime.rs:89-120): session grants name one daemon.
OneOpenSession ==
    \A d, e \in Daemons : session[d] = "open" /\ session[e] = "open" => d = e

\* However starts interleave and fail, no migration is applied twice, none
\* before its predecessor, and nobody works on an incomplete schema
\* (sqlite.rs:476-511).
SchemaIsSound ==
    /\ \A m \in 1..Migrations : applied[m] <= 1 /\ (m > 1 /\ applied[m] = 1 => applied[m - 1] = 1)
    /\ \A d \in Daemons : session[d] # "none" => applied[Migrations] = 1

\* The registry a lone daemon decides by is the table, except for what the
\* limit kept out at startup (security_service.rs:311-365).
RegistryAgrees ==
    \A d \in Daemons, a \in Apps :
        pc[d] \in {"ready", "stopping"} /\ Lone(d) =>
            \/ registry[d][a] = table[a]
            \/ registry[d][a] = None /\ Cardinality(Paths) > Limit

\* What a lone daemon starts was registered, enabled, and the very file that
\* was registered, while the request was being served (executor.rs:90-126).
LaunchedIsRegistered ==
    \A r \in Requests : launched[r] # None /\ Lone(conn[r]) =>
        /\ basis[r].row # None /\ basis[r].row.enabled
        /\ basis[r].row.version = basis[r].file
        /\ launched[r] # basis[r].file => swaps > 0

\* An application that was started has its record, unless its request is in
\* progress, the daemon is gone, or the client was not told of success: an
\* error, or a timeout of its own (service.rs:573-575).
LaunchIsRecorded ==
    \A r \in Requests : launched[r] # None /\ r \notin recorded =>
        \/ pc[conn[r]] \notin Live
        \/ queue[conn[r]] # <<>> /\ Head(queue[conn[r]]) = r
        \/ client[r] \in {"error", "timedout"}

\* A command takes effect at most once, its client served, timed out or cut off,
\* and never when the call did not reach a daemon (client.rs:55-82, ipc.rs:143).
RunsAtMostOnce ==
    \A r \in Requests : carried[r] <= 1 /\ (conn[r] = None => carried[r] = 0)

\* Success means that the command took effect, a launch on record; an error means
\* that it did not, but for a launch whose record could not be written.  Either
\* answer is final: with RunsAtMostOnce nothing of the call happens after it
\* (service.rs:544-575, security_service.rs:311-365).
RepliesAreTrue ==
    \A r \in Requests :
        /\ client[r] = "ok" => carried[r] = 1 /\ (cmd[r].op = "open" => r \in recorded)
        /\ client[r] = "error" /\ carried[r] = 1 => cmd[r].op = "open" /\ r \notin recorded

\* Every registration is what its last writer asked for, a call that may have
\* timed out, and an application somebody wrote has one: an acknowledged
\* registration stands until another call on the application takes effect
\* (security_service.rs:311-365).
RowsAreExplained ==
    /\ \A r \in Requests : carried[r] = 1 /\ cmd[r].op # "open" => writer[cmd[r].app] # None
    /\ \A a \in Apps :
          IF writer[a] = None THEN table[a] = None
          ELSE LET c == cmd[writer[a]]
               IN  /\ carried[writer[a]] = 1 /\ c.app = a
                   /\ \/ c.op = "remove" /\ table[a] = None
                      \/ /\ c.op = "upsert" /\ table[a] # None
                         /\ table[a].path = c.path /\ table[a].enabled = c.enabled

\* What a client is told, or is left to guess after a timeout, agrees with what
\* the daemon did, and so does what later calls find (client.rs:55-82).
AnswersAreTrue == RunsAtMostOnce /\ RepliesAreTrue /\ RowsAreExplained

\* Starts, alone or racing each other, end in a reachable daemon, one open
\* session and a sound schema (ipc.rs:66-101).
StartsAreSound == ReadyIsReachable /\ OneOpenSession /\ SchemaIsSound

\* What was started is what was registered, and is on record (service.rs:544-575).
LaunchesAreSound == LaunchedIsRegistered /\ LaunchIsRecorded
=============================================================================
