----------------------------- MODULE ChatServer -----------------------------
(***************************************************************************)
(* The IPC server of apps/daemon/src/ipc.rs and the wait for the provider   *)
(* in interaction_service.rs ai_fallback.                                   *)
(*                                                                          *)
(* Every connection is a task that carries one request.  Handlers take the  *)
(* one service mutex, which tokio hands out in the order of asking; a       *)
(* CancelChat request goes round it, through the registry of cancellation   *)
(* senders.  A chat's receiver lives until its handler returns; the         *)
(* registry entry is removed by request id, later.                          *)
(***************************************************************************)
EXTENDS Naturals, Sequences, FiniteSets

CONSTANTS
    Slots,     \* connections open at the same time (a bound)
    Ids,       \* request identifiers
    Kinds,     \* requests clients send: chat, other
    ReuseIds,  \* whether a client sends a request under an id still in use
    Main       \* the accept loop, which asks for the mutex to shut down

ASSUME ServerAssumption ==
    /\ Kinds \subseteq {"chat", "other"}
    /\ ReuseIds \in BOOLEAN
    /\ Main \notin Slots

VARIABLES
    conn,      \* per slot: the connection's task and what became of its request
    registry,  \* CancellationRegistry: request id -> slot whose sender it holds
    queue,     \* tasks waiting for the service mutex, first come first
    holder,    \* the task holding it, if any
    mode       \* serving, stopping (Ctrl-C seen) or down

vars == <<conn, registry, queue, holder, mode>>

-----------------------------------------------------------------------------
Stages == {"free", "accepted", "registered", "queued", "handling", "calling",
           "committed", "cleanup"}

\* signal is the watch channel's value and stands for an acknowledged cancel:
\* send(true) is acknowledged exactly when the receiver still exists.
\* provider is the provider call; outcome tells apart the responses that use the
\* provider's result and "Request cancelled" from all others.
ConnRow == [stage : Stages, kind : Kinds \cup {"none"}, id : Ids \cup {"none"},
            signal : BOOLEAN, provider : {"none", "pending", "ready"},
            outcome : {"none", "answer", "cancelled"}]

Idle == [stage |-> "free", kind |-> "none", id |-> "none", signal |-> FALSE,
         provider |-> "none", outcome |-> "none"]

EmptyRegistry == [i \in {} |-> Main]
Insert(id, c) == [i \in DOMAIN registry \cup {id} |-> IF i = id THEN c ELSE registry[i]]
Remove(id) == [i \in DOMAIN registry \ {id} |-> registry[i]]

\* The handler holds the mutex and the receiver.
InHandler(c) == conn[c].stage \in {"handling", "calling", "committed"}
ReceiverAlive(c) == conn[c].stage \in {"registered", "queued"} \/ InHandler(c)
Chat(c) == conn[c].kind = "chat"
SenderDropped(c) == \A i \in DOMAIN registry : registry[i] # c

Running == mode # "down"
IdInUse(id) == \E c \in Slots : conn[c].stage # "free" /\ conn[c].id = id

-----------------------------------------------------------------------------
(* Connections (handle_connection, dispatch_request).                       *)

\* listener.accept(), which ends with Ctrl-C.
Accept(c) ==
    /\ mode = "serving"
    /\ conn[c].stage = "free"
    /\ conn' = [conn EXCEPT ![c] = [Idle EXCEPT !.stage = "accepted"]]
    /\ UNCHANGED <<registry, queue, holder, mode>>

\* No complete frame within IO_TIMEOUT, or one that does not decode.
FrameFails(c) ==
    /\ Running
    /\ conn[c].stage = "accepted"
    /\ conn' = [conn EXCEPT ![c] = Idle]
    /\ UNCHANGED <<registry, queue, holder, mode>>

\* A Chat request: refused while its id is registered, else registered with a
\* fresh watch channel.
ReceiveChat(c, id) ==
    /\ Running
    /\ conn[c].stage = "accepted"
    /\ "chat" \in Kinds
    /\ ReuseIds \/ ~IdInUse(id)
    /\ IF id \in DOMAIN registry
       THEN /\ conn' = [conn EXCEPT ![c] = Idle]
            /\ UNCHANGED registry
       ELSE /\ conn' = [conn EXCEPT ![c] = [@ EXCEPT !.stage = "registered", !.kind = "chat",
                                                     !.id = id]]
            /\ registry' = Insert(id, c)
    /\ UNCHANGED <<queue, holder, mode>>

\* Any other request goes straight to the service mutex.
ReceiveOther(c) ==
    /\ Running
    /\ conn[c].stage = "accepted"
    /\ "other" \in Kinds
    /\ conn' = [conn EXCEPT ![c] = [@ EXCEPT !.stage = "queued", !.kind = "other"]]
    /\ queue' = Append(queue, c)
    /\ UNCHANGED <<registry, holder, mode>>

\* A CancelChat request: takes the sender out of the registry and signals it;
\* the answer requested is true when the receiver still exists.
ReceiveCancel(c, id) ==
    /\ Running
    /\ conn[c].stage = "accepted"
    /\ LET hit == {t \in Slots : id \in DOMAIN registry /\ registry[id] = t /\ ReceiverAlive(t)}
       IN conn' = [t \in Slots |-> IF t = c THEN Idle
                                   ELSE IF t \in hit THEN [conn[t] EXCEPT !.signal = TRUE]
                                   ELSE conn[t]]
    /\ registry' = Remove(id)
    /\ UNCHANGED <<queue, holder, mode>>

\* service.lock() is first polled after the registry's lock was released.
AskForLock(c) ==
    /\ Running
    /\ conn[c].stage = "registered"
    /\ conn' = [conn EXCEPT ![c].stage = "queued"]
    /\ queue' = Append(queue, c)
    /\ UNCHANGED <<registry, holder, mode>>

TakeLock_AnyWaiter(c) ==
    /\ Running
    /\ holder = {} /\ conn[c].stage = "queued"
    /\ holder' = {c}
    /\ queue' = SelectSeq(queue, LAMBDA t : t # c)
    /\ conn' = [conn EXCEPT ![c].stage = "handling"]
    /\ UNCHANGED <<registry, mode>>

TakeLock(c) ==
    /\ Running
    /\ holder = {} /\ queue # <<>> /\ Head(queue) = c
    /\ holder' = {c}
    /\ queue' = Tail(queue)
    /\ conn' = [conn EXCEPT ![c].stage = "handling"]
    /\ UNCHANGED <<registry, mode>>

-----------------------------------------------------------------------------
(* Handlers (handle_with_cancellation, chat_with_cancellation, ai_fallback). *)

\* The handler returns: its receiver is dropped, then the mutex guard.  A
\* request that is no chat has nothing left to do but write its response.
Return(c, outcome) ==
    /\ conn' = [conn EXCEPT ![c] = IF Chat(c)
                                   THEN [@ EXCEPT !.stage = "cleanup", !.provider = "none",
                                                  !.outcome = outcome]
                                   ELSE Idle]
    /\ holder' = {}
    /\ UNCHANGED <<registry, queue, mode>>

\* Everything answered without a provider: a local intent, a reused response, no
\* eligible model, a storage error.  The cancellation is not looked at.
HandleLocally(c) ==
    /\ Running
    /\ conn[c].stage = "handling"
    /\ Return(c, "none")

\* ai_fallback looks at the signal once, then calls the provider.
CallProvider(c) ==
    /\ Running
    /\ conn[c].stage = "handling" /\ Chat(c)
    /\ IF conn[c].signal
       THEN Return(c, "cancelled")
       ELSE /\ conn' = [conn EXCEPT ![c] = [@ EXCEPT !.stage = "calling", !.provider = "pending"]]
            /\ UNCHANGED <<registry, queue, holder, mode>>

\* The provider answers, fails, or reaches the client's total timeout.
ProviderAnswers(c) ==
    /\ Running
    /\ conn[c].provider = "pending"
    /\ conn' = [conn EXCEPT ![c].provider = "ready"]
    /\ UNCHANGED <<registry, queue, holder, mode>>

UseAnswer_RetryingFailures(c) ==
    /\ Running
    /\ conn[c].stage \in {"calling", "committed"}
    /\ conn[c].provider = "ready"
    /\ \/ Return(c, "answer")
       \/ /\ conn' = [conn EXCEPT ![c].provider = "pending"]
          /\ UNCHANGED <<registry, queue, holder, mode>>

\* tokio::select! polls its branches in random order: when the answer is ready
\* it may be taken whether or not the signal has changed too.
UseAnswer(c) ==
    /\ Running
    /\ conn[c].stage \in {"calling", "committed"}
    /\ conn[c].provider = "ready"
    /\ Return(c, "answer")

\* cancellation.changed() completes: with the value true the provider future is
\* dropped; with the sender gone it fails, and only the provider is awaited.
SeeSignal_DroppedSenderCancels(c) ==
    /\ Running
    /\ conn[c].stage = "calling"
    /\ conn[c].signal \/ SenderDropped(c)
    /\ Return(c, "cancelled")

SeeSignal_Ignored(c) ==
    /\ Running
    /\ conn[c].stage = "calling"
    /\ conn[c].signal \/ SenderDropped(c)
    /\ conn' = [conn EXCEPT ![c].stage = "committed"]
    /\ UNCHANGED <<registry, queue, holder, mode>>

SeeSignal(c) ==
    /\ Running
    /\ conn[c].stage = "calling"
    /\ \/ conn[c].signal /\ Return(c, "cancelled")
       \/ /\ ~conn[c].signal /\ SenderDropped(c)
          /\ conn' = [conn EXCEPT ![c].stage = "committed"]
          /\ UNCHANGED <<registry, queue, holder, mode>>

\* The task removes the registry entry under its request id, whoever's it is,
\* and writes the response.
Cleanup_Skipped(c) ==
    /\ Running
    /\ conn[c].stage = "cleanup"
    /\ conn' = [conn EXCEPT ![c] = Idle]
    /\ UNCHANGED <<registry, queue, holder, mode>>

Cleanup(c) ==
    /\ Running
    /\ conn[c].stage = "cleanup"
    /\ registry' = Remove(conn[c].id)
    /\ conn' = [conn EXCEPT ![c] = Idle]
    /\ UNCHANGED <<queue, holder, mode>>

-----------------------------------------------------------------------------
(* Shutdown and restart (run).                                              *)

\* Ctrl-C ends the accept loop, which then asks for the mutex like anyone else.
Stop ==
    /\ mode = "serving"
    /\ mode' = "stopping"
    /\ queue' = Append(queue, Main)
    /\ UNCHANGED <<conn, registry, holder>>

\* Memory and tasks go with the process.
Exit ==
    /\ mode' = "down"
    /\ conn' = [c \in Slots |-> Idle]
    /\ registry' = EmptyRegistry
    /\ queue' = <<>>
    /\ holder' = {}

\* The mutex is obtained: the session row is closed and run returns.
StopTakesLock ==
    /\ mode = "stopping"
    /\ holder = {} /\ queue # <<>> /\ Head(queue) = Main
    /\ Exit

Crash == Running /\ Exit

Start ==
    /\ mode = "down"
    /\ mode' = "serving"
    /\ UNCHANGED <<conn, registry, queue, holder>>

-----------------------------------------------------------------------------
Init ==
    /\ conn = [c \in Slots |-> Idle]
    /\ registry = EmptyRegistry
    /\ queue = <<>>
    /\ holder = {}
    /\ mode = "down"

\* The steps a task takes by itself once its request has arrived.
TaskStep(c) ==
    \/ AskForLock(c)
    \/ TakeLock(c)
    \/ HandleLocally(c)
    \/ CallProvider(c)
    \/ UseAnswer(c)
    \/ SeeSignal(c)
    \/ Cleanup(c)

Next ==
    \/ \E c \in Slots :
          \/ Accept(c)
          \/ FrameFails(c)
          \/ \E id \in Ids : ReceiveChat(c, id)
          \/ ReceiveOther(c)
          \/ \E id \in Ids : ReceiveCancel(c, id)
          \/ TaskStep(c)
          \/ ProviderAnswers(c)
    \/ Stop
    \/ StopTakesLock
    \/ Crash
    \/ Start

Spec == Init /\ [][Next]_vars

\* The runtime polls every task that can proceed.  Nothing is assumed of the
\* provider here.
FairSpec ==
    /\ Spec
    /\ \A c \in Slots : WF_vars(TaskStep(c))
    /\ WF_vars(StopTakesLock)

-----------------------------------------------------------------------------
(* Properties.                                                              *)

TypeOK ==
    /\ conn \in [Slots -> ConnRow]
    /\ registry \in [DOMAIN registry -> Slots] /\ DOMAIN registry \subseteq Ids
    /\ queue \in Seq(Slots \cup {Main})
    /\ holder \subseteq Slots
    /\ mode \in {"serving", "stopping", "down"}

\* One handler at a time, across cancellations, crashes and shutdown: the task
\* inside a handler is the one holding the mutex (dispatch_request keeps the
\* guard across every await of the handler).
OneHandlerAtATime == holder = {c \in Slots : InHandler(c)}

\* The registry names only requests in flight, each under its own id: a cancel
\* reaches no other request, and no entry outlives its task (dispatch_request).
RegistryIsExact ==
    \A id \in DOMAIN registry :
        /\ conn[registry[id]].stage \in {"registered", "queued", "cleanup"} \/ InHandler(registry[id])
        /\ conn[registry[id]].id = id
        /\ ~conn[registry[id]].signal

\* A chat is answered with "Request cancelled" only after a cancel under its
\* own id was acknowledged: losing its sender to another task's cleanup does
\* not cancel it (ai_fallback reads the value again after changed()).
OnlyCancelsCancel ==
    \A c \in Slots : conn[c].outcome = "cancelled" => conn[c].signal

\* The HTTP client ends every provider call: it has 45 seconds in all.
ProviderResponds == \A c \in Slots : []<>(conn[c].provider # "pending")

\* Every request that reached the mutex's queue is answered, however many
\* others keep coming, unless the daemon goes down.
RequestsAreAnswered ==
    ProviderResponds =>
        \A c \in Slots : conn[c].stage \in {"registered", "queued"} ~> conn[c].stage = "free"

\* An acknowledged cancel gives the service back even when the provider never
\* answers.
CancelFreesTheService ==
    \A c \in Slots : InHandler(c) /\ conn[c].signal ~> ~InHandler(c)

\* Ctrl-C ends the daemon although requests queue before it.
StopCompletes == ProviderResponds => (mode = "stopping" ~> mode = "down")
=============================================================================
