----------------------------- MODULE Authority -----------------------------
(***************************************************************************)
(* The daemon's authority path (apps/daemon: service.rs, security_service.rs, *)
(* agent_service.rs, the open-application and confirmation handlers of       *)
(* interaction_service.rs; crates/storage: security.rs, runtime.rs).         *)
(*                                                                          *)
(* One service mutex serialises every handler, so at most one operation is   *)
(* in flight; between its steps time passes, storage may fail, and the       *)
(* process may die.  The variables up to `usage` are SQLite tables and       *)
(* survive; up, pending, op and agentRun are memory and do not; launched and *)
(* uses record what happened outside the daemon and are read by properties   *)
(* only.  The single registered capability is system.open_app.               *)
(***************************************************************************)
EXTENDS Policy, FiniteSets

CONSTANTS
    Apps,             \* application entity identifiers
    Classes,          \* classifications a resource label may give
    Agents,           \* agent identifiers
    ChatSessions,     \* chat session identifiers
    Profiles,         \* security profiles the user switches between
    GrantIds,         \* identifiers of permission grants (a bound)
    GrantInputs,      \* permission upserts the user may send
    Requests,         \* kinds of request clients send: user, dry_run, chat
    Outcomes,         \* statuses the executor may end with
    Persistences,     \* ConfirmationPersistence choices offered
    ConfirmationTTL,  \* CONFIRMATION_TTL_MS
    MaxTime,          \* bound on the clock
    ClockMayStepBack, \* whether the wall clock may be set back
    MaxExecutions,    \* bound on executions
    MaxSessions,      \* bound on agent sessions and on daemon lifetimes
    MaxProposals      \* proposals one agent run may return

ASSUME AuthorityAssumption ==
    /\ GrantIds \subseteq Nat /\ ClockMayStepBack \in BOOLEAN
    /\ Classes \subseteq ResourceClassification /\ "Local" \in Classes
    /\ Profiles \subseteq SecurityProfile
    /\ GrantInputs \subseteq [effect : {"Allow", "Deny"}, app : Apps, class : Classes,
                              lifetime : {"Once", "Session", "Until", "Always"},
                              agent : SUBSET Agents, expires : SUBSET Nat]
    /\ Requests \subseteq {"user", "dry_run", "chat"}
    /\ Outcomes \subseteq {"Succeeded", "DryRunSucceeded", "Failed", "TimedOut"}
    /\ Persistences \subseteq {"Once", "Session", "Until", "Always"}
    /\ {ConfirmationTTL, MaxTime, MaxExecutions, MaxSessions, MaxProposals} \subseteq Nat

VARIABLES
    now,             \* now_ms()
    profile,         \* security_settings.profile
    labels,          \* resource_labels, as the classification of each application
    agents,          \* agent_configurations
    grants,          \* permission_grants, by id
    agentSessions,   \* agent_sessions, the id of a row is its index
    daemonSessions,  \* daemon_sessions, likewise
    receipts,        \* executions: the receipt of each recorded execution
    usage,           \* intent_usage_events: <<execution, outcome>>
    up,              \* a daemon process is serving
    pending,         \* pending_confirmations, by the execution that asked
    op,              \* the operation holding the service mutex, if any
    agentRun,        \* the run_agent call holding the service mutex, if any
    next,            \* next execution id
    launched,        \* executions whose application was really started
    uses             \* executions started on the strength of each grant

db    == <<profile, labels, agents, grants, agentSessions, daemonSessions, receipts, usage>>
ghost == <<launched, uses>>
vars  == <<now, db, up, pending, op, agentRun, next, ghost>>

-----------------------------------------------------------------------------
(* Rows and helpers.                                                        *)

Statuses == {"Succeeded", "DryRunSucceeded", "Failed", "TimedOut"}
EndStatuses == {"Completed", "Failed", "TimedOut", "Crashed"}
Lifetimes == {"Once", "Session", "Until", "Always"}
Option(S) == {{}} \cup {{x} : x \in S}
EmptyTable == [i \in {} |-> 0]
Put(f, k, v) == [i \in DOMAIN f \cup {k} |-> IF i = k THEN v ELSE f[i]]

SessionScope(kind, id) == [kind |-> kind, id |-> id]

\* builtins.rs open_app_descriptor
OpenApp ==
    [id |-> "system.open_app", wellFormed |-> TRUE, risk |-> "LocalSideEffect",
     side_effect |-> TRUE, reversible |-> FALSE, confirmation |-> "RiskBased",
     authority_ns |-> FALSE, scope_requirements |-> {}, arguments |-> "OpenApp"]

\* The contexts the daemon builds: trusted_user for the execute and dry-run
\* requests, local_resolution for chat, agent for a broker proposal.
Provenance(path) ==
    IF path = "agent"
      THEN [origin |-> "Agent", trust |-> "ExternalContent", authority |-> "None",
            hops |-> <<"Agent">>]
    ELSE IF path \in {"chat", "confirm"}
      THEN [origin |-> "LocalResolver", trust |-> "UserExplicit", authority |-> "HalquenCore",
            hops |-> <<"UserExplicit", "LocalResolver">>]
    ELSE [origin |-> "UserExplicit", trust |-> "UserExplicit", authority |-> "User",
          hops |-> <<"UserExplicit">>]

\* An ActionProposal for system.open_app.  agent is an option of
\* [agent_id, session_id].
OpenAppProposal(path, app, class, agent) ==
    LET from == Provenance(path) IN
    [capability_id |-> OpenApp.id,
     arguments     |-> [kind |-> "OpenApp", app |-> app],
     wellFormed    |-> TRUE,
     origin        |-> from.origin,
     trust         |-> from.trust,
     authority     |-> from.authority,
     hops          |-> from.hops,
     agent         |-> agent,
     resources     |-> <<[identifier |-> app, classification |-> class]>>,
     data_flow     |-> {}]

ProposalOf(o) == OpenAppProposal(o.path, o.app, o.class, o.agent)

\* The session a proposal is made in: the agent's, else the chat's, else none.
\* No path ever names a daemon session.
PermissionSession(o) ==
    IF o.agent # {} THEN {SessionScope("Agent", a.session_id) : a \in o.agent}
    ELSE {SessionScope("Chat", s) : s \in o.chat}

AgentIdOf(o) == {a.agent_id : a \in o.agent}

-----------------------------------------------------------------------------
(* permission_grants queries (storage/security.rs).                         *)

\* The WHERE clause shared by active_permission_grant_for_proposal and
\* claim_permission_for_proposal.
StoredActive(g, scope, session, agent, t) ==
    /\ g.scope = scope
    /\ ~g.revoked
    /\ \A e \in g.expires_at : e >= t
    /\ \A n \in g.use_limit : g.use_count < n
    /\ g.session = IF g.lifetime = "Session" THEN session ELSE {}
    /\ g.agent_id = agent

ActiveIds(o, t) ==
    {i \in DOMAIN grants :
        StoredActive(grants[i], ScopeOf(ProposalOf(o)), PermissionSession(o), AgentIdOf(o), t)}

\* ORDER BY granted_at_ms DESC, id LIMIT 1.  Ids are random, so a tie may go
\* either way.
Latest(ids) == {i \in ids : \A j \in ids : grants[i].granted_at >= grants[j].granted_at}

\* active_permission_grant_for_proposal: deny rows first, then the latest.
LoadedGrant(o, t) ==
    LET active == ActiveIds(o, t)
        deny   == {i \in active : grants[i].effect = "Deny"}
    IN Latest(IF deny # {} THEN deny ELSE active)

\* ... as the option the query returns.
LoadedOptions(o, t) ==
    IF LoadedGrant(o, t) = {} THEN {{}} ELSE {{i} : i \in LoadedGrant(o, t)}

\* claim_permission_for_proposal: the latest active allow row.
ClaimCandidate_AtDecisionTime(o) ==
    Latest({i \in ActiveIds(o, now) : grants[i].effect = "Allow"})

ClaimCandidate(o) ==
    Latest({i \in ActiveIds(o, o.started_at) : grants[i].effect = "Allow"})

\* HalquenService::policy_context, with the one grant the query returned.
PolicyContextOf(o, loaded) ==
    [granted_scopes    |-> {},
     permission_grants |-> {grants[i] : i \in loaded},
     profile           |-> profile,
     now_ms            |-> now,
     session           |-> PermissionSession(o),
     agent_id          |-> AgentIdOf(o)]

\* PermissionGrant::validate, for granted_by = UserExplicit.
ValidGrant(g) ==
    /\ \A e \in g.expires_at : e >= g.granted_at
    /\ g.lifetime = "Once" => g.use_limit = {1}
    /\ (g.lifetime = "Session") <=> (g.session # {})
    /\ \A s \in g.session : (s.kind = "Agent") <=> (g.agent_id # {})
    /\ g.lifetime = "Until" => g.expires_at # {}

NewGrant(effect, lifetime, app, class, session, agent, at, expires) ==
    [effect     |-> effect,
     lifetime   |-> lifetime,
     scope      |-> ScopeOf(OpenAppProposal("user", app, class, {})),
     session    |-> session,
     agent_id   |-> agent,
     granted_at |-> at,
     expires_at |-> expires,
     revoked    |-> FALSE,
     use_limit  |-> IF lifetime = "Once" THEN {1} ELSE {},
     use_count  |-> 0]

\* ON CONFLICT(id) DO UPDATE: everything but granted_at_ms is replaced.
Stored(id, g) ==
    IF id \in DOMAIN grants THEN [g EXCEPT !.granted_at = grants[id].granted_at] ELSE g

UnusedGrantIds == GrantIds \ DOMAIN grants

Revoke(g) == [g EXCEPT !.revoked = TRUE]

\* Revocation of the session grants of one kind (and one id).
RevokeSessions(kinds, ids) ==
    [i \in DOMAIN grants |->
        IF /\ grants[i].lifetime = "Session"
           /\ \E s \in grants[i].session : s.kind \in kinds /\ s.id \in ids
        THEN Revoke(grants[i])
        ELSE grants[i]]

-----------------------------------------------------------------------------
(* The service mutex.                                                       *)

LockFree_Unserialised == up

LockFree == up /\ op = {} /\ agentRun = {}

\* The in-flight operation moves on, or ends and releases the mutex.
Step(changed) == op' = {changed}
Release == op' = {}

-----------------------------------------------------------------------------
(* process_proposal, confirm_action and the callers' use of them.           *)

NewOp(path, app, class, agent, chat) ==
    [path |-> path, app |-> app, class |-> class, agent |-> agent, chat |-> chat,
     execution |-> next, started_at |-> now, stage |-> "begun", reason |-> "none",
     status |-> "none", grant |-> {}, request |-> {}, persistence |-> "Once", expiry |-> {}]

\* execute_action, dry_run_action and the chat's open-application intent: the
\* handler takes the lock, labels the application, and enters process_proposal.
BeginRequest(path, app, chat) ==
    /\ LockFree
    /\ next <= MaxExecutions
    /\ op' = {NewOp(path, app, labels[app], {}, chat)}
    /\ next' = next + 1
    /\ UNCHANGED <<now, db, up, pending, agentRun, ghost>>

\* run_agent: the session row is written as running before the process starts.
BeginAgentRun(agent, proposals) ==
    /\ LockFree
    /\ agent \in agents
    /\ Len(agentSessions) < MaxSessions
    /\ agentSessions' = Append(agentSessions, [agent_id |-> agent, status |-> "Running"])
    /\ agentRun' = {[agent_id |-> agent, session_id |-> Len(agentSessions) + 1,
                     left |-> proposals]}
    /\ UNCHANGED <<now, profile, labels, agents, grants, daemonSessions, receipts, usage,
                   up, pending, op, next, ghost>>

\* The broker submits the run's next proposal; run_agent keeps the lock.
AgentProposes(app) ==
    /\ up /\ op = {} /\ next <= MaxExecutions
    /\ \E run \in agentRun :
        /\ run.left > 0
        /\ op' = {NewOp("agent", app, labels[app],
                        {[agent_id |-> run.agent_id, session_id |-> run.session_id]}, {})}
        /\ agentRun' = {[run EXCEPT !.left = @ - 1]}
    /\ next' = next + 1
    /\ UNCHANGED <<now, db, up, pending, ghost>>

\* finish_agent_session; when storage refuses it the row stays running until
\* the next daemon start, and the caller only gets an error.
FinishAgentRun(status) ==
    /\ up /\ op = {}
    /\ \E run \in agentRun :
        /\ status = "Completed" => run.left = 0
        /\ \/ /\ agentSessions' = [agentSessions EXCEPT ![run.session_id].status = status]
              /\ grants' = RevokeSessions({"Agent"}, {run.session_id})
           \/ UNCHANGED <<agentSessions, grants>>
    /\ agentRun' = {}
    /\ UNCHANGED <<now, profile, labels, agents, daemonSessions, receipts, usage,
                   up, pending, op, next, ghost>>

Receipt(o, status) == [app |-> o.app, status |-> status]

\* The chat handler's branch on Confirm: the exact proposal is kept server-side.
AskConfirmation(o, decision) ==
    pending' = IF o.path = "chat" /\ decision.outcome = "Confirm"
               THEN Put(pending, o.execution,
                        [app |-> o.app, class |-> o.class, chat |-> o.chat,
                         expires_at |-> now + ConfirmationTTL])
               ELSE pending

\* process_proposal up to the authorization: policy, and for a refusal the
\* receipt and the end of the operation, which a storage error ends too.
EvaluateWith(o, loaded) ==
    LET decision == AuthorizeProposal(OpenApp, ProposalOf(o), PolicyContextOf(o, loaded), TRUE)
    IN \/ /\ decision.outcome = "Allow"
          /\ Step([o EXCEPT !.reason = decision.reason,
                            !.stage = IF decision.reason = "PersistentExactAllow"
                                      THEN "claim" ELSE "authorized"])
          /\ UNCHANGED <<receipts, pending>>
       \/ /\ decision.outcome # "Allow"
          /\ receipts' = Put(receipts, o.execution, Receipt(o, "NotExecuted"))
          /\ AskConfirmation(o, decision)
          /\ Release
       \/ /\ Release
          /\ UNCHANGED <<receipts, pending>>

Evaluate ==
    \E o \in op : \E loaded \in LoadedOptions(o, now) :
        /\ o.stage = "begun" /\ o.path # "confirm"
        /\ EvaluateWith(o, loaded)
        /\ UNCHANGED <<now, profile, labels, agents, grants, agentSessions, daemonSessions,
                       usage, up, agentRun, next, ghost>>

\* claim_permission_for_proposal in an immediate transaction, at started_at_ms;
\* no candidate, or a storage error, ends the operation with an error and no
\* audit record.
Claim_WithoutCounting ==
    \E o \in op : o.stage = "claim" /\
        /\ \E i \in ClaimCandidate(o) :
                /\ Step([o EXCEPT !.stage = "authorized", !.grant = {i}])
                /\ UNCHANGED grants
        /\ UNCHANGED <<now, profile, labels, agents, agentSessions, daemonSessions, receipts,
                       usage, up, pending, agentRun, next, ghost>>

Claim ==
    \E o \in op : o.stage = "claim" /\
        /\ \/ \E i \in ClaimCandidate(o) :
                /\ grants' = [grants EXCEPT ![i].use_count = @ + 1]
                /\ Step([o EXCEPT !.stage = "authorized", !.grant = {i}])
           \/ /\ ClaimCandidate(o) = {}
              /\ Step([o EXCEPT !.stage = "refused"])
              /\ UNCHANGED grants
           \/ Release /\ UNCHANGED grants
        /\ UNCHANGED <<now, profile, labels, agents, agentSessions, daemonSessions, receipts,
                       usage, up, pending, agentRun, next, ghost>>

\* The error return of a refused claim (PrivacyDenied).
ReturnRefusal ==
    /\ \E o \in op : o.stage = "refused"
    /\ Release
    /\ UNCHANGED <<now, db, up, pending, agentRun, next, ghost>>

\* confirm_action removes the entry before anything else.  Rejected (audited)
\* or expired (not audited), it goes no further.
DiscardConfirmation(request, allow) ==
    /\ LockFree
    /\ request \in DOMAIN pending
    /\ ~allow \/ pending[request].expires_at < now
    /\ pending' = [i \in DOMAIN pending \ {request} |-> pending[i]]
    /\ UNCHANGED <<now, db, up, op, agentRun, next, ghost>>

\* Approved in time, its proposal is evaluated again.
ConfirmAction_Replayable(request, persistence, expiry) ==
    /\ LockFree
    /\ request \in DOMAIN pending
    /\ pending[request].expires_at >= now
    /\ next <= MaxExecutions
    /\ op' = {[NewOp("confirm", pending[request].app, pending[request].class, {},
                     pending[request].chat)
               EXCEPT !.request = {request}, !.persistence = persistence, !.expiry = expiry]}
    /\ next' = next + 1
    /\ UNCHANGED <<now, db, up, pending, agentRun, ghost>>

ConfirmAction(request, persistence, expiry) ==
    /\ LockFree
    /\ request \in DOMAIN pending
    /\ pending[request].expires_at >= now
    /\ next <= MaxExecutions
    /\ op' = {[NewOp("confirm", pending[request].app, pending[request].class, {},
                     pending[request].chat)
               EXCEPT !.request = {request}, !.persistence = persistence, !.expiry = expiry]}
    /\ pending' = [i \in DOMAIN pending \ {request} |-> pending[i]]
    /\ next' = next + 1
    /\ UNCHANGED <<now, db, up, agentRun, ghost>>

\* The grant confirm_action stores for a persistent approval.
ConfirmedGrant(o) ==
    NewGrant("Allow", o.persistence, o.app, o.class,
             IF o.persistence = "Session" THEN PermissionSession(o) ELSE {}, {},
             o.started_at, IF o.persistence = "Until" THEN o.expiry ELSE {})

\* Second evaluation of a confirmed proposal.  A denial, an Until approval whose
\* expiry is not in the future, and a storage failure end the operation without
\* an audit record; a persistent approval is stored before the execution.
EvaluateConfirmedWith(o, loaded) ==
    LET decision == AuthorizeConfirmed(OpenApp, ProposalOf(o), PolicyContextOf(o, loaded), TRUE)
        refused  == \/ decision.outcome # "Allow"
                    \/ o.persistence = "Until" /\ \A e \in o.expiry : e <= o.started_at
        relied   == IF decision.reason = "PersistentExactAllow" THEN loaded ELSE {}
    IN \/ /\ ~refused
          /\ IF o.persistence = "Once"
             THEN UNCHANGED grants
             ELSE \E id \in UnusedGrantIds :
                     /\ \A other \in UnusedGrantIds : id <= other
                     /\ grants' = Put(grants, id, ConfirmedGrant(o))
          /\ Step([o EXCEPT !.stage = "authorized", !.reason = decision.reason, !.grant = relied])
       \/ Release /\ UNCHANGED grants

EvaluateConfirmed ==
    \E o \in op : \E loaded \in LoadedOptions(o, now) :
        /\ o.stage = "begun" /\ o.path = "confirm"
        /\ EvaluateConfirmedWith(o, loaded)
        /\ UNCHANGED <<now, profile, labels, agents, agentSessions, daemonSessions,
                       receipts, usage, up, pending, agentRun, next, ghost>>

\* Executor::execute under its timeout.  A dry-run request uses the dry-run
\* executor, and so does every request of a daemon started in dry-run mode.  An
\* executor whose future is dropped at the deadline may already have started the
\* application (the shipped ones never await, so they never time out).
Execute_IgnoringSimulate(status) ==
    \E o \in op : o.stage = "authorized" /\
        /\ Step([o EXCEPT !.status = status, !.stage = "record"])
        /\ launched' = IF status # "Failed" THEN launched \cup {o.execution} ELSE launched
        /\ UNCHANGED <<now, db, up, pending, agentRun, next, uses>>

Execute(status) ==
    \E o \in op : o.stage = "authorized" /\
        /\ o.path = "dry_run" => status # "Succeeded"
        /\ Step([o EXCEPT !.status = status,
                          !.stage = IF o.path = "confirm" /\ status \in {"Succeeded", "DryRunSucceeded"}
                                    THEN "usage" ELSE "record"])
        /\ \/ status = "Succeeded" /\ launched' = launched \cup {o.execution}
           \/ status # "Succeeded" /\ launched' = launched
           \/ /\ status = "TimedOut" /\ o.path # "dry_run"
              /\ launched' = launched \cup {o.execution}
        /\ uses' = [i \in GrantIds |->
                      IF {i} = o.grant THEN uses[i] \cup {<<o.execution, o.path>>} ELSE uses[i]]
        /\ UNCHANGED <<now, db, up, pending, agentRun, next>>

\* record_execution: receipt and audit records in one transaction, or an error.
\* The chat handler goes on to record the usage of an allowed action.
RecordExecution_RetryingExecution ==
    \E o \in op : o.stage = "record" /\
        /\ \/ receipts' = Put(receipts, o.execution, Receipt(o, o.status)) /\ Release
           \/ Step([o EXCEPT !.stage = "authorized"]) /\ UNCHANGED receipts
        /\ UNCHANGED <<now, profile, labels, agents, grants, agentSessions, daemonSessions,
                       usage, up, pending, agentRun, next, ghost>>

RecordExecution ==
    \E o \in op : o.stage = "record" /\
        /\ \/ /\ receipts' = Put(receipts, o.execution, Receipt(o, o.status))
              /\ IF o.path = "chat" THEN Step([o EXCEPT !.stage = "usage"]) ELSE Release
           \/ Release /\ UNCHANGED receipts
        /\ UNCHANGED <<now, profile, labels, agents, grants, agentSessions, daemonSessions,
                       usage, up, pending, agentRun, next, ghost>>

\* record_intent_usage: after the receipt in the chat handler, before it in
\* confirm_action, which does so only for a success.
RecordUsage ==
    \E o \in op : o.stage = "usage" /\
        /\ \/ /\ usage' = usage \cup {<<o.execution, "Success">>}
              /\ IF o.path = "confirm" THEN Step([o EXCEPT !.stage = "record"]) ELSE Release
           \/ Release /\ UNCHANGED usage
        /\ UNCHANGED <<now, profile, labels, agents, grants, agentSessions, daemonSessions,
                       receipts, up, pending, agentRun, next, ghost>>

-----------------------------------------------------------------------------
(* The security control plane (security_service.rs), under the same lock.   *)

\* The session of a Session grant: a chat's is taken as sent, an agent's must be
\* running for that agent, a daemon's must be the current one.
AcceptedSessions(input) ==
    IF input.lifetime # "Session" THEN {{}}
    ELSE {{SessionScope("Chat", c)} : c \in ChatSessions}
         \cup {{SessionScope("Agent", i)} : i \in
                 {j \in DOMAIN agentSessions :
                     agentSessions[j].status = "Running" /\ {agentSessions[j].agent_id} = input.agent}}
         \cup {{SessionScope("Daemon", Len(daemonSessions))}}

UpsertPermissionGrant(input, id) ==
    /\ LockFree
    /\ input.agent \subseteq agents
    /\ \A e \in input.expires : e > now
    /\ id \in DOMAIN grants \/ \A other \in UnusedGrantIds : id <= other
    /\ \E session \in AcceptedSessions(input) :
        LET g == NewGrant(input.effect, input.lifetime, input.app, input.class, session,
                          input.agent, now,
                          IF input.lifetime = "Until" THEN input.expires ELSE {})
        IN /\ ValidGrant(g)
           /\ grants' = Put(grants, id, Stored(id, g))
    /\ uses' = [uses EXCEPT ![id] = {}]
    /\ UNCHANGED <<now, profile, labels, agents, agentSessions, daemonSessions, receipts, usage,
                   up, pending, op, agentRun, next, launched>>

RevokePermissionGrant(id) ==
    /\ LockFree
    /\ id \in DOMAIN grants /\ ~grants[id].revoked
    /\ grants' = [grants EXCEPT ![id] = Revoke(@)]
    /\ UNCHANGED <<now, profile, labels, agents, agentSessions, daemonSessions, receipts, usage,
                   up, pending, op, agentRun, next, ghost>>

UpdateSecurityProfile(p) ==
    /\ LockFree
    /\ profile' = p
    /\ UNCHANGED <<now, labels, agents, grants, agentSessions, daemonSessions, receipts, usage,
                   up, pending, op, agentRun, next, ghost>>

\* upsert_resource_label and remove_resource_label (back to Local), for labels
\* of applications.
SetResourceLabel(app, class) ==
    /\ LockFree
    /\ labels' = [labels EXCEPT ![app] = class]
    /\ UNCHANGED <<now, profile, agents, grants, agentSessions, daemonSessions, receipts, usage,
                   up, pending, op, agentRun, next, ghost>>

\* upsert_agent and remove_agent; the agent's grants stay in the table.
SetAgents(configured) ==
    /\ LockFree
    /\ agents' = configured
    /\ UNCHANGED <<now, profile, labels, grants, agentSessions, daemonSessions, receipts, usage,
                   up, pending, op, agentRun, next, ghost>>

-----------------------------------------------------------------------------
(* Lifecycle.                                                               *)

\* now_ms() is the wall clock: it advances, and may be set back.
Tick(t) ==
    /\ t # now /\ (t < now => ClockMayStepBack)
    /\ now' = t
    /\ UNCHANGED <<db, up, pending, op, agentRun, next, ghost>>

\* HalquenService::new_with_application_registry: begin_daemon_session.
StartDaemon_KeepingSessionGrants ==
    /\ ~up
    /\ Len(daemonSessions) < MaxSessions
    /\ agentSessions' = [i \in DOMAIN agentSessions |->
                           IF agentSessions[i].status = "Running"
                           THEN [agentSessions[i] EXCEPT !.status = "Crashed"]
                           ELSE agentSessions[i]]
    /\ daemonSessions' = Append([i \in DOMAIN daemonSessions |-> "ended"], "open")
    /\ up' = TRUE
    /\ UNCHANGED <<now, profile, labels, agents, grants, receipts, usage, pending, op, agentRun,
                   next, ghost>>

StartDaemon ==
    /\ ~up
    /\ Len(daemonSessions) < MaxSessions
    /\ agentSessions' = [i \in DOMAIN agentSessions |->
                           IF agentSessions[i].status = "Running"
                           THEN [agentSessions[i] EXCEPT !.status = "Crashed"]
                           ELSE agentSessions[i]]
    /\ grants' = RevokeSessions({"Agent", "Daemon"}, Nat)
    /\ daemonSessions' = Append([i \in DOMAIN daemonSessions |-> "ended"], "open")
    /\ up' = TRUE
    /\ UNCHANGED <<now, profile, labels, agents, receipts, usage, pending, op, agentRun, next, ghost>>

\* Ctrl-C: run() takes the mutex, so no operation is in flight, and closes its
\* session; memory is gone with the process.
StopDaemon ==
    /\ LockFree
    /\ daemonSessions' = [daemonSessions EXCEPT ![Len(daemonSessions)] = "ended"]
    /\ grants' = RevokeSessions({"Daemon"}, {Len(daemonSessions)})
    /\ up' = FALSE
    /\ pending' = EmptyTable
    /\ UNCHANGED <<now, profile, labels, agents, agentSessions, receipts, usage, op, agentRun,
                   next, ghost>>

\* The process dies between any two steps.
Crash ==
    /\ up
    /\ up' = FALSE
    /\ pending' = EmptyTable
    /\ op' = {}
    /\ agentRun' = {}
    /\ UNCHANGED <<now, db, next, ghost>>

Init ==
    /\ now = 0
    /\ profile = "Balanced"
    /\ labels = [a \in Apps |-> "Local"]
    /\ agents = {}
    /\ grants = EmptyTable
    /\ agentSessions = <<>>
    /\ daemonSessions = <<>>
    /\ receipts = EmptyTable
    /\ usage = {}
    /\ up = FALSE
    /\ pending = EmptyTable
    /\ op = {}
    /\ agentRun = {}
    /\ next = 1
    /\ launched = {}
    /\ uses = [i \in GrantIds |-> {}]

OperationStep ==
    \/ Evaluate
    \/ Claim
    \/ ReturnRefusal
    \/ EvaluateConfirmed
    \/ \E status \in Outcomes : Execute(status)
    \/ RecordExecution
    \/ RecordUsage

RunEnds == \E status \in EndStatuses : FinishAgentRun(status)

Next ==
    \/ \E path \in Requests \ {"chat"}, app \in Apps : BeginRequest(path, app, {})
    \/ \E path \in Requests \cap {"chat"}, app \in Apps, chat \in ChatSessions :
          BeginRequest(path, app, {chat})
    \/ \E agent \in Agents, n \in 0..MaxProposals : BeginAgentRun(agent, n)
    \/ \E app \in Apps : AgentProposes(app)
    \/ RunEnds
    \/ OperationStep
    \/ \E request \in DOMAIN pending, allow \in BOOLEAN : DiscardConfirmation(request, allow)
    \/ \E request \in DOMAIN pending, persistence \in Persistences :
          \E expiry \in IF persistence = "Until" THEN Option(0..MaxTime) ELSE {{}} :
             ConfirmAction(request, persistence, expiry)
    \/ \E input \in GrantInputs, id \in GrantIds : UpsertPermissionGrant(input, id)
    \/ \E id \in GrantIds : RevokePermissionGrant(id)
    \/ \E p \in Profiles : UpdateSecurityProfile(p)
    \/ \E app \in Apps, class \in Classes : SetResourceLabel(app, class)
    \/ \E configured \in SUBSET Agents : SetAgents(configured)
    \/ \E t \in 0..MaxTime : Tick(t)
    \/ StartDaemon
    \/ StopDaemon
    \/ Crash

Spec == Init /\ [][Next]_vars

\* A handler that has started runs to its end: every wait in it is bounded by a
\* timeout (the capability's, the agent's wall deadline) and the runtime polls
\* ready tasks.
FairSpec == Spec /\ WF_vars(OperationStep) /\ WF_vars(RunEnds)

-----------------------------------------------------------------------------
(* Types.                                                                   *)

AtMostOne(S) == \A x, y \in S : x = y
Scopes == {ScopeOf(OpenAppProposal("user", a, c, {})) : a \in Apps, c \in Classes}
SessionScopes == [kind : {"Chat"}, id : ChatSessions] \cup [kind : {"Agent", "Daemon"}, id : Nat]
GrantRow ==
    [effect : {"Allow", "Deny"}, lifetime : Lifetimes, scope : Scopes,
     session : SUBSET SessionScopes, agent_id : SUBSET Agents, granted_at : Nat,
     expires_at : SUBSET Nat, revoked : BOOLEAN, use_limit : {{}, {1}}, use_count : Nat]
PendingRow == [app : Apps, class : Classes, chat : SUBSET ChatSessions, expires_at : Nat]
Paths == {"user", "dry_run", "chat", "agent", "confirm"}
Stages == {"begun", "claim", "refused", "authorized", "record", "usage"}
OpRow ==
    [path : Paths, app : Apps, class : Classes,
     agent : SUBSET [agent_id : Agents, session_id : Nat], chat : SUBSET ChatSessions,
     execution : Nat, started_at : Nat, stage : Stages, reason : PolicyReason \cup {"none"},
     status : Statuses \cup {"none"}, grant : SUBSET GrantIds, request : SUBSET Nat,
     persistence : Lifetimes, expiry : SUBSET Nat]
ReceiptRow == [app : Apps, status : Statuses \cup {"NotExecuted"}]
RunRow == [agent_id : Agents, session_id : Nat, left : Nat]
SessionRow == [agent_id : Agents, status : EndStatuses \cup {"Running"}]

GrantsType   == grants \in [DOMAIN grants -> GrantRow] /\ DOMAIN grants \subseteq GrantIds
ReceiptsType == receipts \in [DOMAIN receipts -> ReceiptRow] /\ DOMAIN receipts \subseteq Nat
PendingType  == pending \in [DOMAIN pending -> PendingRow] /\ DOMAIN pending \subseteq Nat
SessionsType == agentSessions \in Seq(SessionRow) /\ daemonSessions \in Seq({"open", "ended"})
OpType ==
    /\ op \subseteq OpRow /\ AtMostOne(op)
    /\ \A o \in op : o.stage \in {"record", "usage"} => o.status # "none"
RunType      == agentRun \subseteq RunRow /\ AtMostOne(agentRun)
SettingsType ==
    /\ now \in Nat /\ next \in Nat /\ up \in BOOLEAN
    /\ profile \in SecurityProfile
    /\ labels \in [Apps -> Classes]
    /\ agents \subseteq Agents
    /\ usage \subseteq (Nat \X {"Success"})
GhostType    == launched \subseteq Nat /\ uses \in [GrantIds -> SUBSET (Nat \X Paths)]

\* The tables hold rows of their schema, memory holds at most one operation and
\* one agent run, and an operation is recorded only once it has a status.
TypeOK ==
    /\ SettingsType /\ GrantsType /\ SessionsType /\ ReceiptsType
    /\ PendingType /\ OpType /\ RunType /\ GhostType

-----------------------------------------------------------------------------
(* Properties.                                                              *)

PlainUses(id) == {u \in uses[id] : u[2] # "confirm"}

\* A Once grant lets at most one plain execution start between two saves of it,
\* across failed recordings, crashes and restarts: claim_permission_for_proposal
\* counts the use before the executor runs and never gives it back.
OnceGrantStartsOnce ==
    \A id \in DOMAIN grants :
        grants[id].lifetime = "Once" => AtMostOne(PlainUses(id))

\* The stronger promise of docs/architecture.md: no execution at all, confirmed
\* ones included, starts on a Once grant that another one already used.
OnceGrantStartsOnceOverall ==
    \A id \in DOMAIN grants :
        grants[id].lifetime = "Once" => AtMostOne(uses[id])

\* A step in which the executor is run for the in-flight operation.
ExecutorRuns(o) == o.stage = "authorized" /\ \E p \in op' : p.execution = o.execution

\* Executions start under standing authority: at the instant the executor runs,
\* no live Deny grant covers the proposal, and the Allow grant it rests on is
\* still unrevoked and of exactly its scope and agent (the mutex is held from
\* evaluation to execution).  For a clock that does not step back.
StandingAuthority ==
    [][\A o \in op : ExecutorRuns(o) =>
         /\ \A i \in ActiveIds(o, now) : grants[i].effect # "Deny"
         /\ \A i \in o.grant : /\ grants[i].effect = "Allow"
                               /\ ~grants[i].revoked
                               /\ grants[i].scope = ScopeOf(ProposalOf(o))
                               /\ grants[i].agent_id = AgentIdOf(o)]_vars

\* An agent's proposal reaches the executor only on a claimed grant: never on a
\* baseline allowance and never through a confirmation, which it cannot ask for
\* (agent_service.rs run_agent; engine.rs baseline).
AgentsNeverSelfAuthorize ==
    \A o \in op : o.agent # {} /\ o.stage \in {"authorized", "record"} =>
        /\ o.reason = "PersistentExactAllow"
        /\ o.grant # {}
        /\ \A i \in o.grant : grants[i].agent_id = AgentIdOf(o) /\ grants[i].use_count > 0

\* A confirmation starts at most one operation, for the very application and
\* only after the request that asked for it was recorded as not executed: while
\* one runs, the prompt is gone from the pending table, and nobody runs it later
\* (confirm_action removes the entry first).
ConfirmationIsSingleUse ==
    \A o \in op : \A r \in o.request :
        /\ r \notin DOMAIN pending
        /\ r < o.execution
        /\ r \in DOMAIN receipts
        /\ receipts[r].status = "NotExecuted"
        /\ receipts[r].app = o.app

\* The audit tells the truth: an execution recorded as Succeeded started its
\* application, and one that started it is recorded as Succeeded or TimedOut;
\* no dry run, refusal or failure ever did (process_proposal, confirm_action).
ReceiptsAreTruthful ==
    \A e \in DOMAIN receipts :
        /\ receipts[e].status = "Succeeded" => e \in launched
        /\ e \in launched => receipts[e].status \in {"Succeeded", "TimedOut"}

\* Session grants end with their session: an unrevoked Agent grant belongs to a
\* session that is still running, an unrevoked Daemon grant to the daemon
\* lifetime that is still open, also after crashes and lost finishes
\* (runtime.rs begin_daemon_session, finish_agent_session).
SessionGrantsDieWithSession ==
    \A i \in DOMAIN grants : ~grants[i].revoked =>
        \A s \in grants[i].session :
            /\ s.kind = "Agent" => /\ s.id \in DOMAIN agentSessions
                                   /\ agentSessions[s.id].status = "Running"
            /\ s.kind = "Daemon" => /\ s.id \in DOMAIN daemonSessions
                                    /\ daemonSessions[s.id] = "open"

\* A decision taken on a grant is never lost between policy_context and the
\* claim: the claim looks at the earlier started_at_ms, so a grant live at the
\* decision is live for the claim, unless the clock was set back between the two.
ClaimIsNeverRefused == \A o \in op : o.stage # "refused"

\* The service mutex is always given back: no handler, failed storage call or
\* agent run, with the proposals it brokers while it holds the mutex, keeps it
\* forever (service.rs process_proposal, agent_service.rs run_agent).
MutexIsReleased == (op # {} \/ agentRun # {}) ~> (op = {} /\ agentRun = {})
=============================================================================
