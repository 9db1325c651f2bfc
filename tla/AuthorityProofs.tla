-------------------------- MODULE AuthorityProofs --------------------------
(***************************************************************************)
(* Proofs about Authority for every value of its constants: the type         *)
(* invariant, and the safety invariants the runs check on small instances.   *)
(* Each of these is made inductive by a strengthening that says what the     *)
(* operation in flight has already secured.                                  *)
(***************************************************************************)
EXTENDS Authority, WellFoundedInduction, TLAPS

-----------------------------------------------------------------------------
(* Facts about the engine and the helpers.                                   *)

\* Both entry points of the engine answer with a known reason; the baseline
\* never claims to rest on a grant (engine.rs).
LEMMA EngineReasons ==
    ASSUME NEW cap, NEW prop, NEW ctx, NEW rw
    PROVE  /\ AuthorizeProposal(cap, prop, ctx, rw).reason \in PolicyReason
           /\ AuthorizeConfirmed(cap, prop, ctx, rw).reason \in PolicyReason
           /\ Baseline(cap, prop, ctx.profile, rw).reason # "PersistentExactAllow"
<1>1. Baseline(cap, prop, ctx.profile, rw).reason \in PolicyReason \ {"PersistentExactAllow"}
  BY DEF Baseline, Decision, PolicyReason
<1>2. DecideByGrants(cap, prop, ctx, rw).reason \in PolicyReason
  BY <1>1 DEF DecideByGrants, Decision, PolicyReason
<1>3. HardDenyReason(cap, prop) \in PolicyReason \cup {"None"}
  BY DEF HardDenyReason, PolicyReason
<1>4. Decide(cap, prop, ctx, rw).reason \in PolicyReason
  BY <1>2, <1>3 DEF Decide, Decision, PolicyReason
<1> QED
  BY <1>1, <1>4 DEF AuthorizeProposal, AuthorizeConfirmed, ContractViolated, Decision, PolicyReason

\* Replacing entries of a sequence leaves a sequence.
LEMMA SameLengthSeq ==
    ASSUME NEW S, NEW s \in Seq(S), NEW f \in [DOMAIN s -> S]
    PROVE  f \in Seq(S)
OBVIOUS

\* A grant built from well-typed parts is a row of the table.
LEMMA NewGrantType ==
    ASSUME NEW effect \in {"Allow", "Deny"}, NEW lifetime \in Lifetimes, NEW app \in Apps,
           NEW class \in Classes, NEW session \in SUBSET SessionScopes,
           NEW agent \in SUBSET Agents, NEW at \in Nat, NEW expires \in SUBSET Nat
    PROVE  NewGrant(effect, lifetime, app, class, session, agent, at, expires) \in GrantRow
BY DEF NewGrant, GrantRow, Scopes

\* Revoking session grants changes nothing but the revoked flags.
LEMMA RevokeSessionsType ==
    ASSUME NEW kinds, NEW ids, GrantsType
    PROVE  /\ RevokeSessions(kinds, ids) \in [DOMAIN grants -> GrantRow]
           /\ \A i \in DOMAIN grants :
                 \/ RevokeSessions(kinds, ids)[i] = grants[i]
                 \/ RevokeSessions(kinds, ids)[i] = Revoke(grants[i])
BY DEF RevokeSessions, Revoke, GrantRow, GrantsType

\* The operation a request starts is well typed.
LEMMA NewOpType ==
    ASSUME SettingsType, NEW path \in Paths, NEW app \in Apps, NEW class \in Classes,
           NEW agent \in SUBSET [agent_id : Agents, session_id : Nat],
           NEW chat \in SUBSET ChatSessions
    PROVE  /\ NewOp(path, app, class, agent, chat) \in OpRow
           /\ NewOp(path, app, class, agent, chat).stage = "begun"
BY DEF NewOp, OpRow, SettingsType, Stages, Lifetimes, Statuses

\* What the tables and the operation in flight become.
LEMMA ReceiptPut ==
    ASSUME ReceiptsType, NEW e \in Nat, NEW r \in ReceiptRow, receipts' = Put(receipts, e, r)
    PROVE  ReceiptsType'
<1>1. receipts \in [DOMAIN receipts -> ReceiptRow]
  BY DEF ReceiptsType
<1>2. /\ Put(receipts, e, r) \in [DOMAIN Put(receipts, e, r) -> ReceiptRow]
      /\ DOMAIN Put(receipts, e, r) = DOMAIN receipts \cup {e}
  BY <1>1 DEF Put
<1> QED
  BY <1>2 DEF ReceiptsType

LEMMA PendingPut ==
    ASSUME PendingType, NEW e \in Nat, NEW r \in PendingRow, pending' = Put(pending, e, r)
    PROVE  PendingType'
<1>1. pending \in [DOMAIN pending -> PendingRow]
  BY DEF PendingType
<1>2. /\ Put(pending, e, r) \in [DOMAIN Put(pending, e, r) -> PendingRow]
      /\ DOMAIN Put(pending, e, r) = DOMAIN pending \cup {e}
  BY <1>1 DEF Put
<1> QED
  BY <1>2 DEF PendingType

LEMMA GrantPut ==
    ASSUME GrantsType, NEW i \in GrantIds, NEW g \in GrantRow, grants' = Put(grants, i, g)
    PROVE  GrantsType'
<1>1. grants \in [DOMAIN grants -> GrantRow]
  BY DEF GrantsType
<1>2. /\ Put(grants, i, g) \in [DOMAIN Put(grants, i, g) -> GrantRow]
      /\ DOMAIN Put(grants, i, g) = DOMAIN grants \cup {i}
  BY <1>1 DEF Put
<1> QED
  BY <1>2 DEF GrantsType

LEMMA OpStep ==
    ASSUME NEW o \in OpRow, op' = {o},
           o.stage \in {"record", "usage"} => o.status # "none"
    PROVE  OpType'
BY DEF OpType, AtMostOne

LEMMA OpEnds == op' = {} => OpType'
BY DEF OpType, AtMostOne

LEMMA RunEndsType == agentRun' = {} => RunType'
BY DEF RunType, AtMostOne

\* A variable left alone keeps its type.
LEMMA Untouched ==
    /\ GrantsType /\ UNCHANGED grants => GrantsType'
    /\ ReceiptsType /\ UNCHANGED receipts => ReceiptsType'
    /\ PendingType /\ UNCHANGED pending => PendingType'
    /\ SessionsType /\ UNCHANGED <<agentSessions, daemonSessions>> => SessionsType'
    /\ OpType /\ UNCHANGED op => OpType'
    /\ RunType /\ UNCHANGED agentRun => RunType'
    /\ SettingsType /\ UNCHANGED <<now, next, up, profile, labels, agents, usage>> => SettingsType'
    /\ GhostType /\ UNCHANGED <<launched, uses>> => GhostType'
<1>1. /\ GrantsType /\ UNCHANGED grants => GrantsType'
      /\ ReceiptsType /\ UNCHANGED receipts => ReceiptsType'
      /\ PendingType /\ UNCHANGED pending => PendingType'
  BY DEF GrantsType, ReceiptsType, PendingType
<1>2. /\ SessionsType /\ UNCHANGED <<agentSessions, daemonSessions>> => SessionsType'
      /\ OpType /\ UNCHANGED op => OpType'
      /\ RunType /\ UNCHANGED agentRun => RunType'
  BY DEF SessionsType, OpType, RunType
<1>3. /\ SettingsType /\ UNCHANGED <<now, next, up, profile, labels, agents, usage>> => SettingsType'
      /\ GhostType /\ UNCHANGED <<launched, uses>> => GhostType'
  BY DEF SettingsType, GhostType
<1> QED BY <1>1, <1>2, <1>3

-----------------------------------------------------------------------------
(* Type correctness.                                                        *)

LEMMA InitType == Init => TypeOK
<1> SUFFICES ASSUME Init PROVE TypeOK
  OBVIOUS
<1>1. GrantsType /\ ReceiptsType /\ PendingType
  BY DEF Init, EmptyTable, GrantsType, ReceiptsType, PendingType
<1>2. SessionsType /\ OpType /\ RunType
  BY DEF Init, SessionsType, OpType, RunType, AtMostOne
<1>3. SettingsType /\ GhostType
  BY AuthorityAssumption DEF Init, SettingsType, GhostType, SecurityProfile, AuthorityAssumption
<1> QED
  BY <1>1, <1>2, <1>3 DEF TypeOK

\* The requests that take the lock.
LEMMA BeginType ==
    ASSUME TypeOK
    PROVE  /\ \A path \in Paths, app \in Apps, chat \in SUBSET ChatSessions :
                 BeginRequest(path, app, chat) => TypeOK'
           /\ \A agent \in Agents, n \in 0..MaxProposals : BeginAgentRun(agent, n) => TypeOK'
           /\ \A app \in Apps : AgentProposes(app) => TypeOK'
           /\ \A status \in EndStatuses : FinishAgentRun(status) => TypeOK'
<1> USE DEF db, ghost
<1>0. \A app \in Apps : labels[app] \in Classes
  BY DEF TypeOK, SettingsType
<1>1. ASSUME NEW path \in Paths, NEW app \in Apps, NEW chat \in SUBSET ChatSessions,
             BeginRequest(path, app, chat)
      PROVE  TypeOK'
  <2>1. OpType'
    BY <1>0, <1>1, NewOpType, OpStep DEF TypeOK, BeginRequest
  <2>2. SettingsType'
    BY <1>1 DEF BeginRequest, TypeOK, SettingsType
  <2> QED BY <1>1, <2>1, <2>2, Untouched DEF BeginRequest, TypeOK
<1>2. ASSUME NEW agent \in Agents, NEW n \in 0..MaxProposals, BeginAgentRun(agent, n)
      PROVE  TypeOK'
  <2>1. SessionsType'
    BY <1>2 DEF BeginAgentRun, TypeOK, SessionRow, SessionsType
  <2>2. RunType'
    BY <1>2, AuthorityAssumption
       DEF BeginAgentRun, TypeOK, SessionsType, RunType, RunRow, AtMostOne, AuthorityAssumption
  <2> QED BY <1>2, <2>1, <2>2, Untouched DEF BeginAgentRun, TypeOK
<1>3. ASSUME NEW app \in Apps, AgentProposes(app)
      PROVE  TypeOK'
  <2>1. PICK run \in agentRun :
           /\ run.left > 0
           /\ op' = {NewOp("agent", app, labels[app],
                           {[agent_id |-> run.agent_id, session_id |-> run.session_id]}, {})}
           /\ agentRun' = {[run EXCEPT !.left = @ - 1]}
    BY <1>3 DEF AgentProposes
  <2>2. run \in RunRow
    BY DEF TypeOK, RunType
  <2>3. {[agent_id |-> run.agent_id, session_id |-> run.session_id]}
          \in SUBSET [agent_id : Agents, session_id : Nat]
    BY <2>2 DEF RunRow
  <2>4. "agent" \in Paths /\ {} \in SUBSET ChatSessions
    BY DEF Paths
  <2>5. OpType'
    BY <1>0, <2>1, <2>3, <2>4, NewOpType, OpStep DEF TypeOK
  <2>6. RunType'
    BY <2>1, <2>2 DEF RunType, RunRow, AtMostOne
  <2>7. SettingsType'
    BY <1>3 DEF AgentProposes, TypeOK, SettingsType
  <2> QED BY <1>3, <2>5, <2>6, <2>7, Untouched DEF AgentProposes, TypeOK
<1>4. ASSUME NEW status \in EndStatuses, FinishAgentRun(status)
      PROVE  TypeOK'
  <2>1. PICK run \in agentRun :
           \/ /\ agentSessions' = [agentSessions EXCEPT ![run.session_id].status = status]
              /\ grants' = RevokeSessions({"Agent"}, {run.session_id})
           \/ UNCHANGED <<agentSessions, grants>>
    BY <1>4 DEF FinishAgentRun
  <2>2. agentSessions' \in Seq(SessionRow)
    <3>1. CASE agentSessions' = [agentSessions EXCEPT ![run.session_id].status = status]
      <4>0. \A i \in DOMAIN agentSessions : agentSessions[i] \in SessionRow
        BY DEF TypeOK, SessionsType
      <4>1. \A r \in SessionRow : [r EXCEPT !.status = status] \in SessionRow
        BY DEF SessionRow
      <4>2. agentSessions' = [i \in DOMAIN agentSessions |->
                                 IF i = run.session_id
                                 THEN [agentSessions[i] EXCEPT !.status = status]
                                 ELSE agentSessions[i]]
        BY <3>1 DEF TypeOK, SessionsType
      <4>3. agentSessions' \in [DOMAIN agentSessions -> SessionRow]
        BY <4>0, <4>1, <4>2
      <4> QED BY <4>3, SameLengthSeq DEF TypeOK, SessionsType
    <3> QED BY <2>1, <3>1 DEF TypeOK, SessionsType
  <2>3. GrantsType'
    BY <2>1, RevokeSessionsType DEF TypeOK, GrantsType
  <2>4. SessionsType' /\ RunType'
    BY <1>4, <2>2, RunEndsType DEF FinishAgentRun, TypeOK, SessionsType
  <2> QED BY <1>4, <2>3, <2>4, Untouched DEF FinishAgentRun, TypeOK
<1> QED BY <1>1, <1>2, <1>3, <1>4

\* The steps of an operation in flight.
LEMMA OperationType ==
    ASSUME TypeOK, OperationStep
    PROVE  TypeOK'
<1> USE DEF db, ghost, Release, Step
<1>0. \A o \in op : o \in OpRow
  BY DEF TypeOK, OpType
<1>1. CASE Evaluate
  <2>1. PICK o \in op : \E loaded \in LoadedOptions(o, now) :
                            o.stage = "begun" /\ EvaluateWith(o, loaded)
    BY <1>1 DEF Evaluate
  <2>2. PICK loaded \in LoadedOptions(o, now) : o.stage = "begun" /\ EvaluateWith(o, loaded)
    BY <2>1
  <2> DEFINE decision == AuthorizeProposal(OpenApp, ProposalOf(o), PolicyContextOf(o, loaded), TRUE)
             stage == IF decision.reason = "PersistentExactAllow" THEN "claim" ELSE "authorized"
             go == [o EXCEPT !.reason = decision.reason, !.stage = stage]
             row == [app |-> o.app, class |-> o.class, chat |-> o.chat,
                     expires_at |-> now + ConfirmationTTL]
  <2>3. decision.reason \in PolicyReason
    BY EngineReasons
  <2>4. o \in OpRow /\ o.execution \in Nat
    BY <1>0 DEF OpRow
  <2> HIDE DEF decision
  <2>5. go \in OpRow /\ go.stage \notin {"record", "usage"}
    BY <2>3, <2>4 DEF OpRow, Stages
  <2>6. Receipt(o, "NotExecuted") \in ReceiptRow
    BY <2>4 DEF Receipt, ReceiptRow, OpRow
  <2>7. row \in PendingRow
    BY <2>4, AuthorityAssumption DEF PendingRow, OpRow, TypeOK, SettingsType, AuthorityAssumption
  <2> HIDE DEF go, row
  <2>8. \/ op' = {go} /\ UNCHANGED <<receipts, pending>>
        \/ /\ receipts' = Put(receipts, o.execution, Receipt(o, "NotExecuted"))
           /\ op' = {}
           /\ pending' = Put(pending, o.execution, row) \/ UNCHANGED pending
        \/ op' = {} /\ UNCHANGED <<receipts, pending>>
    BY <2>2 DEF EvaluateWith, AskConfirmation, decision, go, row
  <2>9. OpType' /\ ReceiptsType' /\ PendingType'
    BY <2>4, <2>5, <2>6, <2>7, <2>8, OpStep, OpEnds, ReceiptPut, PendingPut, Untouched DEF TypeOK
  <2> QED BY <1>1, <2>9, Untouched DEF Evaluate, TypeOK
<1>2. CASE Claim
  <2>1. PICK o \in op :
          \/ \E i \in ClaimCandidate(o) :
                /\ grants' = [grants EXCEPT ![i].use_count = @ + 1]
                /\ op' = {[o EXCEPT !.stage = "authorized", !.grant = {i}]}
          \/ op' = {[o EXCEPT !.stage = "refused"]} /\ UNCHANGED grants
          \/ op' = {} /\ UNCHANGED grants
    BY <1>2 DEF Claim
  <2>2. ClaimCandidate(o) \subseteq DOMAIN grants /\ DOMAIN grants \subseteq GrantIds
    BY DEF ClaimCandidate, Latest, ActiveIds, TypeOK, GrantsType
  <2>3. OpType'
    <3>1. \A i \in GrantIds :
             /\ [o EXCEPT !.stage = "authorized", !.grant = {i}] \in OpRow
             /\ [o EXCEPT !.stage = "authorized", !.grant = {i}].stage = "authorized"
      BY <1>0 DEF OpRow, Stages
    <3>2. /\ [o EXCEPT !.stage = "refused"] \in OpRow
          /\ [o EXCEPT !.stage = "refused"].stage = "refused"
      BY <1>0 DEF OpRow, Stages
    <3> QED BY <2>1, <2>2, <3>1, <3>2, OpStep, OpEnds
  <2>4. GrantsType'
    <3>1. ASSUME NEW i \in DOMAIN grants, grants' = [grants EXCEPT ![i].use_count = @ + 1]
          PROVE  GrantsType'
      <4>1. grants[i] \in GrantRow
        BY DEF TypeOK, GrantsType
      <4>2. [grants[i] EXCEPT !.use_count = @ + 1] \in GrantRow
        BY <4>1 DEF GrantRow
      <4> QED BY <3>1, <4>2 DEF TypeOK, GrantsType
    <3> QED BY <2>1, <2>2, <3>1, Untouched DEF TypeOK
  <2> QED BY <1>2, <2>3, <2>4, Untouched DEF Claim, TypeOK
<1>3. CASE ReturnRefusal
  BY <1>3, OpEnds, Untouched DEF ReturnRefusal, TypeOK
<1>4. CASE EvaluateConfirmed
  <2>1. PICK o \in op : \E loaded \in LoadedOptions(o, now) : EvaluateConfirmedWith(o, loaded)
    BY <1>4 DEF EvaluateConfirmed
  <2>2. PICK loaded \in LoadedOptions(o, now) : EvaluateConfirmedWith(o, loaded)
    BY <2>1
  <2> DEFINE decision == AuthorizeConfirmed(OpenApp, ProposalOf(o), PolicyContextOf(o, loaded), TRUE)
             relied == IF decision.reason = "PersistentExactAllow" THEN loaded ELSE {}
             go == [o EXCEPT !.stage = "authorized", !.reason = decision.reason, !.grant = relied]
  <2>3. decision.reason \in PolicyReason
    BY EngineReasons
  <2>4. o \in OpRow
    BY <1>0
  <2>5. relied \in SUBSET GrantIds
    BY DEF LoadedOptions, LoadedGrant, Latest, ActiveIds, TypeOK, GrantsType
  <2> HIDE DEF decision, relied
  <2>6. go \in OpRow /\ go.stage = "authorized"
    BY <2>3, <2>4, <2>5 DEF OpRow, Stages
  <2>7. ConfirmedGrant(o) \in GrantRow
    <3>1. /\ o.persistence \in Lifetimes /\ o.app \in Apps /\ o.class \in Classes
          /\ o.started_at \in Nat /\ o.expiry \in SUBSET Nat
      BY <2>4 DEF OpRow
    <3>2. PermissionSession(o) \in SUBSET SessionScopes
      BY <2>4 DEF OpRow, PermissionSession, SessionScope, SessionScopes
    <3> QED BY <3>1, <3>2, NewGrantType DEF ConfirmedGrant
  <2> HIDE DEF go
  <2>8. \/ /\ op' = {go}
           /\ \/ UNCHANGED grants
              \/ \E id \in GrantIds : grants' = Put(grants, id, ConfirmedGrant(o))
        \/ op' = {} /\ UNCHANGED grants
    BY <2>2 DEF EvaluateConfirmedWith, UnusedGrantIds, decision, relied, go
  <2>9. OpType' /\ GrantsType'
    BY <2>6, <2>7, <2>8, OpStep, OpEnds, GrantPut, Untouched DEF TypeOK
  <2> QED BY <1>4, <2>9, Untouched DEF EvaluateConfirmed, TypeOK
<1>5. ASSUME NEW status \in Outcomes, Execute(status)
      PROVE  TypeOK'
  <2>1. status \in Statuses
    BY AuthorityAssumption DEF AuthorityAssumption, Statuses
  <2>2. PICK o \in op :
          /\ op' = {[o EXCEPT !.status = status,
                          !.stage = IF o.path = "confirm" /\ status \in {"Succeeded", "DryRunSucceeded"}
                                    THEN "usage" ELSE "record"]}
          /\ launched' \subseteq launched \cup {o.execution}
          /\ uses' = [i \in GrantIds |->
                      IF {i} = o.grant THEN uses[i] \cup {<<o.execution, o.path>>} ELSE uses[i]]
    BY <1>5 DEF Execute
  <2>3. o \in OpRow /\ o.execution \in Nat /\ o.path \in Paths
    BY <1>0 DEF OpRow
  <2>4. \A st \in {"usage", "record"} :
           /\ [o EXCEPT !.status = status, !.stage = st] \in OpRow
           /\ [o EXCEPT !.status = status, !.stage = st].status # "none"
    BY <2>1, <2>3 DEF OpRow, Stages, Statuses
  <2>5. OpType'
    BY <2>2, <2>4, OpStep
  <2>6. GhostType'
    BY <2>2, <2>3 DEF GhostType, TypeOK
  <2> QED BY <1>5, <2>5, <2>6, Untouched DEF Execute, TypeOK
<1>6. CASE RecordExecution
  <2>1. PICK o \in op :
          /\ o.stage = "record"
          /\ \/ receipts' = Put(receipts, o.execution, Receipt(o, o.status))
             \/ UNCHANGED receipts
          /\ op' = {} \/ op' = {[o EXCEPT !.stage = "usage"]}
    BY <1>6 DEF RecordExecution
  <2>2. o.status # "none"
    BY <2>1 DEF TypeOK, OpType
  <2>3. Receipt(o, o.status) \in ReceiptRow /\ o.execution \in Nat
    BY <1>0, <2>2 DEF Receipt, ReceiptRow, OpRow
  <2>4. [o EXCEPT !.stage = "usage"] \in OpRow /\ [o EXCEPT !.stage = "usage"].status # "none"
    BY <1>0, <2>2 DEF OpRow, Stages
  <2>5. ReceiptsType'
    BY <2>1, <2>3, ReceiptPut, Untouched DEF TypeOK
  <2>6. OpType'
    BY <2>1, <2>4, OpStep, OpEnds
  <2> QED BY <1>6, <2>5, <2>6, Untouched DEF RecordExecution, TypeOK
<1>7. CASE RecordUsage
  <2>1. PICK o \in op :
          /\ o.stage = "usage"
          /\ usage' \subseteq usage \cup {<<o.execution, "Success">>}
          /\ op' = {} \/ op' = {[o EXCEPT !.stage = "record"]}
    BY <1>7 DEF RecordUsage
  <2>2. o.status # "none"
    BY <2>1 DEF TypeOK, OpType
  <2>3. [o EXCEPT !.stage = "record"] \in OpRow /\ [o EXCEPT !.stage = "record"].status # "none"
    BY <1>0, <2>2 DEF OpRow, Stages
  <2>4. OpType'
    BY <2>1, <2>3, OpStep, OpEnds
  <2>5. o.execution \in Nat
    BY <1>0 DEF OpRow
  <2>6. SettingsType'
    BY <1>7, <2>1, <2>5 DEF RecordUsage, SettingsType, TypeOK
  <2> QED BY <1>7, <2>4, <2>6, Untouched DEF RecordUsage, TypeOK
<1> QED
  BY <1>1, <1>2, <1>3, <1>4, <1>5, <1>6, <1>7 DEF OperationStep

\* Answers to a confirmation prompt.
LEMMA ConfirmationType ==
    ASSUME TypeOK, NEW request \in DOMAIN pending
    PROVE  /\ \A allow \in BOOLEAN : DiscardConfirmation(request, allow) => TypeOK'
           /\ \A persistence \in Persistences, expiry \in SUBSET Nat :
                 ConfirmAction(request, persistence, expiry) => TypeOK'
<1> USE DEF db, ghost
<1>0. ASSUME pending' = [i \in DOMAIN pending \ {request} |-> pending[i]]
      PROVE  PendingType'
  BY <1>0 DEF TypeOK, PendingType
<1>1. ASSUME NEW allow \in BOOLEAN, DiscardConfirmation(request, allow)
      PROVE  TypeOK'
  <2>1. PendingType'
    BY <1>0, <1>1 DEF DiscardConfirmation
  <2> QED BY <1>1, <2>1, Untouched DEF DiscardConfirmation, TypeOK
<1>2. ASSUME NEW persistence \in Persistences, NEW expiry \in SUBSET Nat,
             ConfirmAction(request, persistence, expiry)
      PROVE  TypeOK'
  <2> DEFINE row == pending[request]
             new == NewOp("confirm", row.app, row.class, {}, row.chat)
             o == [new EXCEPT !.request = {request}, !.persistence = persistence, !.expiry = expiry]
  <2>1. row \in PendingRow /\ request \in Nat
    BY DEF TypeOK, PendingType
  <2>2. /\ row.app \in Apps /\ row.class \in Classes /\ row.chat \in SUBSET ChatSessions
        /\ "confirm" \in Paths /\ {} \in SUBSET [agent_id : Agents, session_id : Nat]
        /\ persistence \in Lifetimes
    BY <2>1, AuthorityAssumption DEF PendingRow, Paths, Lifetimes, AuthorityAssumption
  <2>3. new \in OpRow /\ new.stage = "begun"
    BY <2>2, NewOpType DEF TypeOK
  <2> HIDE DEF new
  <2>4. o \in OpRow /\ o.stage = "begun"
    BY <2>1, <2>2, <2>3 DEF OpRow
  <2>5. op' = {o}
    BY <1>2 DEF ConfirmAction, new
  <2> HIDE DEF o
  <2>6. OpType'
    BY <2>4, <2>5, OpStep
  <2>7. SettingsType'
    BY <1>2 DEF ConfirmAction, SettingsType, TypeOK
  <2>8. PendingType'
    BY <1>0, <1>2 DEF ConfirmAction
  <2> QED BY <1>2, <2>6, <2>7, <2>8, Untouched DEF ConfirmAction, TypeOK
<1> QED BY <1>1, <1>2

\* The control plane.
LEMMA ControlPlaneType ==
    ASSUME TypeOK
    PROVE  /\ \A input \in GrantInputs, id \in GrantIds : UpsertPermissionGrant(input, id) => TypeOK'
           /\ \A id \in GrantIds : RevokePermissionGrant(id) => TypeOK'
           /\ \A p \in Profiles : UpdateSecurityProfile(p) => TypeOK'
           /\ \A app \in Apps, class \in Classes : SetResourceLabel(app, class) => TypeOK'
           /\ \A configured \in SUBSET Agents : SetAgents(configured) => TypeOK'
           /\ \A t \in 0..MaxTime : Tick(t) => TypeOK'
<1> USE DEF db, ghost
<1>1. ASSUME NEW input \in GrantInputs, NEW id \in GrantIds, UpsertPermissionGrant(input, id)
      PROVE  TypeOK'
  <2> DEFINE expires == IF input.lifetime = "Until" THEN input.expires ELSE {}
             g(session) == NewGrant(input.effect, input.lifetime, input.app, input.class, session,
                                    input.agent, now, expires)
  <2>1. PICK session \in AcceptedSessions(input) : grants' = Put(grants, id, Stored(id, g(session)))
    BY <1>1 DEF UpsertPermissionGrant
  <2>2. /\ input.effect \in {"Allow", "Deny"} /\ input.lifetime \in Lifetimes
        /\ input.app \in Apps /\ input.class \in Classes /\ input.agent \in SUBSET Agents
        /\ expires \in SUBSET Nat /\ now \in Nat
    BY AuthorityAssumption DEF AuthorityAssumption, Lifetimes, TypeOK, SettingsType
  <2>3. session \in SUBSET SessionScopes
    BY DEF AcceptedSessions, SessionScope, SessionScopes, TypeOK, SessionsType
  <2>4. g(session) \in GrantRow
    BY <2>2, <2>3, NewGrantType
  <2> HIDE DEF g
  <2>5. Stored(id, g(session)) \in GrantRow
    <3>1. id \in DOMAIN grants => grants[id].granted_at \in Nat
      BY DEF TypeOK, GrantsType, GrantRow
    <3> QED BY <2>4, <3>1 DEF Stored, GrantRow
  <2>6. GrantsType'
    BY <2>1, <2>5, GrantPut DEF TypeOK
  <2>7. GhostType'
    BY <1>1 DEF UpsertPermissionGrant, TypeOK, GhostType
  <2> QED BY <1>1, <2>6, <2>7, Untouched DEF UpsertPermissionGrant, TypeOK
<1>2. ASSUME NEW id \in GrantIds, RevokePermissionGrant(id)
      PROVE  TypeOK'
  <2>1. \A g \in GrantRow : Revoke(g) \in GrantRow
    BY DEF Revoke, GrantRow
  <2>2. GrantsType'
    BY <1>2, <2>1 DEF RevokePermissionGrant, TypeOK, GrantsType
  <2> QED BY <1>2, <2>2, Untouched DEF RevokePermissionGrant, TypeOK
<1>3. ASSUME NEW p \in Profiles, UpdateSecurityProfile(p)
      PROVE  TypeOK'
  <2>1. SettingsType'
    BY <1>3, AuthorityAssumption DEF UpdateSecurityProfile, TypeOK, SettingsType, AuthorityAssumption
  <2> QED BY <1>3, <2>1, Untouched DEF UpdateSecurityProfile, TypeOK
<1>4. ASSUME NEW app \in Apps, NEW class \in Classes, SetResourceLabel(app, class)
      PROVE  TypeOK'
  <2>1. SettingsType'
    BY <1>4 DEF SetResourceLabel, TypeOK, SettingsType
  <2> QED BY <1>4, <2>1, Untouched DEF SetResourceLabel, TypeOK
<1>5. ASSUME NEW configured \in SUBSET Agents, SetAgents(configured)
      PROVE  TypeOK'
  <2>1. SettingsType'
    BY <1>5 DEF SetAgents, TypeOK, SettingsType
  <2> QED BY <1>5, <2>1, Untouched DEF SetAgents, TypeOK
<1>6. ASSUME NEW t \in 0..MaxTime, Tick(t)
      PROVE  TypeOK'
  <2>1. SettingsType'
    BY <1>6, AuthorityAssumption DEF Tick, TypeOK, SettingsType, AuthorityAssumption
  <2> QED BY <1>6, <2>1, Untouched DEF Tick, TypeOK
<1> QED BY <1>1, <1>2, <1>3, <1>4, <1>5, <1>6

\* Starts, stops and crashes of the daemon.
LEMMA LifecycleType ==
    ASSUME TypeOK
    PROVE  (StartDaemon => TypeOK') /\ (StopDaemon => TypeOK') /\ (Crash => TypeOK')
<1> USE DEF db, ghost
<1>0. ASSUME pending' = EmptyTable
      PROVE  PendingType'
  BY <1>0 DEF EmptyTable, PendingType
<1>1. ASSUME StartDaemon
      PROVE  TypeOK'
  <2>1. agentSessions' \in Seq(SessionRow)
    <3>1. \A i \in DOMAIN agentSessions : agentSessions[i] \in SessionRow
      BY DEF TypeOK, SessionsType
    <3>2. \A r \in SessionRow : [r EXCEPT !.status = "Crashed"] \in SessionRow
      BY DEF SessionRow, EndStatuses
    <3>3. agentSessions' \in [DOMAIN agentSessions -> SessionRow]
      <4>1. agentSessions' = [i \in DOMAIN agentSessions |->
                                 IF agentSessions[i].status = "Running"
                                 THEN [agentSessions[i] EXCEPT !.status = "Crashed"]
                                 ELSE agentSessions[i]]
        BY <1>1 DEF StartDaemon
      <4> QED BY <4>1, <3>1, <3>2
    <3> QED BY <3>3, SameLengthSeq DEF TypeOK, SessionsType
  <2>2. daemonSessions' \in Seq({"open", "ended"})
    <3> DEFINE ended == [i \in DOMAIN daemonSessions |-> "ended"]
    <3>1. ended \in [DOMAIN daemonSessions -> {"open", "ended"}]
      OBVIOUS
    <3>2. ended \in Seq({"open", "ended"})
      BY <3>1, SameLengthSeq DEF TypeOK, SessionsType
    <3>3. daemonSessions' = Append(ended, "open")
      BY <1>1 DEF StartDaemon
    <3> HIDE DEF ended
    <3> QED BY <3>2, <3>3
  <2>3. GrantsType'
    BY <1>1, RevokeSessionsType DEF StartDaemon, TypeOK, GrantsType
  <2>4. SettingsType'
    BY <1>1 DEF StartDaemon, TypeOK, SettingsType
  <2> QED BY <1>1, <2>1, <2>2, <2>3, <2>4, Untouched DEF StartDaemon, TypeOK, SessionsType
<1>2. ASSUME StopDaemon
      PROVE  TypeOK'
  <2>1. daemonSessions' \in Seq({"open", "ended"})
    <3>1. daemonSessions' \in [DOMAIN daemonSessions -> {"open", "ended"}]
      <4>1. \A i \in DOMAIN daemonSessions : daemonSessions[i] \in {"open", "ended"}
        BY DEF TypeOK, SessionsType
      <4>2. daemonSessions' = [daemonSessions EXCEPT ![Len(daemonSessions)] = "ended"]
        BY <1>2 DEF StopDaemon
      <4>3. daemonSessions \in [DOMAIN daemonSessions -> {"open", "ended"}]
        BY <4>1 DEF TypeOK, SessionsType
      <4> QED BY <4>2, <4>3
    <3> QED BY <3>1, SameLengthSeq DEF TypeOK, SessionsType
  <2>2. GrantsType'
    BY <1>2, RevokeSessionsType DEF StopDaemon, TypeOK, GrantsType
  <2>3. SettingsType'
    BY <1>2 DEF StopDaemon, TypeOK, SettingsType
  <2>4. SessionsType' /\ PendingType'
    BY <1>2, <2>1, <1>0 DEF StopDaemon, TypeOK, SessionsType
  <2> QED BY <1>2, <2>2, <2>3, <2>4, Untouched DEF StopDaemon, TypeOK
<1>3. ASSUME Crash
      PROVE  TypeOK'
  <2>1. SettingsType'
    BY <1>3 DEF Crash, TypeOK, SettingsType
  <2> QED BY <1>3, <2>1, <1>0, OpEnds, RunEndsType, Untouched DEF Crash, TypeOK
<1> QED BY <1>1, <1>2, <1>3

\* The type invariant holds for every value of the constants: tables keep their
\* schema and memory holds at most one operation and one agent run.
THEOREM TypeCorrect == Spec => []TypeOK
<1>1. TypeOK /\ [Next]_vars => TypeOK'
  <2> SUFFICES ASSUME TypeOK, [Next]_vars PROVE TypeOK'
    OBVIOUS
  <2>1. CASE UNCHANGED vars
    BY <2>1, Untouched DEF vars, db, ghost, TypeOK
  <2>2. ASSUME NEW path \in Requests \ {"chat"}, NEW app \in Apps, BeginRequest(path, app, {})
        PROVE  TypeOK'
    BY <2>2, BeginType, AuthorityAssumption DEF AuthorityAssumption, Paths
  <2>3. ASSUME NEW path \in Requests \cap {"chat"}, NEW app \in Apps, NEW chat \in ChatSessions,
               BeginRequest(path, app, {chat})
        PROVE  TypeOK'
    BY <2>3, BeginType DEF Paths
  <2>4. ASSUME NEW request \in DOMAIN pending, NEW persistence \in Persistences,
               NEW expiry \in IF persistence = "Until" THEN Option(0..MaxTime) ELSE {{}},
               ConfirmAction(request, persistence, expiry)
        PROVE  TypeOK'
    <3>1. expiry \in SUBSET Nat
      BY DEF Option
    <3> QED BY <2>4, <3>1, ConfirmationType
  <2>5. CASE OperationStep
    BY <2>5, OperationType
  <2>6. CASE RunEnds
    BY <2>6, BeginType DEF RunEnds
  <2> QED
    BY <2>1, <2>2, <2>3, <2>4, <2>5, <2>6, BeginType, ConfirmationType, ControlPlaneType,
       LifecycleType DEF Next
<1> QED
  BY <1>1, InitType, PTL DEF Spec

-----------------------------------------------------------------------------
(* A Once grant starts at most one plain execution.                          *)

\* The operation in flight has claimed the grant and will run on it.
Reserved(id) == \E o \in op : o.stage = "authorized" /\ o.path # "confirm" /\ o.grant = {id}

\* A grant that was used or is reserved is counted; it is never both.
OnceGrantOK(id) ==
    grants[id].lifetime = "Once" =>
        /\ grants[id].use_limit = {1}
        /\ AtMostOne(PlainUses(id))
        /\ PlainUses(id) # {} => grants[id].use_count >= 1
        /\ Reserved(id) => grants[id].use_count >= 1 /\ PlainUses(id) = {}

\* An operation holds no grant before its claim.
NoGrantYet == \A o \in op : o.stage = "begun" => o.grant = {}

OnceInv == NoGrantYet /\ \A id \in DOMAIN grants : OnceGrantOK(id)

\* A step that uses nothing, claims nothing and at most revokes.
LEMMA OnceKept ==
    ASSUME OnceInv, TypeOK, UNCHANGED uses,
           DOMAIN grants' = DOMAIN grants,
           \A i \in DOMAIN grants : grants'[i] = grants[i] \/ grants'[i] = Revoke(grants[i]),
           \A o \in op' : \/ o \in op
                          \/ o.stage # "authorized" \/ o.path = "confirm" \/ o.grant = {}
    PROVE  \A id \in DOMAIN grants' : OnceGrantOK(id)'
<1> TAKE id \in DOMAIN grants'
<1>1. /\ grants'[id].lifetime = grants[id].lifetime
      /\ grants'[id].use_limit = grants[id].use_limit
      /\ grants'[id].use_count = grants[id].use_count
  BY DEF Revoke, TypeOK, GrantsType, GrantRow
<1>2. PlainUses(id)' = PlainUses(id)
  BY DEF PlainUses
<1>3. Reserved(id)' => Reserved(id)
  BY DEF Reserved
<1> QED BY <1>1, <1>2, <1>3 DEF OnceInv, OnceGrantOK

\* The operations that start hold no grant.
LEMMA NewOpFields ==
    ASSUME NEW path, NEW app, NEW class, NEW agent, NEW chat
    PROVE  LET o == NewOp(path, app, class, agent, chat)
           IN  /\ o.path = path /\ o.app = app /\ o.agent = agent /\ o.chat = chat
               /\ o.stage = "begun" /\ o.grant = {} /\ o.request = {}
               /\ o.execution = next /\ o.started_at = now /\ o.class = class
BY DEF NewOp

\* x is operation o at a later stage.
SameRequest(x, o) ==
    /\ x.path = o.path /\ x.app = o.app /\ x.class = o.class /\ x.agent = o.agent
    /\ x.chat = o.chat /\ x.execution = o.execution /\ x.request = o.request
    /\ x.started_at = o.started_at

\* The operation after one of its steps, if it is still in flight.
LEMMA OperationSteps ==
    ASSUME TypeOK, OperationStep, NEW o \in op, NEW x \in op'
    PROVE  /\ SameRequest(x, o)
           /\ \/ /\ o.stage = "begun" /\ o.path # "confirm" /\ x.grant = o.grant
                 /\ \E loaded \in LoadedOptions(o, now) :
                      LET d == AuthorizeProposal(OpenApp, ProposalOf(o),
                                                 PolicyContextOf(o, loaded), TRUE)
                      IN /\ d.outcome = "Allow" /\ x.reason = d.reason
                         /\ x.stage = IF d.reason = "PersistentExactAllow"
                                      THEN "claim" ELSE "authorized"
                 /\ UNCHANGED <<grants, receipts, pending, ghost>>
              \/ /\ o.stage = "claim" /\ x.stage = "authorized" /\ x.reason = o.reason
                 /\ \E i \in ClaimCandidate(o) :
                      /\ x.grant = {i}
                      /\ grants' = [grants EXCEPT ![i].use_count = @ + 1]
                 /\ UNCHANGED <<receipts, pending, ghost>>
              \/ /\ o.stage = "claim" /\ x.stage = "refused" /\ ClaimCandidate(o) = {}
                 /\ UNCHANGED <<grants, receipts, pending, ghost>>
              \/ /\ o.stage = "begun" /\ o.path = "confirm" /\ x.stage = "authorized"
                 /\ \E loaded \in LoadedOptions(o, now) :
                      LET d == AuthorizeConfirmed(OpenApp, ProposalOf(o),
                                                  PolicyContextOf(o, loaded), TRUE)
                      IN /\ d.outcome = "Allow" /\ x.reason = d.reason
                         /\ x.grant = IF d.reason = "PersistentExactAllow" THEN loaded ELSE {}
                 /\ \/ UNCHANGED grants
                    \/ /\ o.persistence # "Once"
                       /\ \E id \in UnusedGrantIds : grants' = Put(grants, id, ConfirmedGrant(o))
                 /\ UNCHANGED <<receipts, pending, ghost>>
              \/ /\ o.stage = "authorized" /\ x.stage \in {"record", "usage"}
                 /\ x.reason = o.reason /\ x.grant = o.grant
                 /\ o.path # "confirm" => x.stage = "record"
                 /\ Execute(x.status)
              \/ /\ o.stage = "record" /\ x.stage = "usage" /\ x.status = o.status
                 /\ receipts' = Put(receipts, o.execution, Receipt(o, o.status))
                 /\ o.path = "chat"
                 /\ UNCHANGED <<grants, pending, ghost>>
              \/ /\ o.stage = "usage" /\ x.stage = "record" /\ x.status = o.status
                 /\ o.path = "confirm"
                 /\ x.reason = o.reason /\ x.grant = o.grant
                 /\ UNCHANGED <<grants, receipts, pending, ghost>>
<1> USE DEF db, ghost, Release, Step
<1>0. o \in OpRow /\ \A y \in op : y = o
  BY DEF TypeOK, OpType, AtMostOne
<1>1. CASE Evaluate
  <2>1. PICK loaded \in LoadedOptions(o, now) :
           o.stage = "begun" /\ o.path # "confirm" /\ EvaluateWith(o, loaded)
    BY <1>0, <1>1 DEF Evaluate
  <2> DEFINE d == AuthorizeProposal(OpenApp, ProposalOf(o), PolicyContextOf(o, loaded), TRUE)
             st == IF d.reason = "PersistentExactAllow" THEN "claim" ELSE "authorized"
  <2> HIDE DEF d
  <2>2. d.outcome = "Allow" /\ x = [o EXCEPT !.reason = d.reason, !.stage = st]
        /\ UNCHANGED <<receipts, pending>>
    BY <2>1 DEF EvaluateWith, d
  <2>3. SameRequest(x, o) /\ x.reason = d.reason /\ x.stage = st /\ x.grant = o.grant
    BY <1>0, <2>2 DEF OpRow, SameRequest
  <2> QED BY <1>1, <2>1, <2>2, <2>3 DEF Evaluate, d
<1>2. CASE Claim
  <2>1. \/ \E i \in ClaimCandidate(o) :
                /\ grants' = [grants EXCEPT ![i].use_count = @ + 1]
                /\ x = [o EXCEPT !.stage = "authorized", !.grant = {i}]
        \/ /\ x = [o EXCEPT !.stage = "refused"] /\ ClaimCandidate(o) = {}
           /\ UNCHANGED grants
    BY <1>0, <1>2 DEF Claim
  <2>2. o.stage = "claim" /\ UNCHANGED <<receipts, pending, launched, uses>>
    BY <1>0, <1>2 DEF Claim
  <2>3. \/ /\ SameRequest(x, o) /\ x.stage = "authorized" /\ x.reason = o.reason
           /\ \E i \in ClaimCandidate(o) :
                x.grant = {i} /\ grants' = [grants EXCEPT ![i].use_count = @ + 1]
        \/ /\ SameRequest(x, o) /\ x.stage = "refused" /\ ClaimCandidate(o) = {}
           /\ UNCHANGED grants
    <3>1. ASSUME NEW i \in ClaimCandidate(o), x = [o EXCEPT !.stage = "authorized", !.grant = {i}]
          PROVE  SameRequest(x, o) /\ x.stage = "authorized" /\ x.reason = o.reason /\ x.grant = {i}
      BY <1>0, <3>1 DEF OpRow, SameRequest
    <3>2. ASSUME x = [o EXCEPT !.stage = "refused"]
          PROVE  SameRequest(x, o) /\ x.stage = "refused"
      BY <1>0, <3>2 DEF OpRow, SameRequest
    <3>3. CASE \E i \in ClaimCandidate(o) :
                /\ grants' = [grants EXCEPT ![i].use_count = @ + 1]
                /\ x = [o EXCEPT !.stage = "authorized", !.grant = {i}]
      <4>1. PICK i \in ClaimCandidate(o) :
                /\ grants' = [grants EXCEPT ![i].use_count = @ + 1]
                /\ x = [o EXCEPT !.stage = "authorized", !.grant = {i}]
        BY <3>3
      <4>2. SameRequest(x, o) /\ x.stage = "authorized" /\ x.reason = o.reason /\ x.grant = {i}
        BY <3>1, <4>1
      <4> QED BY <4>1, <4>2
    <3> QED BY <2>1, <3>2, <3>3
  <2> QED BY <2>2, <2>3
<1>3. CASE ReturnRefusal
  BY <1>3 DEF ReturnRefusal
<1>4. CASE EvaluateConfirmed
  <2>1. PICK loaded \in LoadedOptions(o, now) :
           o.stage = "begun" /\ o.path = "confirm" /\ EvaluateConfirmedWith(o, loaded)
    BY <1>0, <1>4 DEF EvaluateConfirmed
  <2> DEFINE d == AuthorizeConfirmed(OpenApp, ProposalOf(o), PolicyContextOf(o, loaded), TRUE)
             relied == IF d.reason = "PersistentExactAllow" THEN loaded ELSE {}
  <2> HIDE DEF d
  <2>2. /\ d.outcome = "Allow"
        /\ x = [o EXCEPT !.stage = "authorized", !.reason = d.reason, !.grant = relied]
        /\ \/ UNCHANGED grants
           \/ /\ o.persistence # "Once"
              /\ \E id \in UnusedGrantIds : grants' = Put(grants, id, ConfirmedGrant(o))
    BY <2>1 DEF EvaluateConfirmedWith, d
  <2>3. SameRequest(x, o) /\ x.reason = d.reason /\ x.stage = "authorized" /\ x.grant = relied
    BY <1>0, <2>2 DEF OpRow, SameRequest
  <2>4. UNCHANGED <<receipts, pending, launched, uses>>
    BY <1>4 DEF EvaluateConfirmed
  <2> QED BY <2>1, <2>2, <2>3, <2>4 DEF d
<1>5. ASSUME NEW status \in Outcomes, Execute(status)
      PROVE  /\ SameRequest(x, o) /\ o.stage = "authorized" /\ x.stage \in {"record", "usage"}
             /\ x.reason = o.reason /\ x.grant = o.grant /\ x.status = status
             /\ o.path # "confirm" => x.stage = "record"
  <2> DEFINE st == IF o.path = "confirm" /\ status \in {"Succeeded", "DryRunSucceeded"}
                   THEN "usage" ELSE "record"
  <2>0. PICK y \in op :
          /\ y.stage = "authorized"
          /\ op' = {[y EXCEPT !.status = status,
                          !.stage = IF y.path = "confirm" /\ status \in {"Succeeded", "DryRunSucceeded"}
                                    THEN "usage" ELSE "record"]}
    BY <1>5 DEF Execute
  <2>1. o.stage = "authorized" /\ x = [o EXCEPT !.status = status, !.stage = st]
    BY <1>0, <2>0
  <2>2. /\ SameRequest(x, o) /\ x.stage = st /\ x.status = status
        /\ x.reason = o.reason /\ x.grant = o.grant
    BY <1>0, <2>1 DEF OpRow, SameRequest
  <2> QED BY <2>1, <2>2
<1>6. CASE RecordExecution
  <2>1. /\ o.stage = "record" /\ o.path = "chat"
        /\ x = [o EXCEPT !.stage = "usage"]
        /\ receipts' = Put(receipts, o.execution, Receipt(o, o.status))
        /\ UNCHANGED <<grants, pending, launched, uses>>
    BY <1>0, <1>6 DEF RecordExecution
  <2>2. SameRequest(x, o) /\ x.stage = "usage" /\ x.status = o.status /\ x.reason = o.reason
        /\ x.grant = o.grant
    BY <1>0, <2>1 DEF OpRow, SameRequest
  <2> QED BY <2>1, <2>2
<1>7. CASE RecordUsage
  <2>1. /\ o.stage = "usage" /\ o.path = "confirm"
        /\ x = [o EXCEPT !.stage = "record"]
        /\ UNCHANGED <<grants, receipts, pending, launched, uses>>
    BY <1>0, <1>7 DEF RecordUsage
  <2>2. SameRequest(x, o) /\ x.stage = "record" /\ x.status = o.status /\ x.reason = o.reason
        /\ x.grant = o.grant
    BY <1>0, <2>1 DEF OpRow, SameRequest
  <2> QED BY <2>1, <2>2
<1> QED
  BY <1>1, <1>2, <1>3, <1>4, <1>5, <1>6, <1>7 DEF OperationStep

\* What is left when the operation ends with a step.
LEMMA OperationEnds ==
    ASSUME TypeOK, OperationStep, NEW o \in op, op' = {}
    PROVE  /\ UNCHANGED <<grants, ghost>>
           /\ \/ UNCHANGED <<receipts, pending>>
              \/ /\ o.stage = "record" /\ UNCHANGED pending
                 /\ receipts' = Put(receipts, o.execution, Receipt(o, o.status))
              \/ /\ o.stage = "begun"
                 /\ receipts' = Put(receipts, o.execution, Receipt(o, "NotExecuted"))
                 /\ \/ UNCHANGED pending
                    \/ pending' = Put(pending, o.execution,
                                      [app |-> o.app, class |-> o.class, chat |-> o.chat,
                                       expires_at |-> now + ConfirmationTTL])
<1> USE DEF db, ghost, Release, Step
<1>0. o \in OpRow /\ \A y \in op : y = o
  BY DEF TypeOK, OpType, AtMostOne
<1>1. CASE Evaluate
  <2>1. PICK loaded \in LoadedOptions(o, now) : o.stage = "begun" /\ EvaluateWith(o, loaded)
    BY <1>0, <1>1 DEF Evaluate
  <2>2. \/ UNCHANGED <<receipts, pending>>
        \/ /\ receipts' = Put(receipts, o.execution, Receipt(o, "NotExecuted"))
           /\ \/ UNCHANGED pending
              \/ pending' = Put(pending, o.execution,
                                [app |-> o.app, class |-> o.class, chat |-> o.chat,
                                 expires_at |-> now + ConfirmationTTL])
    BY <2>1 DEF EvaluateWith, AskConfirmation
  <2> QED BY <1>1, <2>1, <2>2 DEF Evaluate
<1>2. CASE Claim
  BY <1>0, <1>2 DEF Claim
<1>3. CASE ReturnRefusal
  BY <1>3 DEF ReturnRefusal
<1>4. CASE EvaluateConfirmed
  <2>1. PICK loaded \in LoadedOptions(o, now) : EvaluateConfirmedWith(o, loaded)
    BY <1>0, <1>4 DEF EvaluateConfirmed
  <2>2. UNCHANGED grants
    BY <2>1 DEF EvaluateConfirmedWith
  <2> QED BY <1>4, <2>2 DEF EvaluateConfirmed
<1>5. ASSUME NEW status \in Outcomes, Execute(status)
      PROVE  FALSE
  BY <1>5 DEF Execute
<1>6. CASE RecordExecution
  BY <1>0, <1>6 DEF RecordExecution
<1>7. CASE RecordUsage
  BY <1>0, <1>7 DEF RecordUsage
<1> QED
  BY <1>1, <1>2, <1>3, <1>4, <1>5, <1>6, <1>7 DEF OperationStep

\* An operation that has just begun on a request, a proposal or a confirmation.
JustBegun(x) ==
    /\ op = {} /\ x.stage = "begun" /\ x.grant = {}
    /\ x.execution = next /\ next' = next + 1
    /\ x.agent # {} => x.path = "agent"
    /\ x.path = "confirm" => x.agent = {}
    /\ \/ x.request = {} /\ UNCHANGED pending
       \/ \E r \in DOMAIN pending :
             /\ x.request = {r} /\ x.app = pending[r].app
             /\ pending' = [i \in DOMAIN pending \ {r} |-> pending[i]]

\* Every other step but a grant's upsert: nothing is used, recorded or granted,
\* grants are at most revoked, prompts at most removed, and an operation in
\* flight is left alone, lost, or begins.
QuietStep ==
    /\ UNCHANGED <<receipts, launched, uses>>
    /\ DOMAIN grants' = DOMAIN grants
    /\ \A i \in DOMAIN grants : grants'[i] = grants[i] \/ grants'[i] = Revoke(grants[i])
    /\ DOMAIN pending' \subseteq DOMAIN pending
    /\ \A r \in DOMAIN pending' : pending'[r] = pending[r]
    /\ next' \in {next, next + 1}
    /\ \A x \in op' : x \in op \/ JustBegun(x)

LEMMA OtherSteps ==
    ASSUME TypeOK, [Next]_vars
    PROVE  \/ OperationStep
           \/ \E input \in GrantInputs, id \in GrantIds : UpsertPermissionGrant(input, id)
           \/ QuietStep
<1> USE DEF db, ghost
<1>0. \A i \in DOMAIN grants : grants[i] \in GrantRow
  BY DEF TypeOK, GrantsType
<1>1. CASE UNCHANGED vars
  BY <1>1 DEF vars, QuietStep
<1>2. ASSUME NEW path \in {"user", "dry_run", "chat"}, NEW app, NEW chat,
             BeginRequest(path, app, chat)
      PROVE  QuietStep
  BY <1>2, NewOpFields DEF BeginRequest, LockFree, QuietStep, JustBegun
<1>3. ASSUME NEW agent, NEW n, BeginAgentRun(agent, n)
      PROVE  QuietStep
  BY <1>3 DEF BeginAgentRun, QuietStep
<1>4. ASSUME NEW app, AgentProposes(app)
      PROVE  QuietStep
  BY <1>4, NewOpFields DEF AgentProposes, QuietStep, JustBegun
<1>5. CASE RunEnds
  <2>1. PICK status \in EndStatuses : FinishAgentRun(status)
    BY <1>5 DEF RunEnds
  <2>2. \/ UNCHANGED grants
        \/ \E run \in agentRun : grants' = RevokeSessions({"Agent"}, {run.session_id})
    BY <2>1 DEF FinishAgentRun
  <2> QED BY <2>1, <2>2, RevokeSessionsType DEF FinishAgentRun, QuietStep, TypeOK
<1>6. ASSUME NEW request \in DOMAIN pending, NEW allow, DiscardConfirmation(request, allow)
      PROVE  QuietStep
  BY <1>6 DEF DiscardConfirmation, QuietStep
<1>7. ASSUME NEW request \in DOMAIN pending, NEW persistence, NEW expiry,
             ConfirmAction(request, persistence, expiry)
      PROVE  QuietStep
  <2> DEFINE new == NewOp("confirm", pending[request].app, pending[request].class, {},
                          pending[request].chat)
             o == [new EXCEPT !.request = {request}, !.persistence = persistence, !.expiry = expiry]
  <2>1. /\ o.path = "confirm" /\ o.app = pending[request].app /\ o.agent = {}
        /\ o.stage = "begun" /\ o.grant = {} /\ o.request = {request} /\ o.execution = next
    BY DEF NewOp
  <2>2. op' = {o}
    BY <1>7 DEF ConfirmAction
  <2> HIDE DEF o
  <2>3. JustBegun(o)
    BY <1>7, <2>1 DEF ConfirmAction, LockFree, JustBegun
  <2> QED BY <1>7, <2>2, <2>3 DEF ConfirmAction, LockFree, QuietStep
<1>8. ASSUME NEW id \in GrantIds, RevokePermissionGrant(id)
      PROVE  QuietStep
  BY <1>8, <1>0 DEF RevokePermissionGrant, QuietStep, LockFree
<1>9. ASSUME \/ \E p \in Profiles : UpdateSecurityProfile(p)
             \/ \E app \in Apps, class \in Classes : SetResourceLabel(app, class)
             \/ \E configured \in SUBSET Agents : SetAgents(configured)
             \/ \E t \in 0..MaxTime : Tick(t)
      PROVE  QuietStep
  BY <1>9 DEF UpdateSecurityProfile, SetResourceLabel, SetAgents, Tick, QuietStep
<1>10. ASSUME StartDaemon
       PROVE  QuietStep
  <2>1. grants' = RevokeSessions({"Agent", "Daemon"}, Nat)
    BY <1>10 DEF StartDaemon
  <2> QED BY <1>10, <2>1, RevokeSessionsType DEF StartDaemon, QuietStep, TypeOK
<1>11. ASSUME StopDaemon
       PROVE  QuietStep
  <2>1. grants' = RevokeSessions({"Daemon"}, {Len(daemonSessions)}) /\ pending' = EmptyTable
    BY <1>11 DEF StopDaemon
  <2>2. DOMAIN EmptyTable = {}
    BY DEF EmptyTable
  <2> HIDE DEF EmptyTable
  <2> QED BY <1>11, <2>1, <2>2, RevokeSessionsType DEF StopDaemon, LockFree, QuietStep, TypeOK
<1>12. ASSUME Crash
       PROVE  QuietStep
  <2>1. DOMAIN EmptyTable = {}
    BY DEF EmptyTable
  <2> QED BY <1>12, <2>1 DEF Crash, QuietStep
<1> QED
  BY <1>1, <1>2, <1>3, <1>4, <1>5, <1>6, <1>7, <1>8, <1>9, <1>10, <1>11, <1>12,
     AuthorityAssumption DEF Next, AuthorityAssumption

\* Grants counted, reserved and used by the operation in flight.
LEMMA OnceOperation ==
    ASSUME OnceInv, TypeOK, TypeOK', OperationStep
    PROVE  OnceInv'
<1>0. PICK o \in op : TRUE
  BY DEF OperationStep, Evaluate, Claim, ReturnRefusal, EvaluateConfirmed, Execute, RecordExecution,
         RecordUsage
<1>1. CASE op' = {}
  <2>1. UNCHANGED <<grants, uses>>
    BY <1>1, OperationEnds DEF ghost
  <2> QED BY <1>1, <2>1, OnceKept DEF OnceInv, NoGrantYet
<1>2. CASE op' # {}
  <2>1. PICK x \in op' : op' = {x}
    BY <1>2 DEF TypeOK, OpType, AtMostOne
  <2>2. NoGrantYet'
    BY <2>1, OperationSteps DEF NoGrantYet
  <2>3. ASSUME UNCHANGED <<grants, uses>>,
               x.stage # "authorized" \/ x.path = "confirm" \/ x.grant = {}
        PROVE  OnceInv'
    BY <2>1, <2>2, <2>3, OnceKept DEF OnceInv
  <2>4. ASSUME o.stage = "claim", x.stage = "authorized",
               NEW i \in ClaimCandidate(o), x.grant = {i},
               grants' = [grants EXCEPT ![i].use_count = @ + 1], UNCHANGED uses
        PROVE  OnceInv'
    <3>1. /\ i \in DOMAIN grants /\ grants[i] \in GrantRow
          /\ \A n \in grants[i].use_limit : grants[i].use_count < n
      BY DEF ClaimCandidate, Latest, ActiveIds, StoredActive, TypeOK, GrantsType
    <3>2. ASSUME NEW id \in DOMAIN grants', id # i
          PROVE  OnceGrantOK(id)'
      <4>1. grants'[id] = grants[id] /\ id \in DOMAIN grants
        BY <2>4, <3>2
      <4>2. PlainUses(id)' = PlainUses(id)
        BY <2>4 DEF PlainUses
      <4>3. ~Reserved(id)'
        BY <2>1, <2>4, <3>2 DEF Reserved
      <4> QED BY <4>1, <4>2, <4>3 DEF OnceInv, OnceGrantOK
    <3>3. OnceGrantOK(i)'
      <4>1. /\ grants'[i].lifetime = grants[i].lifetime
            /\ grants'[i].use_limit = grants[i].use_limit
            /\ grants'[i].use_count = grants[i].use_count + 1
            /\ grants[i].use_count \in Nat
        BY <2>4, <3>1 DEF GrantRow
      <4>2. PlainUses(i)' = PlainUses(i)
        BY <2>4 DEF PlainUses
      <4>3. grants[i].lifetime = "Once" => PlainUses(i) = {}
        BY <3>1, <4>1 DEF OnceInv, OnceGrantOK
      <4>4. OnceGrantOK(i) /\ grants'[i].use_count >= 1
        BY <3>1, <4>1 DEF OnceInv
      <4>5. AtMostOne({})
        BY DEF AtMostOne
      <4> QED BY <4>1, <4>2, <4>3, <4>4, <4>5 DEF OnceGrantOK
    <3> QED BY <2>2, <3>2, <3>3 DEF OnceInv
  <2>5. ASSUME o.path = "confirm", SameRequest(x, o), UNCHANGED uses, o.persistence # "Once",
               NEW id \in UnusedGrantIds, grants' = Put(grants, id, ConfirmedGrant(o))
        PROVE  OnceInv'
    <3>1. ASSUME NEW j \in DOMAIN grants', j # id
          PROVE  OnceGrantOK(j)'
      <4>1. grants'[j] = grants[j] /\ j \in DOMAIN grants
        BY <2>5, <3>1 DEF Put
      <4>2. PlainUses(j)' = PlainUses(j) /\ ~Reserved(j)'
        BY <2>1, <2>5 DEF PlainUses, Reserved, SameRequest
      <4> QED BY <4>1, <4>2 DEF OnceInv, OnceGrantOK
    <3>2. grants'[id].lifetime # "Once"
      BY <2>5 DEF Put, ConfirmedGrant, NewGrant
    <3> QED BY <2>2, <3>1, <3>2 DEF OnceInv, OnceGrantOK
  <2>6. ASSUME o.stage = "authorized", SameRequest(x, o), x.stage \in {"record", "usage"},
               Execute(x.status)
        PROVE  OnceInv'
    <3>0. \A y \in op : y = o
      BY DEF TypeOK, OpType, AtMostOne
    <3>1. /\ UNCHANGED grants
          /\ uses' = [i \in GrantIds |->
                      IF {i} = o.grant THEN uses[i] \cup {<<o.execution, o.path>>} ELSE uses[i]]
      <4>1. PICK y \in op :
              uses' = [i \in GrantIds |->
                        IF {i} = y.grant THEN uses[i] \cup {<<y.execution, y.path>>} ELSE uses[i]]
        BY <2>6 DEF Execute
      <4>2. UNCHANGED grants
        BY <2>6 DEF Execute, db
      <4> QED BY <3>0, <4>1, <4>2
    <3>2. ASSUME NEW id \in DOMAIN grants'
          PROVE  OnceGrantOK(id)'
      <4>1. ~Reserved(id)' /\ id \in GrantIds /\ OnceGrantOK(id)
        BY <2>1, <2>6, <3>1 DEF Reserved, OnceInv, TypeOK, GrantsType
      <4>2. CASE o.path # "confirm" /\ o.grant = {id}
        <5>1. Reserved(id)
          BY <2>6, <4>2 DEF Reserved
        <5>2. uses'[id] = uses[id] \cup {<<o.execution, o.path>>}
          BY <3>1, <4>1, <4>2
        <5>3. PlainUses(id) = {} => PlainUses(id)' = {<<o.execution, o.path>>}
          BY <4>2, <5>2 DEF PlainUses
        <5> QED BY <3>1, <4>1, <5>1, <5>3 DEF OnceGrantOK, AtMostOne
      <4>3. CASE ~(o.path # "confirm" /\ o.grant = {id})
        <5>1. PlainUses(id)' = PlainUses(id)
          BY <3>1, <4>1, <4>3 DEF PlainUses
        <5> QED BY <3>1, <4>1, <5>1 DEF OnceGrantOK
      <4> QED BY <4>2, <4>3
    <3> QED BY <2>2, <3>2 DEF OnceInv
  <2> QED
    BY <2>3, <2>4, <2>5, <2>6, OperationSteps DEF OnceInv, NoGrantYet, SameRequest, ghost
<1> QED BY <1>1, <1>2

\* An upsert forgets the uses of the row it replaces.
LEMMA OnceUpsert ==
    ASSUME OnceInv, TypeOK, NEW input \in GrantInputs, NEW id \in GrantIds,
           UpsertPermissionGrant(input, id)
    PROVE  OnceInv'
<1>1. PICK session \in AcceptedSessions(input) :
        LET g == NewGrant(input.effect, input.lifetime, input.app, input.class, session,
                          input.agent, now, IF input.lifetime = "Until" THEN input.expires ELSE {})
        IN grants' = Put(grants, id, Stored(id, g))
  BY DEF UpsertPermissionGrant
<1>2. op = {} /\ op' = {} /\ uses' = [uses EXCEPT ![id] = {}]
  BY DEF UpsertPermissionGrant, LockFree
<1>3. ASSUME NEW j \in DOMAIN grants', j # id
      PROVE  OnceGrantOK(j)'
  <2>1. grants'[j] = grants[j] /\ j \in DOMAIN grants
    BY <1>1, <1>3 DEF Put
  <2>2. PlainUses(j)' = PlainUses(j) /\ ~Reserved(j)'
    BY <1>2, <1>3 DEF PlainUses, Reserved, TypeOK, GhostType
  <2> QED BY <2>1, <2>2 DEF OnceInv, OnceGrantOK
<1>4. OnceGrantOK(id)'
  <2>1. grants'[id].lifetime = "Once" => grants'[id].use_limit = {1}
    BY <1>1 DEF Put, Stored, NewGrant
  <2>2. PlainUses(id)' = {} /\ ~Reserved(id)'
    BY <1>2 DEF PlainUses, Reserved, TypeOK, GhostType
  <2> QED BY <2>1, <2>2 DEF OnceGrantOK, AtMostOne
<1> QED BY <1>2, <1>3, <1>4 DEF OnceInv, NoGrantYet

\* A Once grant starts at most one plain execution between two saves of it, across
\* failed recordings, crashes, restarts and clock changes
\* (claim_permission_for_proposal before Executor::execute).
THEOREM OnceGrantsStartOnce == Spec => []OnceGrantStartsOnce
<1>1. Init => OnceInv
  BY DEF Init, OnceInv, NoGrantYet, EmptyTable
<1>2. OnceInv /\ TypeOK /\ TypeOK' /\ [Next]_vars => OnceInv'
  <2> SUFFICES ASSUME OnceInv, TypeOK, TypeOK', [Next]_vars PROVE OnceInv'
    OBVIOUS
  <2>1. CASE QuietStep
    <3>1. NoGrantYet'
      BY <2>1 DEF QuietStep, JustBegun, OnceInv, NoGrantYet
    <3> QED BY <2>1, <3>1, OnceKept DEF QuietStep, JustBegun, OnceInv
  <2> QED BY <2>1, OtherSteps, OnceOperation, OnceUpsert
<1>3. OnceInv => OnceGrantStartsOnce
  BY DEF OnceInv, OnceGrantOK, OnceGrantStartsOnce
<1> QED BY <1>1, <1>2, <1>3, TypeCorrect, PTL DEF Spec

-----------------------------------------------------------------------------
(* Receipts are truthful and confirmations single-use.                       *)

\* A status that agrees with whether the application was started.
Truthful(status, e) ==
    /\ status = "Succeeded" => e \in launched
    /\ e \in launched => status \in {"Succeeded", "TimedOut"}

\* Nothing happened yet under identifiers to come.
FreshIds ==
    /\ \A e \in DOMAIN receipts : e < next
    /\ \A e \in launched : e < next
    /\ \A o \in op : o.execution < next

\* Before its executor ran, the operation in flight has left no trace; after, its
\* status is the truth.  It never asks for a confirmation and runs.
OpTruth ==
    \A o \in op :
        /\ o.execution \notin DOMAIN pending
        /\ o.stage \notin {"record", "usage"} =>
              o.execution \notin DOMAIN receipts /\ o.execution \notin launched
        /\ o.stage \in {"record", "usage"} => Truthful(o.status, o.execution)

\* Every prompt belongs to a recorded refusal for the same application.
Refused(r, app) ==
    r \in DOMAIN receipts /\ receipts[r].status = "NotExecuted" /\ receipts[r].app = app

PromptsRefused == \A r \in DOMAIN pending : Refused(r, pending[r].app)

ConfirmOK ==
    \A o \in op : \A r \in o.request : r \notin DOMAIN pending /\ r < o.execution /\ Refused(r, o.app)

AuditInv ==
    /\ \A e \in DOMAIN receipts : Truthful(receipts[e].status, e)
    /\ FreshIds /\ OpTruth /\ PromptsRefused /\ ConfirmOK

LEMMA AuditQuiet ==
    ASSUME AuditInv, TypeOK, QuietStep
    PROVE  AuditInv'
<1>0. next \in Nat /\ next' \in Nat /\ next <= next'
  BY DEF TypeOK, SettingsType, QuietStep
<1>1. UNCHANGED <<receipts, launched>>
  BY DEF QuietStep
<1>2. DOMAIN receipts \subseteq Nat /\ launched \subseteq Nat /\ \A o \in op : o.execution \in Nat
  BY DEF TypeOK, ReceiptsType, GhostType, OpType, OpRow
<1>3. /\ DOMAIN pending' \subseteq DOMAIN pending
      /\ \A r \in DOMAIN pending' : pending'[r] = pending[r]
      /\ \A x \in op' : x \in op \/ JustBegun(x)
  BY DEF QuietStep
<1>4. \A e \in DOMAIN receipts' : Truthful(receipts[e].status, e)'
  BY <1>1 DEF AuditInv, Truthful
<1>5. FreshIds'
  BY <1>0, <1>1, <1>2, <1>3 DEF AuditInv, FreshIds, JustBegun
<1>6. OpTruth'
  <2>1. next \notin DOMAIN receipts /\ next \notin launched /\ next \notin DOMAIN pending
    BY <1>0, <1>2 DEF AuditInv, FreshIds, PromptsRefused, Refused
  <2> QED BY <1>1, <1>3, <2>1 DEF AuditInv, OpTruth, JustBegun, Truthful
<1>7. PromptsRefused'
  BY <1>1, <1>3 DEF AuditInv, PromptsRefused, Refused
<1>8. ConfirmOK'
  <2> SUFFICES ASSUME NEW x \in op', NEW r \in x.request
               PROVE  r \notin DOMAIN pending' /\ r < x.execution /\ Refused(r, x.app)
    BY <1>1 DEF ConfirmOK, Refused
  <2>1. CASE x \in op
    BY <2>1, <1>3 DEF AuditInv, ConfirmOK
  <2>2. CASE JustBegun(x)
    <3>1. /\ r \in DOMAIN pending /\ x.app = pending[r].app /\ x.execution = next
          /\ r \notin DOMAIN pending'
      BY <2>2 DEF JustBegun
    <3> QED BY <3>1 DEF AuditInv, PromptsRefused, Refused, FreshIds
  <2> QED BY <1>3, <2>1, <2>2
<1> QED BY <1>4, <1>5, <1>6, <1>7, <1>8 DEF AuditInv

LEMMA AuditUpsert ==
    ASSUME AuditInv, NEW input, NEW id, UpsertPermissionGrant(input, id)
    PROVE  AuditInv'
BY DEF UpsertPermissionGrant, AuditInv, Truthful, FreshIds, OpTruth, PromptsRefused, Refused,
       ConfirmOK

\* Writing the receipt of the operation in flight.
LEMMA AuditRecord ==
    ASSUME AuditInv, TypeOK, NEW o \in op, NEW status, Truthful(status, o.execution),
           receipts' = Put(receipts, o.execution, Receipt(o, status)),
           UNCHANGED <<launched, next>>
    PROVE  /\ \A e \in DOMAIN receipts' : Truthful(receipts[e].status, e)'
           /\ \A e \in DOMAIN receipts' : e < next'
           /\ \A r, app : r # o.execution /\ Refused(r, app) => Refused(r, app)'
           /\ status = "NotExecuted" => Refused(o.execution, o.app)'
<1>1. /\ DOMAIN receipts' = DOMAIN receipts \cup {o.execution}
      /\ receipts'[o.execution] = Receipt(o, status)
      /\ \A e \in DOMAIN receipts : e # o.execution => receipts'[e] = receipts[e]
  BY DEF Put
<1>2. Receipt(o, status).status = status /\ Receipt(o, status).app = o.app
  BY DEF Receipt
<1> QED BY <1>1, <1>2 DEF AuditInv, Truthful, FreshIds, Refused

LEMMA AuditOperation ==
    ASSUME AuditInv, TypeOK, TypeOK', OperationStep
    PROVE  AuditInv'
<1> USE DEF ghost
<1>0. PICK o \in op : \A y \in op : y = o
  BY DEF OperationStep, Evaluate, Claim, ReturnRefusal, EvaluateConfirmed, Execute, RecordExecution,
         RecordUsage, TypeOK, OpType, AtMostOne
<1>1. UNCHANGED next
  BY DEF OperationStep, Evaluate, Claim, ReturnRefusal, EvaluateConfirmed, Execute, RecordExecution,
         RecordUsage
<1>2. /\ o.execution < next /\ o.execution \notin DOMAIN pending
      /\ o.stage \notin {"record", "usage"} =>
              o.execution \notin DOMAIN receipts /\ o.execution \notin launched
      /\ o.stage \in {"record", "usage"} => Truthful(o.status, o.execution)
      /\ \A r \in o.request : r \notin DOMAIN pending /\ r < o.execution /\ Refused(r, o.app)
  BY DEF AuditInv, FreshIds, OpTruth, ConfirmOK
<1>3. o.execution \in Nat
  BY DEF TypeOK, OpType, OpRow
<1>4. ASSUME UNCHANGED <<receipts, pending, launched>>, op' = {}
      PROVE  AuditInv'
  BY <1>1, <1>4 DEF AuditInv, Truthful, FreshIds, OpTruth, PromptsRefused, Refused, ConfirmOK
<1>5. CASE op' = {}
  <2>1. UNCHANGED launched
    BY <1>5, OperationEnds
  <2>2. ASSUME o.stage = "record", UNCHANGED pending,
               receipts' = Put(receipts, o.execution, Receipt(o, o.status))
        PROVE  AuditInv'
    <3>1. PromptsRefused'
      BY <1>1, <1>2, <2>1, <2>2, AuditRecord DEF AuditInv, PromptsRefused
    <3>2. OpTruth' /\ ConfirmOK'
      BY <1>5 DEF OpTruth, ConfirmOK
    <3>3. FreshIds' /\ \A e \in DOMAIN receipts' : Truthful(receipts[e].status, e)'
      BY <1>1, <1>2, <1>5, <2>1, <2>2, AuditRecord DEF AuditInv, FreshIds
    <3> QED BY <3>1, <3>2, <3>3 DEF AuditInv
  <2>3. ASSUME o.stage = "begun",
               receipts' = Put(receipts, o.execution, Receipt(o, "NotExecuted")),
               \/ UNCHANGED pending
               \/ pending' = Put(pending, o.execution,
                                 [app |-> o.app, class |-> o.class, chat |-> o.chat,
                                  expires_at |-> now + ConfirmationTTL])
        PROVE  AuditInv'
    <3>0. Truthful("NotExecuted", o.execution)
      BY <1>2, <2>3 DEF Truthful
    <3>1. PromptsRefused'
      <4>1. \A r \in DOMAIN pending' :
               \/ r \in DOMAIN pending /\ r # o.execution /\ pending'[r] = pending[r]
               \/ r = o.execution /\ pending'[r].app = o.app
        BY <1>2, <2>3 DEF Put
      <4>2. \A r \in DOMAIN pending : Refused(r, pending[r].app)
        BY DEF AuditInv, PromptsRefused
      <4>3. /\ \A r, app : r # o.execution /\ Refused(r, app) => Refused(r, app)'
            /\ Refused(o.execution, o.app)'
        BY <1>1, <2>1, <2>3, <3>0, AuditRecord
      <4> QED BY <4>1, <4>2, <4>3 DEF PromptsRefused, Refused
    <3>2. OpTruth' /\ ConfirmOK'
      BY <1>5 DEF OpTruth, ConfirmOK
    <3>3. FreshIds' /\ \A e \in DOMAIN receipts' : Truthful(receipts[e].status, e)'
      BY <1>1, <1>2, <1>5, <2>1, <2>3, <3>0, AuditRecord DEF AuditInv, FreshIds
    <3> QED BY <3>1, <3>2, <3>3 DEF AuditInv
  <2> QED BY <1>4, <1>5, <2>1, <2>2, <2>3, OperationEnds
<1>6. CASE op' # {}
  <2>1. PICK x \in op' : op' = {x}
    BY <1>6 DEF TypeOK, OpType, AtMostOne
  <2>2. SameRequest(x, o)
    BY OperationSteps
  <2>3. ASSUME UNCHANGED <<receipts, pending, launched>>,
               \/ o.stage \notin {"record", "usage"} /\ x.stage \notin {"record", "usage"}
               \/ o.stage = "usage" /\ x.status = o.status /\ x.stage \in {"record", "usage"}
        PROVE  AuditInv'
    <3>1. OpTruth' /\ ConfirmOK'
      BY <1>2, <2>1, <2>2, <2>3 DEF OpTruth, ConfirmOK, SameRequest, Truthful, Refused
    <3>2. FreshIds'
      BY <1>1, <1>2, <2>1, <2>2, <2>3 DEF AuditInv, FreshIds, SameRequest
    <3> QED BY <2>3, <3>1, <3>2 DEF AuditInv, Truthful, PromptsRefused, Refused
  <2>4. ASSUME o.stage = "record", x.stage = "usage", x.status = o.status, UNCHANGED <<pending, launched>>,
               receipts' = Put(receipts, o.execution, Receipt(o, o.status))
        PROVE  AuditInv'
    <3>1. /\ \A e \in DOMAIN receipts' : Truthful(receipts[e].status, e)'
          /\ \A e \in DOMAIN receipts' : e < next'
          /\ \A r, app : r # o.execution /\ Refused(r, app) => Refused(r, app)'
      BY <1>1, <1>2, <2>4, AuditRecord
    <3>2. PromptsRefused'
      BY <1>2, <2>4, <3>1 DEF AuditInv, PromptsRefused
    <3>3. ConfirmOK'
      <4> SUFFICES ASSUME NEW r \in x.request
                   PROVE  r \notin DOMAIN pending' /\ r < x.execution /\ Refused(r, x.app)'
        BY <2>1 DEF ConfirmOK
      <4>1. r \notin DOMAIN pending /\ r < o.execution /\ Refused(r, o.app)
        BY <1>2, <2>2 DEF SameRequest
      <4>2. r # o.execution
        BY <1>3, <4>1
      <4> QED BY <2>2, <2>4, <3>1, <4>1, <4>2 DEF SameRequest
    <3>4. OpTruth'
      BY <1>2, <2>1, <2>2, <2>4 DEF OpTruth, SameRequest, Truthful
    <3>5. FreshIds'
      BY <1>1, <1>2, <2>1, <2>2, <2>4, <3>1 DEF AuditInv, FreshIds, SameRequest
    <3> QED BY <3>1, <3>2, <3>3, <3>4, <3>5 DEF AuditInv
  <2>5. ASSUME o.stage = "authorized", x.stage \in {"record", "usage"}, Execute(x.status)
        PROVE  AuditInv'
    <3>1. /\ UNCHANGED <<receipts, pending>>
          /\ launched \subseteq launched' /\ launched' \subseteq launched \cup {o.execution}
          /\ x.status = "Succeeded" => o.execution \in launched'
          /\ x.status \notin {"Succeeded", "TimedOut"} => launched' = launched
      <4>1. UNCHANGED <<receipts, pending>>
        BY <2>5 DEF Execute, db
      <4>2. PICK y \in op :
              \/ x.status = "Succeeded" /\ launched' = launched \cup {y.execution}
              \/ x.status # "Succeeded" /\ launched' = launched
              \/ x.status = "TimedOut" /\ launched' = launched \cup {y.execution}
        BY <2>5 DEF Execute
      <4> QED BY <1>0, <4>1, <4>2
    <3>2. \A e \in DOMAIN receipts' : Truthful(receipts[e].status, e)'
      BY <1>2, <2>5, <3>1 DEF AuditInv, Truthful
    <3>3. OpTruth'
      BY <1>2, <2>1, <2>2, <2>5, <3>1 DEF OpTruth, SameRequest, Truthful
    <3>4. FreshIds'
      BY <1>1, <1>2, <2>1, <2>2, <3>1 DEF AuditInv, FreshIds, SameRequest
    <3>5. PromptsRefused' /\ ConfirmOK'
      BY <1>2, <2>1, <2>2, <3>1 DEF AuditInv, PromptsRefused, ConfirmOK, Refused, SameRequest
    <3> QED BY <3>2, <3>3, <3>4, <3>5 DEF AuditInv
  <2> QED BY <2>3, <2>4, <2>5, OperationSteps
<1> QED BY <1>5, <1>6

\* The strengthening is an invariant.
LEMMA AuditInvariant == Spec => []AuditInv
<1>1. Init => AuditInv
  BY DEF Init, AuditInv, FreshIds, OpTruth, PromptsRefused, ConfirmOK, EmptyTable
<1>2. AuditInv /\ TypeOK /\ TypeOK' /\ [Next]_vars => AuditInv'
  BY OtherSteps, AuditQuiet, AuditUpsert, AuditOperation
<1> QED BY <1>1, <1>2, TypeCorrect, PTL DEF Spec

\* Receipts tell the truth about what was started, across storage failures,
\* crashes and restarts (process_proposal, confirm_action).
THEOREM ReceiptsTellTheTruth == Spec => []ReceiptsAreTruthful
<1>1. AuditInv => ReceiptsAreTruthful
  BY DEF AuditInv, Truthful, ReceiptsAreTruthful
<1> QED BY <1>1, AuditInvariant, PTL

\* A confirmation runs at most once, for the application of the request that was
\* recorded as refused (confirm_action removes the prompt first).
THEOREM ConfirmationsAreSingleUse == Spec => []ConfirmationIsSingleUse
<1>1. AuditInv => ConfirmationIsSingleUse
  BY DEF AuditInv, ConfirmOK, Refused, ConfirmationIsSingleUse
<1> QED BY <1>1, AuditInvariant, PTL

-----------------------------------------------------------------------------
(* Agents never authorize themselves.                                        *)

\* For an agent's proposal the engine's only allowance of system.open_app is an
\* exact grant (engine.rs baseline: AgentSideEffectRequiresConfirmation).
LEMMA AgentNeedsGrant ==
    ASSUME NEW prop, NEW ctx, prop.origin = "Agent",
           AuthorizeProposal(OpenApp, prop, ctx, TRUE).outcome = "Allow"
    PROVE  AuthorizeProposal(OpenApp, prop, ctx, TRUE).reason = "PersistentExactAllow"
<1> DEFINE d == AuthorizeProposal(OpenApp, prop, ctx, TRUE)
<1>1. OpenApp.side_effect
  BY DEF OpenApp
<1>2. Baseline(OpenApp, prop, ctx.profile, TRUE).outcome = "Confirm"
  BY <1>1 DEF Baseline, Decision
<1>3. d = DecideByGrants(OpenApp, prop, ctx, TRUE)
  BY DEF AuthorizeProposal, ContractViolated, Decide, Decision
<1>4. DecideByGrants(OpenApp, prop, ctx, TRUE).outcome = "Allow"
  BY <1>3
<1>5. DecideByGrants(OpenApp, prop, ctx, TRUE).reason = "PersistentExactAllow"
  BY <1>2, <1>4 DEF DecideByGrants, Decision
<1> QED BY <1>3, <1>5

\* What an agent's operation has secured at each stage.
AgentOK(o) ==
    o.agent # {} =>
        /\ o.path = "agent"
        /\ o.stage # "usage"
        /\ o.stage = "claim" => o.reason = "PersistentExactAllow"
        /\ o.stage \in {"authorized", "record"} =>
              /\ o.reason = "PersistentExactAllow"
              /\ o.grant # {}
              /\ \A i \in o.grant : /\ i \in DOMAIN grants
                                    /\ grants[i].agent_id = AgentIdOf(o)
                                    /\ grants[i].use_count > 0

AgentInv == \A o \in op : AgentOK(o)

LEMMA AgentOperation ==
    ASSUME AgentInv, TypeOK, OperationStep, NEW x \in op'
    PROVE  AgentOK(x)'
<1>0. PICK o \in op : AgentOK(o)
  BY DEF OperationStep, Evaluate, Claim, ReturnRefusal, EvaluateConfirmed, Execute, RecordExecution,
         RecordUsage, AgentInv
<1> SUFFICES ASSUME x.agent # {} PROVE AgentOK(x)'
  BY DEF AgentOK
<1>1. /\ SameRequest(x, o) /\ o.agent # {} /\ o.path = "agent" /\ x.path = "agent"
      /\ AgentIdOf(x) = AgentIdOf(o)
  BY <1>0, OperationSteps DEF SameRequest, AgentOK, AgentIdOf
<1>2. ASSUME NEW loaded,
             AuthorizeProposal(OpenApp, ProposalOf(o), PolicyContextOf(o, loaded), TRUE).outcome = "Allow"
      PROVE  AuthorizeProposal(OpenApp, ProposalOf(o), PolicyContextOf(o, loaded), TRUE).reason
                = "PersistentExactAllow"
  <2>1. ProposalOf(o).origin = "Agent"
    BY <1>1 DEF ProposalOf, OpenAppProposal, Provenance
  <2> QED BY <1>2, <2>1, AgentNeedsGrant
<1>3. ASSUME o.stage = "claim", x.stage = "authorized", x.reason = o.reason,
             NEW i \in ClaimCandidate(o), x.grant = {i},
             grants' = [grants EXCEPT ![i].use_count = @ + 1]
      PROVE  AgentOK(x)'
  <2>1. i \in DOMAIN grants /\ grants[i].agent_id = AgentIdOf(o) /\ grants[i] \in GrantRow
    BY DEF ClaimCandidate, Latest, ActiveIds, StoredActive, TypeOK, GrantsType
  <2>2. /\ i \in DOMAIN grants' /\ grants'[i].agent_id = AgentIdOf(o)
        /\ grants'[i].use_count > 0
    BY <1>3, <2>1 DEF GrantRow
  <2>3. AgentIdOf(x)' = AgentIdOf(o)
    BY <1>1 DEF AgentIdOf
  <2> QED BY <1>0, <1>1, <1>3, <2>2, <2>3 DEF AgentOK
<1>4. ASSUME o.stage = "authorized", x.stage = "record", x.reason = o.reason, x.grant = o.grant,
             UNCHANGED grants
      PROVE  AgentOK(x)'
  BY <1>0, <1>1, <1>4 DEF AgentOK, AgentIdOf
<1>5. ASSUME Execute(x.status) PROVE UNCHANGED grants
  BY <1>5 DEF Execute, db
<1>6. ASSUME x.stage \in {"claim", "refused"}, x.stage = "claim" => x.reason = "PersistentExactAllow"
      PROVE  AgentOK(x)'
  BY <1>1, <1>6 DEF AgentOK
<1> QED BY <1>1, <1>2, <1>3, <1>4, <1>5, <1>6, OperationSteps

\* An agent's action reaches the executor only on a grant that was saved for that
\* agent and counted for this use (agent_service.rs run_agent, engine.rs).
THEOREM AgentsNeedGrants == Spec => []AgentsNeverSelfAuthorize
<1>1. Init => AgentInv
  BY DEF Init, AgentInv
<1>2. AgentInv /\ TypeOK /\ [Next]_vars => AgentInv'
  <2> SUFFICES ASSUME AgentInv, TypeOK, [Next]_vars PROVE AgentInv'
    OBVIOUS
  <2>1. CASE OperationStep
    BY <2>1, AgentOperation DEF AgentInv
  <2>2. ASSUME NEW input, NEW id, UpsertPermissionGrant(input, id) PROVE AgentInv'
    BY <2>2 DEF UpsertPermissionGrant, LockFree, AgentInv
  <2>3. CASE QuietStep
    <3> SUFFICES ASSUME NEW x \in op' PROVE AgentOK(x)'
      BY DEF AgentInv
    <3>1. CASE JustBegun(x)
      BY <3>1 DEF JustBegun, AgentOK
    <3>2. CASE x \in op
      <4>1. \A i \in DOMAIN grants :
               /\ i \in DOMAIN grants'
               /\ grants'[i].agent_id = grants[i].agent_id
               /\ grants'[i].use_count = grants[i].use_count
        BY <2>3 DEF QuietStep, Revoke, TypeOK, GrantsType, GrantRow
      <4> QED BY <3>2, <4>1 DEF AgentInv, AgentOK, AgentIdOf
    <3> QED BY <2>3, <3>1, <3>2 DEF QuietStep
  <2> QED BY <2>1, <2>2, <2>3, OtherSteps
<1>3. AgentInv => AgentsNeverSelfAuthorize
  BY DEF AgentInv, AgentOK, AgentsNeverSelfAuthorize
<1> QED BY <1>1, <1>2, <1>3, TypeCorrect, PTL DEF Spec

-----------------------------------------------------------------------------
(* Session grants die with their session.                                    *)

\* The session a scope names is still on.
Alive(s) ==
    /\ s.kind = "Agent" => s.id \in DOMAIN agentSessions /\ agentSessions[s.id].status = "Running"
    /\ s.kind = "Daemon" => s.id \in DOMAIN daemonSessions /\ daemonSessions[s.id] = "open"

\* Only Session grants name one, which the revocations rely on.
SessionOK(g) ==
    /\ g.session # {} => g.lifetime = "Session"
    /\ ~g.revoked => \A s \in g.session : Alive(s)

\* A serving daemon's own session is the open last one; a confirmation's grant
\* is never for an agent.
Serving == up => Len(daemonSessions) # 0 /\ daemonSessions[Len(daemonSessions)] = "open"
ConfirmsForUsers == \A o \in op : o.path = "confirm" => o.agent = {}

SessionInv == Serving /\ ConfirmsForUsers /\ \A i \in DOMAIN grants : SessionOK(grants[i])

LEMMA RevokedRow ==
    ASSUME NEW g \in GrantRow
    PROVE  /\ Revoke(g).session = g.session /\ Revoke(g).lifetime = g.lifetime
           /\ Revoke(g).revoked
BY DEF Revoke, GrantRow

\* Steps that leave the sessions alone and at most revoke.
LEMMA SessionKept ==
    ASSUME TypeOK, SessionInv, UNCHANGED <<agentSessions, daemonSessions>>,
           DOMAIN grants' = DOMAIN grants,
           \A i \in DOMAIN grants : grants'[i] = grants[i] \/ grants'[i] = Revoke(grants[i])
    PROVE  \A i \in DOMAIN grants' : SessionOK(grants[i])'
<1> SUFFICES ASSUME NEW i \in DOMAIN grants PROVE SessionOK(grants[i])'
  OBVIOUS
<1>1. SessionOK(grants[i]) /\ grants[i] \in GrantRow
  BY DEF SessionInv, TypeOK, GrantsType
<1>2. CASE grants'[i] = grants[i]
  BY <1>1, <1>2 DEF SessionOK, Alive
<1>3. CASE grants'[i] = Revoke(grants[i])
  BY <1>1, <1>3, RevokedRow DEF SessionOK
<1> QED BY <1>2, <1>3

\* An operation adds at most the grant of a confirmation.
LEMMA SessionOperation ==
    ASSUME TypeOK, SessionInv, OperationStep
    PROVE  SessionInv'
<1>0. PICK o \in op : TRUE
  BY DEF OperationStep, Evaluate, Claim, ReturnRefusal, EvaluateConfirmed, Execute, RecordExecution,
         RecordUsage
<1>1. UNCHANGED <<up, agentSessions, daemonSessions>>
  BY DEF OperationStep, Evaluate, Claim, ReturnRefusal, EvaluateConfirmed, Execute, RecordExecution,
         RecordUsage, db
<1>2. Serving'
  BY <1>1 DEF SessionInv, Serving
<1>3. ConfirmsForUsers'
  BY <1>0, OperationSteps DEF SessionInv, ConfirmsForUsers, SameRequest
<1>4. CASE UNCHANGED grants
  BY <1>1, <1>2, <1>3, <1>4, SessionKept DEF SessionInv
<1>5. ASSUME NEW i \in ClaimCandidate(o), grants' = [grants EXCEPT ![i].use_count = @ + 1]
      PROVE  SessionInv'
  <2>1. \A g \in GrantRow : \A n : LET u == [g EXCEPT !.use_count = n]
                                  IN /\ u.session = g.session /\ u.lifetime = g.lifetime
                                     /\ u.revoked = g.revoked
    BY DEF GrantRow
  <2>2. \A j \in DOMAIN grants : grants[j] \in GrantRow
    BY DEF TypeOK, GrantsType
  <2>3. /\ DOMAIN grants' = DOMAIN grants
        /\ \A j \in DOMAIN grants : /\ grants'[j].session = grants[j].session
                                     /\ grants'[j].lifetime = grants[j].lifetime
                                     /\ grants'[j].revoked = grants[j].revoked
    BY <1>5, <2>1, <2>2
  <2> QED BY <1>1, <1>2, <1>3, <2>3 DEF SessionInv, SessionOK, Alive
<1>6. ASSUME NEW id, grants' = Put(grants, id, ConfirmedGrant(o)), o.path = "confirm"
      PROVE  SessionInv'
  <2> DEFINE g == ConfirmedGrant(o)
  <2>1. o.agent = {}
    BY <1>6 DEF SessionInv, ConfirmsForUsers
  <2>2. /\ g.lifetime = o.persistence
        /\ g.session = IF o.persistence = "Session" THEN PermissionSession(o) ELSE {}
    BY DEF ConfirmedGrant, NewGrant
  <2>3. \A s \in PermissionSession(o) : s.kind = "Chat"
    BY <2>1 DEF PermissionSession, SessionScope
  <2>4. /\ g.session # {} => g.lifetime = "Session"
        /\ \A s \in g.session : s.kind = "Chat"
    BY <2>2, <2>3
  <2>5. /\ DOMAIN grants' = DOMAIN grants \cup {id} /\ grants'[id] = g
        /\ \A j \in DOMAIN grants : j # id => grants'[j] = grants[j]
    BY <1>6 DEF Put
  <2> HIDE DEF g
  <2>6. ASSUME NEW j \in DOMAIN grants' PROVE SessionOK(grants[j])'
    <3>1. CASE j = id
      BY <2>4, <2>5, <3>1 DEF SessionOK, Alive
    <3>2. CASE j # id
      BY <1>1, <2>5, <3>2 DEF SessionInv, SessionOK, Alive
    <3> QED BY <3>1, <3>2
  <2> QED BY <1>2, <1>3, <2>6 DEF SessionInv
<1>7. CASE op' = {}
  BY <1>0, <1>4, <1>7, OperationEnds
<1>8. ASSUME NEW x \in op' PROVE SessionInv'
  <2>1. ASSUME Execute(x.status) PROVE UNCHANGED grants
    BY <2>1 DEF Execute, db
  <2> QED BY <1>0, <1>4, <1>5, <1>6, <1>8, <2>1, OperationSteps
<1> QED BY <1>7, <1>8

\* A grant the user saves is for no session, a chat's, a running agent's or the
\* current daemon's.
LEMMA SessionUpsert ==
    ASSUME TypeOK, SessionInv, NEW input \in GrantInputs, NEW id \in GrantIds,
           UpsertPermissionGrant(input, id)
    PROVE  SessionInv'
<1>1. PICK session \in AcceptedSessions(input) :
        LET g == NewGrant(input.effect, input.lifetime, input.app, input.class, session,
                          input.agent, now, IF input.lifetime = "Until" THEN input.expires ELSE {})
        IN ValidGrant(g) /\ grants' = Put(grants, id, Stored(id, g))
  BY DEF UpsertPermissionGrant
<1> DEFINE g == NewGrant(input.effect, input.lifetime, input.app, input.class, session,
                         input.agent, now, IF input.lifetime = "Until" THEN input.expires ELSE {})
<1>2. /\ up /\ op' = {} /\ UNCHANGED <<up, agentSessions, daemonSessions>>
      /\ grants' = Put(grants, id, Stored(id, g))
  BY <1>1 DEF UpsertPermissionGrant, LockFree
<1>3. g.session = session /\ g.lifetime = input.lifetime
  BY DEF NewGrant
<1>4. Stored(id, g).session = session /\ Stored(id, g).lifetime = input.lifetime
  BY <1>3 DEF Stored, NewGrant
<1>5. session # {} => input.lifetime = "Session"
  BY <1>1 DEF AcceptedSessions
<1>6. Len(daemonSessions) \in DOMAIN daemonSessions /\ daemonSessions[Len(daemonSessions)] = "open"
  BY <1>2 DEF SessionInv, Serving, TypeOK, SessionsType
<1>7. \A s \in session : Alive(s)
  BY <1>1, <1>6 DEF AcceptedSessions, SessionScope, Alive
<1>8. /\ DOMAIN grants' = DOMAIN grants \cup {id} /\ grants'[id] = Stored(id, g)
      /\ \A j \in DOMAIN grants : j # id => grants'[j] = grants[j]
  BY <1>2 DEF Put
<1> HIDE DEF g
<1>9. ASSUME NEW j \in DOMAIN grants' PROVE SessionOK(grants[j])'
  <2>1. CASE j = id
    BY <1>2, <1>4, <1>5, <1>7, <1>8, <2>1 DEF SessionOK, Alive
  <2>2. CASE j # id
    BY <1>2, <1>8, <2>2 DEF SessionInv, SessionOK, Alive
  <2> QED BY <2>1, <2>2
<1> QED BY <1>2, <1>9 DEF SessionInv, Serving, ConfirmsForUsers
\* What revoking the grants of some sessions leaves.
LEMMA SessionsRevoked ==
    ASSUME TypeOK, SessionInv, NEW kinds, NEW ids, grants' = RevokeSessions(kinds, ids)
    PROVE  /\ DOMAIN grants' = DOMAIN grants
           /\ \A i \in DOMAIN grants :
                 /\ grants[i].session \subseteq SessionScopes
                 /\ grants'[i].session = grants[i].session
                 /\ grants'[i].lifetime = grants[i].lifetime
                 /\ grants[i].session # {} => grants[i].lifetime = "Session"
                 /\ ~grants'[i].revoked => \A s \in grants[i].session :
                                             Alive(s) /\ ~(s.kind \in kinds /\ s.id \in ids)
<1>1. \A i \in DOMAIN grants : grants[i] \in GrantRow /\ SessionOK(grants[i])
  BY DEF TypeOK, GrantsType, SessionInv
<1>2. DOMAIN grants' = DOMAIN grants
  BY DEF RevokeSessions
<1>3. ASSUME NEW i \in DOMAIN grants
      PROVE  /\ grants[i].session \subseteq SessionScopes
             /\ grants'[i].session = grants[i].session
             /\ grants'[i].lifetime = grants[i].lifetime
             /\ grants[i].session # {} => grants[i].lifetime = "Session"
             /\ ~grants'[i].revoked => \A s \in grants[i].session :
                                         Alive(s) /\ ~(s.kind \in kinds /\ s.id \in ids)
  <2>1. grants[i].session \subseteq SessionScopes
    BY <1>1 DEF GrantRow
  <2>2. grants[i].session # {} => grants[i].lifetime = "Session"
    BY <1>1 DEF SessionOK
  <2>3. CASE \E s \in grants[i].session : s.kind \in kinds /\ s.id \in ids
    <3>1. grants'[i] = Revoke(grants[i])
      BY <2>2, <2>3 DEF RevokeSessions
    <3> QED BY <1>1, <2>1, <2>2, <3>1, RevokedRow
  <2>4. CASE ~(\E s \in grants[i].session : s.kind \in kinds /\ s.id \in ids)
    <3>1. grants'[i] = grants[i]
      BY <2>4 DEF RevokeSessions
    <3> QED BY <1>1, <2>1, <2>2, <2>4, <3>1 DEF SessionOK
  <2> QED BY <2>3, <2>4
<1> QED BY <1>2, <1>3

\* A run that begins ends no session.
LEMMA SessionBegin ==
    ASSUME TypeOK, SessionInv, NEW agent, NEW n, BeginAgentRun(agent, n)
    PROVE  SessionInv'
<1>1. /\ UNCHANGED <<grants, daemonSessions, up, op>>
      /\ agentSessions' = Append(agentSessions, [agent_id |-> agent, status |-> "Running"])
  BY DEF BeginAgentRun
<1>2. \A i \in DOMAIN agentSessions : i \in DOMAIN agentSessions' /\ agentSessions'[i] = agentSessions[i]
  BY <1>1 DEF TypeOK, SessionsType
<1>3. ASSUME NEW i \in DOMAIN grants' PROVE SessionOK(grants[i])'
  BY <1>1, <1>2 DEF SessionInv, SessionOK, Alive
<1> QED BY <1>1, <1>3 DEF SessionInv, Serving, ConfirmsForUsers

\* A run that ends revokes the grants of its own session, or fails to end it.
LEMMA SessionFinish ==
    ASSUME TypeOK, SessionInv, RunEnds
    PROVE  SessionInv'
<1>0. PICK status \in EndStatuses : FinishAgentRun(status)
  BY DEF RunEnds
<1>1. UNCHANGED <<daemonSessions, up, op>>
  BY <1>0 DEF FinishAgentRun
<1>2. CASE UNCHANGED <<agentSessions, grants>>
  BY <1>1, <1>2 DEF SessionInv, SessionOK, Alive, Serving, ConfirmsForUsers
<1>3. ASSUME NEW run \in agentRun,
             agentSessions' = [agentSessions EXCEPT ![run.session_id].status = status],
             grants' = RevokeSessions({"Agent"}, {run.session_id})
      PROVE  SessionInv'
  <2>1. /\ DOMAIN agentSessions' = DOMAIN agentSessions
        /\ \A i \in DOMAIN agentSessions :
              i # run.session_id => agentSessions'[i] = agentSessions[i]
    BY <1>3
  <2>2. PICK kinds, ids : kinds = {"Agent"} /\ ids = {run.session_id}
    OBVIOUS
  <2>3. grants' = RevokeSessions(kinds, ids)
    BY <1>3, <2>2
  <2>4. ASSUME NEW i \in DOMAIN grants' PROVE SessionOK(grants[i])'
    <3>1. /\ i \in DOMAIN grants /\ grants'[i].session = grants[i].session
          /\ grants'[i].lifetime = grants[i].lifetime
          /\ grants[i].session # {} => grants[i].lifetime = "Session"
          /\ ~grants'[i].revoked => \A s \in grants[i].session :
                                      Alive(s) /\ ~(s.kind \in kinds /\ s.id \in ids)
      BY <2>3, SessionsRevoked
    <3>2. ASSUME NEW s, Alive(s), ~(s.kind \in kinds /\ s.id \in ids) PROVE Alive(s)'
      BY <1>1, <2>1, <2>2, <3>2 DEF Alive
    <3> QED BY <3>1, <3>2 DEF SessionOK
  <2> QED BY <1>1, <2>4 DEF SessionInv, Serving, ConfirmsForUsers
<1> QED BY <1>0, <1>2, <1>3 DEF FinishAgentRun

\* A start ends every agent and daemon session and revokes the grants of all.
LEMMA SessionStart ==
    ASSUME TypeOK, SessionInv, StartDaemon
    PROVE  SessionInv'
<1> DEFINE ended == [i \in DOMAIN daemonSessions |-> "ended"]
<1>1. /\ daemonSessions' = Append(ended, "open") /\ UNCHANGED op
      /\ grants' = RevokeSessions({"Agent", "Daemon"}, Nat)
  BY DEF StartDaemon
<1>2. ended \in [DOMAIN daemonSessions -> {"open", "ended"}]
  OBVIOUS
<1>3. ended \in Seq({"open", "ended"})
  BY <1>2, SameLengthSeq DEF TypeOK, SessionsType
<1> HIDE DEF ended
<1>4. Serving'
  BY <1>1, <1>3 DEF Serving
<1>5. PICK kinds, ids : kinds = {"Agent", "Daemon"} /\ ids = Nat
  OBVIOUS
<1>6. grants' = RevokeSessions(kinds, ids)
  BY <1>1, <1>5
<1>7. \A s \in SessionScopes : s.kind \in {"Agent", "Daemon"} => s.id \in Nat
  BY DEF SessionScopes
<1>8. ASSUME NEW i \in DOMAIN grants' PROVE SessionOK(grants[i])'
  BY <1>5, <1>6, <1>7, SessionsRevoked DEF SessionOK, Alive
<1> QED BY <1>1, <1>4, <1>8 DEF SessionInv, ConfirmsForUsers

\* A stop ends the daemon's own session, the last one, and revokes its grants.
LEMMA SessionStop ==
    ASSUME TypeOK, SessionInv, StopDaemon
    PROVE  SessionInv'
<1>1. /\ daemonSessions' = [daemonSessions EXCEPT ![Len(daemonSessions)] = "ended"]
      /\ grants' = RevokeSessions({"Daemon"}, {Len(daemonSessions)})
      /\ UNCHANGED <<op, agentSessions>> /\ up' = FALSE
  BY DEF StopDaemon
<1>2. /\ DOMAIN daemonSessions' = DOMAIN daemonSessions
      /\ \A i \in DOMAIN daemonSessions :
            i # Len(daemonSessions) => daemonSessions'[i] = daemonSessions[i]
  BY <1>1
<1>3. PICK kinds, ids : kinds = {"Daemon"} /\ ids = {Len(daemonSessions)}
  OBVIOUS
<1>4. grants' = RevokeSessions(kinds, ids)
  BY <1>1, <1>3
<1>5. ASSUME NEW i \in DOMAIN grants' PROVE SessionOK(grants[i])'
  <2>1. /\ i \in DOMAIN grants /\ grants'[i].session = grants[i].session
        /\ grants'[i].lifetime = grants[i].lifetime
        /\ grants[i].session # {} => grants[i].lifetime = "Session"
        /\ ~grants'[i].revoked => \A s \in grants[i].session :
                                    Alive(s) /\ ~(s.kind \in kinds /\ s.id \in ids)
    BY <1>4, SessionsRevoked
  <2>2. ASSUME NEW s, Alive(s), ~(s.kind \in kinds /\ s.id \in ids) PROVE Alive(s)'
    BY <1>1, <1>2, <1>3, <2>2 DEF Alive
  <2> QED BY <2>1, <2>2 DEF SessionOK
<1> QED BY <1>1, <1>5 DEF SessionInv, Serving, ConfirmsForUsers

\* The other steps touch no session.
LEMMA SessionsUntouched ==
    ASSUME [Next]_vars
    PROVE  \/ OperationStep \/ RunEnds \/ StartDaemon \/ StopDaemon
           \/ \E input \in GrantInputs, id \in GrantIds : UpsertPermissionGrant(input, id)
           \/ \E agent \in Agents, n \in 0..MaxProposals : BeginAgentRun(agent, n)
           \/ UNCHANGED <<agentSessions, daemonSessions>> /\ (up' => up)
<1> USE DEF db
<1>1. CASE UNCHANGED vars
  BY <1>1 DEF vars
<1>2. ASSUME NEW path, NEW app, NEW chat, BeginRequest(path, app, chat)
      PROVE  UNCHANGED <<agentSessions, daemonSessions, up>>
  BY <1>2 DEF BeginRequest
<1>3. ASSUME NEW app, AgentProposes(app) PROVE UNCHANGED <<agentSessions, daemonSessions, up>>
  BY <1>3 DEF AgentProposes
<1>4. ASSUME NEW r, NEW a, DiscardConfirmation(r, a)
      PROVE  UNCHANGED <<agentSessions, daemonSessions, up>>
  BY <1>4 DEF DiscardConfirmation
<1>5. ASSUME NEW r, NEW p, NEW e, ConfirmAction(r, p, e)
      PROVE  UNCHANGED <<agentSessions, daemonSessions, up>>
  BY <1>5 DEF ConfirmAction
<1>6. ASSUME NEW id, RevokePermissionGrant(id) PROVE UNCHANGED <<agentSessions, daemonSessions, up>>
  BY <1>6 DEF RevokePermissionGrant
<1>7. ASSUME NEW p, UpdateSecurityProfile(p) PROVE UNCHANGED <<agentSessions, daemonSessions, up>>
  BY <1>7 DEF UpdateSecurityProfile
<1>8. ASSUME NEW app, NEW class, SetResourceLabel(app, class)
      PROVE  UNCHANGED <<agentSessions, daemonSessions, up>>
  BY <1>8 DEF SetResourceLabel
<1>9. ASSUME NEW configured, SetAgents(configured) PROVE UNCHANGED <<agentSessions, daemonSessions, up>>
  BY <1>9 DEF SetAgents
<1>10. ASSUME NEW t, Tick(t) PROVE UNCHANGED <<agentSessions, daemonSessions, up>>
  BY <1>10 DEF Tick
<1>11. CASE Crash
  BY <1>11 DEF Crash
<1> QED BY <1>1, <1>2, <1>3, <1>4, <1>5, <1>6, <1>7, <1>8, <1>9, <1>10, <1>11 DEF Next

\* A grant bound to an agent's or the daemon's session is never active once that
\* session is over, however the session ended (runtime.rs finish_agent_session,
\* begin_daemon_session and end_daemon_session).
THEOREM SessionGrantsDie == Spec => []SessionGrantsDieWithSession
<1>1. Init => SessionInv
  BY DEF Init, SessionInv, Serving, ConfirmsForUsers, EmptyTable
<1>2. SessionInv /\ TypeOK /\ [Next]_vars => SessionInv'
  <2> SUFFICES ASSUME SessionInv, TypeOK, [Next]_vars PROVE SessionInv'
    OBVIOUS
  <2>1. CASE OperationStep
    BY <2>1, SessionOperation
  <2>2. CASE \E input \in GrantInputs, id \in GrantIds : UpsertPermissionGrant(input, id)
    BY <2>2, SessionUpsert
  <2>3. CASE RunEnds \/ StartDaemon \/ StopDaemon
    BY <2>3, SessionFinish, SessionStart, SessionStop
  <2>4. CASE \E agent \in Agents, n \in 0..MaxProposals : BeginAgentRun(agent, n)
    BY <2>4, SessionBegin
  <2>5. CASE QuietStep /\ UNCHANGED <<agentSessions, daemonSessions>> /\ (up' => up)
    <3>1. Serving'
      BY <2>5 DEF SessionInv, Serving
    <3>2. ConfirmsForUsers'
      BY <2>5 DEF QuietStep, JustBegun, SessionInv, ConfirmsForUsers
    <3>3. \A i \in DOMAIN grants' : SessionOK(grants[i])'
      BY <2>5, SessionKept DEF QuietStep
    <3> QED BY <3>1, <3>2, <3>3 DEF SessionInv
  <2> QED BY <2>1, <2>2, <2>3, <2>4, <2>5, OtherSteps, SessionsUntouched
<1>3. SessionInv => SessionGrantsDieWithSession
  BY DEF SessionInv, SessionOK, Alive, SessionGrantsDieWithSession
<1> QED BY <1>1, <1>2, <1>3, TypeCorrect, PTL DEF Spec
-----------------------------------------------------------------------------
(* With a clock that is never set back, a claim always finds its grant.      *)

LEMMA LeastNat ==
    ASSUME NEW T \in SUBSET Nat, T # {}
    PROVE  \E x \in T : \A y \in T : x <= y
<1>1. PICK x \in T : \A y \in T : ~(<<y, x>> \in OpToRel(<, Nat))
  BY NatLessThanWellFounded, WFMin, Zenon
<1>2. \A y \in T : ~(y < x)
  <2> SUFFICES ASSUME NEW y \in T, y < x PROVE FALSE
    OBVIOUS
  <2>1. <<y, x>> \in OpToRel(<, Nat)
    BY DEF OpToRel
  <2> QED BY <1>1, <2>1, Zenon
<1> QED BY <1>2

\* Some grant of a non-empty set of grants made by now is a latest one.
LEMMA LatestExists ==
    ASSUME TypeOK, NEW ids \in SUBSET DOMAIN grants, ids # {},
           \A i \in DOMAIN grants : grants[i].granted_at <= now
    PROVE  Latest(ids) # {}
<1> DEFINE age == [i \in ids |-> now - grants[i].granted_at]
           Ages == {age[i] : i \in ids}
<1>1. now \in Nat /\ \A i \in ids : grants[i].granted_at \in Nat /\ grants[i].granted_at <= now
  BY DEF TypeOK, SettingsType, GrantsType, GrantRow
<1>2. Ages \in SUBSET Nat /\ Ages # {}
  BY <1>1
<1>3. PICK x \in Ages : \A y \in Ages : x <= y
  <2> HIDE DEF Ages
  <2> QED BY <1>2, LeastNat
<1>4. PICK i \in ids : x = age[i]
  BY <1>3
<1>5. \A j \in ids : age[i] <= age[j]
  BY <1>3, <1>4
<1>6. \A j \in ids : grants[i].granted_at >= grants[j].granted_at
  BY <1>1, <1>5
<1> QED BY <1>6 DEF Latest

\* The engine relies on a grant only when one it was shown allows the proposal.
LEMMA ReliedOnGrant ==
    ASSUME NEW cap, NEW prop, NEW ctx, NEW rw,
           AuthorizeProposal(cap, prop, ctx, rw).outcome = "Allow",
           AuthorizeProposal(cap, prop, ctx, rw).reason = "PersistentExactAllow"
    PROVE  \E g \in ctx.permission_grants : g.effect = "Allow"
<1>1. AuthorizeProposal(cap, prop, ctx, rw) = DecideByGrants(cap, prop, ctx, rw)
  BY DEF AuthorizeProposal, ContractViolated, Decide, Decision
<1>2. MatchingPermission(ctx, prop, "Allow") # {}
  <2>1. DecideByGrants(cap, prop, ctx, rw).reason = "PersistentExactAllow"
    BY <1>1
  <2>2. Baseline(cap, prop, ctx.profile, rw).reason # "PersistentExactAllow"
    BY EngineReasons
  <2> QED BY <2>1, <2>2 DEF DecideByGrants, Decision
<1> QED BY <1>2 DEF MatchingPermission

\* A grant the claim may take.
Claimable(o) == \E i \in ActiveIds(o, o.started_at) : grants[i].effect = "Allow"

\* Grants and operations date from now or before; an operation about to claim has
\* a grant to claim; only a serving daemon works.
OpClaims(o) ==
    /\ o.started_at <= now /\ o.stage # "refused"
    /\ o.stage = "claim" => Claimable(o)

ClaimInv ==
    /\ \A i \in DOMAIN grants : grants[i].granted_at <= now
    /\ \A o \in op : OpClaims(o)
    /\ op # {} => up

\* What the other steps may do to the grants under an operation in flight.
LEMMA ClaimsUndisturbed ==
    ASSUME TypeOK, ClaimInv, [Next]_vars, ClockMayStepBack = FALSE
    PROVE  \/ OperationStep
           \/ \E input \in GrantInputs, id \in GrantIds : UpsertPermissionGrant(input, id)
           \/ /\ now <= now' /\ (op' # {} => up')
              /\ UNCHANGED grants \/ op' = {}
              /\ \A x \in op' : x \in op \/ (x.stage = "begun" /\ x.started_at = now)
<1> USE DEF db
<1> DEFINE Goal == /\ now <= now' /\ (op' # {} => up')
                   /\ UNCHANGED grants \/ op' = {}
                   /\ \A x \in op' : x \in op \/ (x.stage = "begun" /\ x.started_at = now)
<1>0. /\ now \in Nat /\ (op # {} => up)
      /\ \A n \in Nat : n <= n
  BY DEF TypeOK, SettingsType, ClaimInv
<1>1. CASE UNCHANGED vars
  BY <1>0, <1>1 DEF vars
<1>2. ASSUME NEW path, NEW app, NEW chat, BeginRequest(path, app, chat) PROVE Goal
  <2>1. NewOp(path, app, labels[app], {}, chat).stage = "begun"
        /\ NewOp(path, app, labels[app], {}, chat).started_at = now
    BY DEF NewOp
  <2> QED BY <1>0, <1>2, <2>1 DEF BeginRequest, LockFree
<1>3. ASSUME NEW agent, NEW n, BeginAgentRun(agent, n) PROVE Goal
  BY <1>0, <1>3 DEF BeginAgentRun
<1>4. ASSUME NEW app, AgentProposes(app) PROVE Goal
  <2>1. PICK run \in agentRun : op' = {NewOp("agent", app, labels[app],
                        {[agent_id |-> run.agent_id, session_id |-> run.session_id]}, {})}
    BY <1>4 DEF AgentProposes
  <2>2. \A x \in op' : x.stage = "begun" /\ x.started_at = now
    BY <2>1 DEF NewOp
  <2> QED BY <1>0, <1>4, <2>2 DEF AgentProposes
<1>5. CASE RunEnds
  BY <1>0, <1>5 DEF RunEnds, FinishAgentRun
<1>6. ASSUME NEW r, NEW a, DiscardConfirmation(r, a) PROVE Goal
  BY <1>0, <1>6 DEF DiscardConfirmation
<1>7. ASSUME NEW r, NEW p, NEW e, ConfirmAction(r, p, e) PROVE Goal
  <2> DEFINE new == NewOp("confirm", pending[r].app, pending[r].class, {}, pending[r].chat)
             x == [new EXCEPT !.request = {r}, !.persistence = p, !.expiry = e]
  <2>1. x.stage = "begun" /\ x.started_at = now
    BY DEF NewOp
  <2>2. op' = {x}
    BY <1>7 DEF ConfirmAction
  <2> HIDE DEF x
  <2> QED BY <1>0, <1>7, <2>1, <2>2 DEF ConfirmAction, LockFree
<1>8. ASSUME NEW id, RevokePermissionGrant(id) PROVE Goal
  BY <1>0, <1>8 DEF RevokePermissionGrant, LockFree
<1>9. ASSUME \/ \E p \in Profiles : UpdateSecurityProfile(p)
             \/ \E app \in Apps, class \in Classes : SetResourceLabel(app, class)
             \/ \E configured \in SUBSET Agents : SetAgents(configured)
      PROVE  Goal
  BY <1>0, <1>9 DEF UpdateSecurityProfile, SetResourceLabel, SetAgents
<1>10. ASSUME NEW t \in 0..MaxTime, Tick(t) PROVE Goal
  <2>1. t \in Nat
    BY AuthorityAssumption DEF AuthorityAssumption
  <2> QED BY <1>0, <1>10, <2>1 DEF Tick
<1>11. CASE StartDaemon
  BY <1>0, <1>11 DEF StartDaemon
<1>12. CASE StopDaemon
  BY <1>0, <1>12 DEF StopDaemon, LockFree
<1>13. CASE Crash
  BY <1>0, <1>13 DEF Crash
<1> QED BY <1>1, <1>2, <1>3, <1>4, <1>5, <1>6, <1>7, <1>8, <1>9, <1>10, <1>11, <1>12, <1>13 DEF Next

\* The same request claims the same grants while they stand.
LEMMA SameClaims ==
    ASSUME NEW o, NEW x, SameRequest(x, o), UNCHANGED grants, Claimable(o)
    PROVE  Claimable(x)'
BY DEF SameRequest, Claimable, ActiveIds, StoredActive, ProposalOf, PermissionSession, AgentIdOf

LEMMA ClaimOperation ==
    ASSUME TypeOK, TypeOK', ClaimInv, OperationStep
    PROVE  ClaimInv'
<1>0. PICK o \in op : TRUE
  BY DEF OperationStep, Evaluate, Claim, ReturnRefusal, EvaluateConfirmed, Execute, RecordExecution,
         RecordUsage
<1>1. UNCHANGED <<up, now>>
  BY DEF OperationStep, Evaluate, Claim, ReturnRefusal, EvaluateConfirmed, Execute, RecordExecution,
         RecordUsage, db
<1>2. /\ OpClaims(o) /\ up /\ now \in Nat /\ o.started_at \in Nat
      /\ \A i \in DOMAIN grants : grants[i] \in GrantRow /\ grants[i].granted_at <= now
  BY DEF ClaimInv, TypeOK, SettingsType, GrantsType, OpType, OpRow
<1>3. CASE op' = {}
  BY <1>0, <1>1, <1>3, OperationEnds DEF ClaimInv
<1>4. CASE op' # {}
  <2>1. PICK x \in op' : op' = {x}
    BY <1>4 DEF TypeOK, OpType, AtMostOne
  <2>2. SameRequest(x, o) /\ x.started_at <= now
    BY <1>2, OperationSteps DEF SameRequest, OpClaims
  <2>3. ASSUME UNCHANGED grants, OpClaims(x)' PROVE ClaimInv'
    BY <1>1, <1>2, <2>1, <2>3 DEF ClaimInv
  <2>4. ASSUME x.stage \notin {"claim", "refused"} PROVE OpClaims(x)'
    BY <1>1, <2>2, <2>4 DEF OpClaims
  <2>5. ASSUME NEW loaded \in LoadedOptions(o, now), UNCHANGED grants, x.stage = "claim",
               AuthorizeProposal(OpenApp, ProposalOf(o), PolicyContextOf(o, loaded), TRUE).outcome
                  = "Allow",
               AuthorizeProposal(OpenApp, ProposalOf(o), PolicyContextOf(o, loaded), TRUE).reason
                  = "PersistentExactAllow"
        PROVE  OpClaims(x)'
    <3>1. \E g \in PolicyContextOf(o, loaded).permission_grants : g.effect = "Allow"
      BY <2>5, ReliedOnGrant
    <3>2. PICK i \in loaded : grants[i].effect = "Allow"
      BY <3>1 DEF PolicyContextOf
    <3>3. i \in ActiveIds(o, now)
      BY <2>5 DEF LoadedOptions, LoadedGrant, Latest
    <3>4. i \in ActiveIds(o, o.started_at)
      <4>1. i \in DOMAIN grants /\ grants[i].expires_at \subseteq Nat
        BY <1>2, <3>3 DEF ActiveIds, GrantRow
      <4>2. \A e \in grants[i].expires_at : e >= now => e >= o.started_at
        BY <1>2, <4>1 DEF OpClaims
      <4> QED BY <3>3, <4>2 DEF ActiveIds, StoredActive
    <3>5. Claimable(x)'
      BY <2>2, <2>5, <3>2, <3>4, SameClaims DEF Claimable
    <3> QED BY <1>1, <2>2, <2>5, <3>5 DEF OpClaims
  <2>6. ASSUME o.stage = "claim" PROVE ClaimCandidate(o) # {}
    <3> DEFINE ids == {i \in ActiveIds(o, o.started_at) : grants[i].effect = "Allow"}
    <3>1. ids \in SUBSET DOMAIN grants /\ ids # {}
      BY <1>2, <2>6 DEF OpClaims, Claimable, ActiveIds
    <3> HIDE DEF ids
    <3>2. Latest(ids) # {}
      BY <1>2, <3>1, LatestExists
    <3> QED BY <3>2 DEF ClaimCandidate, ids
  <2>7. ASSUME NEW i \in ClaimCandidate(o), x.stage = "authorized",
               grants' = [grants EXCEPT ![i].use_count = @ + 1]
        PROVE  ClaimInv'
    <3>1. \A g \in GrantRow : \A n : [g EXCEPT !.use_count = n].granted_at = g.granted_at
      BY DEF GrantRow
    <3>2. \A j \in DOMAIN grants' : grants'[j].granted_at <= now
      BY <1>2, <2>7, <3>1
    <3> QED BY <1>1, <1>2, <2>1, <2>4, <2>7, <3>2 DEF ClaimInv
  <2>8. ASSUME NEW id, grants' = Put(grants, id, ConfirmedGrant(o)), x.stage = "authorized"
        PROVE  ClaimInv'
    <3>1. ConfirmedGrant(o).granted_at = o.started_at
      BY DEF ConfirmedGrant, NewGrant
    <3>2. \A j \in DOMAIN grants' : grants'[j].granted_at <= now
      BY <1>2, <2>8, <3>1 DEF Put, OpClaims
    <3> QED BY <1>1, <1>2, <2>1, <2>4, <2>8, <3>2 DEF ClaimInv
  <2>9. ASSUME Execute(x.status) PROVE UNCHANGED grants
    BY <2>9 DEF Execute, db
  <2> QED BY <2>3, <2>4, <2>5, <2>6, <2>7, <2>8, <2>9, OperationSteps
<1> QED BY <1>3, <1>4

LEMMA ClaimUpsert ==
    ASSUME TypeOK, ClaimInv, NEW input, NEW id, UpsertPermissionGrant(input, id)
    PROVE  ClaimInv'
<1>1. PICK session :
        LET g == NewGrant(input.effect, input.lifetime, input.app, input.class, session,
                          input.agent, now, IF input.lifetime = "Until" THEN input.expires ELSE {})
        IN grants' = Put(grants, id, Stored(id, g))
  BY DEF UpsertPermissionGrant
<1> DEFINE g == NewGrant(input.effect, input.lifetime, input.app, input.class, session,
                         input.agent, now, IF input.lifetime = "Until" THEN input.expires ELSE {})
<1>2. now \in Nat /\ op' = {} /\ UNCHANGED now
  BY DEF UpsertPermissionGrant, LockFree, TypeOK, SettingsType
<1>3. Stored(id, g).granted_at = IF id \in DOMAIN grants THEN grants[id].granted_at ELSE now
  BY DEF Stored, NewGrant
<1>4. grants' = Put(grants, id, Stored(id, g))
  BY <1>1
<1> HIDE DEF g
<1>5. \A j \in DOMAIN grants' : grants'[j].granted_at <= now
  BY <1>2, <1>3, <1>4 DEF Put, ClaimInv
<1> QED BY <1>2, <1>5 DEF ClaimInv

LEMMA ClaimInvariant ==
    ASSUME ClockMayStepBack = FALSE
    PROVE  Spec => []ClaimInv
<1>1. Init => ClaimInv
  BY DEF Init, ClaimInv, EmptyTable
<1>2. ClaimInv /\ TypeOK /\ TypeOK' /\ [Next]_vars => ClaimInv'
  <2> SUFFICES ASSUME ClaimInv, TypeOK, TypeOK', [Next]_vars PROVE ClaimInv'
    OBVIOUS
  <2>1. CASE OperationStep
    BY <2>1, ClaimOperation
  <2>2. CASE \E input \in GrantInputs, id \in GrantIds : UpsertPermissionGrant(input, id)
    BY <2>2, ClaimUpsert
  <2>3. ASSUME now <= now', op' # {} => up', UNCHANGED grants \/ op' = {},
               \A x \in op' : x \in op \/ (x.stage = "begun" /\ x.started_at = now),
               QuietStep
        PROVE  ClaimInv'
    <3>0. /\ now \in Nat /\ now' \in Nat
          /\ \A i \in DOMAIN grants : grants[i] \in GrantRow /\ grants[i].granted_at <= now
          /\ \A x \in op' : x.started_at \in Nat
      BY DEF TypeOK, SettingsType, GrantsType, OpType, OpRow, ClaimInv
    <3>1. \A i \in DOMAIN grants' : grants'[i].granted_at <= now'
      <4>1. \A g \in GrantRow : Revoke(g).granted_at = g.granted_at /\ g.granted_at \in Nat
        BY DEF Revoke, GrantRow
      <4>2. ASSUME NEW i \in DOMAIN grants PROVE grants'[i].granted_at = grants[i].granted_at
        BY <2>3, <3>0, <4>1, <4>2 DEF QuietStep
      <4> QED BY <2>3, <3>0, <4>1, <4>2 DEF QuietStep
    <3>2. ASSUME NEW x \in op' PROVE OpClaims(x)'
      <4>1. CASE x \in op
        <5>1. SameRequest(x, x) /\ OpClaims(x) /\ UNCHANGED grants
          BY <2>3, <3>2, <4>1 DEF SameRequest, ClaimInv
        <5>2. x.stage = "claim" => Claimable(x)'
          BY <5>1, SameClaims DEF OpClaims
        <5> QED BY <2>3, <3>0, <5>1, <5>2 DEF OpClaims
      <4>2. CASE x.stage = "begun" /\ x.started_at = now
        BY <2>3, <3>0, <4>2 DEF OpClaims
      <4> QED BY <2>3, <4>1, <4>2
    <3> QED BY <2>3, <3>1, <3>2 DEF ClaimInv
  <2> QED BY <2>1, <2>2, <2>3, OtherSteps, ClaimsUndisturbed
<1> QED BY <1>1, <1>2, TypeCorrect, PTL DEF Spec

\* While the wall clock only moves forward, an action allowed on a stored grant is
\* never refused at the claim that follows: the grant the engine saw at decision
\* time is still there for the request's own, earlier, timestamp
\* (service.rs process_proposal, claim_permission_for_proposal).
THEOREM ClaimsAreNeverRefused ==
    ASSUME ClockMayStepBack = FALSE
    PROVE  Spec => []ClaimIsNeverRefused
<1>1. ClaimInv => ClaimIsNeverRefused
  BY DEF ClaimInv, OpClaims, ClaimIsNeverRefused
<1> QED BY <1>1, ClaimInvariant, PTL

-----------------------------------------------------------------------------
(* Under that clock, what was decided still stands when the executor runs.   *)

\* No live Deny grant covers an operation that was allowed, and the grant it
\* rests on, if any, is what it was.
Uncontested(o) == \A i \in ActiveIds(o, now) : grants[i].effect # "Deny"
Rests(o) ==
    \A i \in o.grant : /\ i \in DOMAIN grants
                       /\ grants[i].effect = "Allow" /\ ~grants[i].revoked
                       /\ grants[i].scope = ScopeOf(ProposalOf(o))
                       /\ grants[i].agent_id = AgentIdOf(o)
StandingOK(o) ==
    /\ o.stage = "begun" => o.grant = {}
    /\ o.stage \in {"claim", "authorized"} => Uncontested(o)
    /\ o.stage = "authorized" => Rests(o)

StandingInv == \A o \in op : StandingOK(o)

\* A Deny grant that is active is the one the query returns, and then the engine
\* refuses (storage/security.rs active_permission_grant_for_proposal, engine.rs).
LEMMA DenyIsLoaded ==
    ASSUME TypeOK, ClaimInv, NEW o \in op, NEW loaded \in LoadedOptions(o, now),
           NEW i \in ActiveIds(o, now), grants[i].effect = "Deny"
    PROVE  LET ctx == PolicyContextOf(o, loaded)
           IN  /\ AuthorizeProposal(OpenApp, ProposalOf(o), ctx, TRUE).outcome # "Allow"
               /\ AuthorizeConfirmed(OpenApp, ProposalOf(o), ctx, TRUE).outcome # "Allow"
<1> DEFINE deny == {j \in ActiveIds(o, now) : grants[j].effect = "Deny"}
           ctx == PolicyContextOf(o, loaded)
           prop == ProposalOf(o)
<1>1. deny \in SUBSET DOMAIN grants /\ deny # {}
  BY DEF ActiveIds
<1>2. Latest(deny) # {} /\ LoadedGrant(o, now) = Latest(deny)
  <2>1. LoadedGrant(o, now) = Latest(deny)
    BY <1>1 DEF LoadedGrant
  <2> HIDE DEF deny
  <2> QED
    BY <1>1, <2>1, LatestExists DEF ClaimInv
<1>3. PICK j \in Latest(deny) : loaded = {j}
  BY <1>2 DEF LoadedOptions
<1>4. j \in ActiveIds(o, now) /\ grants[j].effect = "Deny"
  BY <1>3 DEF Latest
<1>5. grants[j] \in MatchingPermission(ctx, prop, "Deny")
  BY <1>3, <1>4 DEF MatchingPermission, PolicyContextOf, IsActive, Live, Matches, ActiveIds,
                    StoredActive
<1> HIDE DEF ctx, prop
<1>6. DecideByGrants(OpenApp, prop, ctx, TRUE).outcome = "Deny"
  BY <1>5 DEF DecideByGrants, Decision
<1>7. Decide(OpenApp, prop, ctx, TRUE).outcome = "Deny"
  BY <1>6 DEF Decide, Decision
<1> QED
  BY <1>7 DEF AuthorizeProposal, AuthorizeConfirmed, ContractViolated, Decision, ctx, prop

\* A confirmed operation that rests on a grant rests on one that allows it.
LEMMA ConfirmedRests ==
    ASSUME NEW o \in op, NEW loaded \in LoadedOptions(o, now),
           AuthorizeConfirmed(OpenApp, ProposalOf(o), PolicyContextOf(o, loaded), TRUE).reason
              = "PersistentExactAllow",
           NEW i \in loaded
    PROVE  i \in ActiveIds(o, now) /\ grants[i].effect = "Allow"
<1> DEFINE ctx == PolicyContextOf(o, loaded)
           prop == ProposalOf(o)
<1>1. i \in ActiveIds(o, now) /\ loaded = {i}
  BY DEF LoadedOptions, LoadedGrant, Latest
<1>2. \A g \in ctx.permission_grants : g = grants[i]
  BY <1>1 DEF PolicyContextOf
<1> HIDE DEF ctx, prop
<1>3. AuthorizeProposal(OpenApp, prop, ctx, TRUE)
         = AuthorizeConfirmed(OpenApp, prop, ctx, TRUE)
  BY DEF AuthorizeProposal, AuthorizeConfirmed, Decision, ctx, prop
<1>4. AuthorizeProposal(OpenApp, prop, ctx, TRUE).reason = "PersistentExactAllow"
  BY <1>3 DEF ctx, prop
<1>5. AuthorizeProposal(OpenApp, prop, ctx, TRUE) = DecideByGrants(OpenApp, prop, ctx, TRUE)
  <2>1. HardDenyReason(OpenApp, prop) # "PersistentExactAllow"
    BY DEF HardDenyReason
  <2> QED
    BY <1>4, <2>1 DEF AuthorizeProposal, ContractViolated, Decide, Decision
<1>6. AuthorizeProposal(OpenApp, prop, ctx, TRUE).outcome = "Allow"
  <2>1. DecideByGrants(OpenApp, prop, ctx, TRUE).reason = "PersistentExactAllow"
    BY <1>4, <1>5
  <2>2. DecideByGrants(OpenApp, prop, ctx, TRUE).outcome = "Allow"
    BY <2>1, EngineReasons DEF DecideByGrants, Decision
  <2> QED
    BY <1>5, <2>2
<1>7. \E g \in ctx.permission_grants : g.effect = "Allow"
  BY <1>4, <1>6, ReliedOnGrant
<1> QED
  BY <1>1, <1>2, <1>7

\* The grants an operation finds do not depend on its stage.
LEMMA SameActive ==
    ASSUME NEW o, NEW x, SameRequest(x, o), NEW t
    PROVE  /\ ActiveIds(x, t) = ActiveIds(o, t)
           /\ ProposalOf(x) = ProposalOf(o) /\ AgentIdOf(x) = AgentIdOf(o)
           /\ PermissionSession(x) = PermissionSession(o)
BY DEF SameRequest, ActiveIds, ProposalOf, PermissionSession, AgentIdOf

LEMMA StandingOperation ==
    ASSUME TypeOK, ClaimInv, StandingInv, OperationStep, NEW x \in op'
    PROVE  StandingOK(x)'
<1>0. PICK o \in op : StandingOK(o)
  BY DEF OperationStep, Evaluate, Claim, ReturnRefusal, EvaluateConfirmed, Execute, RecordExecution,
         RecordUsage, StandingInv
<1>1. UNCHANGED now
  BY DEF OperationStep, Evaluate, Claim, ReturnRefusal, EvaluateConfirmed, Execute, RecordExecution,
         RecordUsage, db
<1>2. SameRequest(x, o)
  BY OperationSteps
<1>3. /\ ProposalOf(x) = ProposalOf(o) /\ AgentIdOf(x) = AgentIdOf(o)
      /\ PermissionSession(x) = PermissionSession(o) /\ ActiveIds(x, now) = ActiveIds(o, now)
  BY <1>2, SameActive
<1>4. \A i \in DOMAIN grants : grants[i] \in GrantRow
  BY DEF TypeOK, GrantsType
\* The grants of the next state that cover the operation.
<1> DEFINE Covers(i) == StoredActive(grants'[i], ScopeOf(ProposalOf(o)), PermissionSession(o),
                                     AgentIdOf(o), now)
<1>5. ASSUME \A i \in DOMAIN grants' : Covers(i) => grants'[i].effect # "Deny"
      PROVE  Uncontested(x)'
  BY <1>1, <1>3, <1>5 DEF Uncontested, ActiveIds, ProposalOf, PermissionSession, AgentIdOf
<1>6. ASSUME \A i \in x.grant : /\ i \in DOMAIN grants'
                                /\ grants'[i].effect = "Allow" /\ ~grants'[i].revoked
                                /\ grants'[i].scope = ScopeOf(ProposalOf(o))
                                /\ grants'[i].agent_id = AgentIdOf(o)
      PROVE  Rests(x)'
  BY <1>3, <1>6 DEF Rests, ProposalOf, AgentIdOf
<1>7. ASSUME x.stage \notin {"begun", "claim", "authorized"}
      PROVE  StandingOK(x)'
  BY <1>7 DEF StandingOK
<1>8. ASSUME x.stage \in {"claim", "authorized"}, Uncontested(x)', Rests(x)'
      PROVE  StandingOK(x)'
  BY <1>8 DEF StandingOK
<1>9. ASSUME o.stage = "begun", x.grant = o.grant, x.stage \in {"claim", "authorized"},
             NEW loaded \in LoadedOptions(o, now), UNCHANGED grants,
             AuthorizeProposal(OpenApp, ProposalOf(o), PolicyContextOf(o, loaded), TRUE).outcome
                = "Allow"
      PROVE  StandingOK(x)'
  <2>1. Uncontested(o) /\ x.grant = {}
    BY <1>0, <1>9, DenyIsLoaded DEF Uncontested, StandingOK
  <2>2. Uncontested(x)'
    BY <1>5, <1>9, <2>1 DEF Uncontested, ActiveIds
  <2>3. Rests(x)'
    BY <1>6, <2>1
  <2> QED
    BY <1>8, <1>9, <2>2, <2>3
<1>10. ASSUME o.stage = "claim", x.stage = "authorized", NEW i \in ClaimCandidate(o),
              x.grant = {i}, grants' = [grants EXCEPT ![i].use_count = @ + 1]
       PROVE  StandingOK(x)'
  <2>1. Uncontested(o)
    BY <1>0, <1>10 DEF StandingOK
  <2>2. /\ i \in DOMAIN grants /\ grants[i].effect = "Allow" /\ ~grants[i].revoked
        /\ grants[i].scope = ScopeOf(ProposalOf(o)) /\ grants[i].agent_id = AgentIdOf(o)
    BY <1>10 DEF ClaimCandidate, Latest, ActiveIds, StoredActive
  <2>3. \A j \in DOMAIN grants :
           /\ grants'[j].effect = grants[j].effect /\ grants'[j].revoked = grants[j].revoked
           /\ grants'[j].scope = grants[j].scope /\ grants'[j].agent_id = grants[j].agent_id
           /\ j # i => grants'[j] = grants[j]
    BY <1>4, <1>10 DEF GrantRow
  <2>4. DOMAIN grants' = DOMAIN grants
    BY <1>10
  <2>5. Uncontested(x)'
    BY <1>5, <2>1, <2>2, <2>3, <2>4 DEF Uncontested, ActiveIds
  <2>6. Rests(x)'
    BY <1>6, <1>10, <2>2, <2>3, <2>4
  <2> QED
    BY <1>8, <1>10, <2>5, <2>6
<1>11. ASSUME o.stage = "begun", x.stage = "authorized", NEW loaded \in LoadedOptions(o, now),
              AuthorizeConfirmed(OpenApp, ProposalOf(o), PolicyContextOf(o, loaded), TRUE).outcome
                 = "Allow",
              x.grant = IF AuthorizeConfirmed(OpenApp, ProposalOf(o), PolicyContextOf(o, loaded),
                                              TRUE).reason = "PersistentExactAllow"
                        THEN loaded ELSE {},
              \/ UNCHANGED grants
              \/ \E id \in UnusedGrantIds : grants' = Put(grants, id, ConfirmedGrant(o))
       PROVE  StandingOK(x)'
  <2>1. Uncontested(o)
    BY <1>11, DenyIsLoaded DEF Uncontested
  <2>2. \A j \in DOMAIN grants : j \in DOMAIN grants' /\ grants'[j] = grants[j]
    BY <1>11 DEF Put, UnusedGrantIds
  <2>3. \A j \in DOMAIN grants' : j \in DOMAIN grants \/ grants'[j].effect = "Allow"
    <3>1. ConfirmedGrant(o).effect = "Allow"
      BY DEF ConfirmedGrant, NewGrant
    <3> QED
      BY <1>11, <3>1 DEF Put, UnusedGrantIds
  <2>4. Uncontested(x)'
    BY <1>5, <2>1, <2>2, <2>3 DEF Uncontested, ActiveIds
  <2>5. \A i \in x.grant : i \in ActiveIds(o, now) /\ grants[i].effect = "Allow"
    BY <1>11, ConfirmedRests
  <2>6. Rests(x)'
    BY <1>6, <2>2, <2>5 DEF ActiveIds, StoredActive
  <2> QED
    BY <1>8, <1>11, <2>4, <2>6
<1> QED
  BY <1>7, <1>9, <1>10, <1>11, OperationSteps

\* While the wall clock only moves forward, whatever other connections revoke,
\* deny or relabel, and however long the operation waited: when the executor runs,
\* no live Deny grant covers the proposal and the Allow grant it rests on stands
\* (service.rs process_proposal under the service mutex).
THEOREM AuthorityStands ==
    ASSUME ClockMayStepBack = FALSE
    PROVE  Spec => StandingAuthority
<1>1. Init => StandingInv
  BY DEF Init, StandingInv
<1>2. StandingInv /\ ClaimInv /\ TypeOK /\ TypeOK' /\ [Next]_vars => StandingInv'
  <2> SUFFICES ASSUME StandingInv, ClaimInv, TypeOK, TypeOK', [Next]_vars, NEW x \in op'
               PROVE  StandingOK(x)'
    BY DEF StandingInv
  <2>1. CASE OperationStep
    BY <2>1, StandingOperation
  <2>2. CASE \E input \in GrantInputs, id \in GrantIds : UpsertPermissionGrant(input, id)
    BY <2>2 DEF UpsertPermissionGrant, LockFree
  <2>3. ASSUME now <= now', UNCHANGED grants, QuietStep
        PROVE  StandingOK(x)'
    <3>1. CASE JustBegun(x)
      BY <3>1 DEF JustBegun, StandingOK
    <3>2. CASE x \in op
      <4>1. StandingOK(x)
        BY <3>2 DEF StandingInv
      <4>2. \A i \in DOMAIN grants : grants[i].expires_at \subseteq Nat /\ now \in Nat /\ now' \in Nat
        BY DEF TypeOK, GrantsType, GrantRow, SettingsType
      <4>3. \A i \in DOMAIN grants : (\A e \in grants[i].expires_at : e >= now') =>
                                     (\A e \in grants[i].expires_at : e >= now)
        BY <2>3, <4>2
      <4>4. Uncontested(x) => Uncontested(x)'
        BY <2>3, <4>3 DEF Uncontested, ActiveIds, StoredActive, ProposalOf, PermissionSession,
                          AgentIdOf
      <4>5. Rests(x) => Rests(x)'
        BY <2>3 DEF Rests, ProposalOf, AgentIdOf
      <4> QED
        BY <4>1, <4>4, <4>5 DEF StandingOK
    <3> QED
      BY <2>3, <3>1, <3>2 DEF QuietStep
  <2> QED
    BY <2>1, <2>2, <2>3, OtherSteps, ClaimsUndisturbed
<1> DEFINE Stands == \A o \in op : ExecutorRuns(o) =>
                        /\ \A i \in ActiveIds(o, now) : grants[i].effect # "Deny"
                        /\ \A i \in o.grant : /\ grants[i].effect = "Allow"
                                              /\ ~grants[i].revoked
                                              /\ grants[i].scope = ScopeOf(ProposalOf(o))
                                              /\ grants[i].agent_id = AgentIdOf(o)
<1>3. StandingInv => Stands
  BY DEF StandingInv, StandingOK, ExecutorRuns, Uncontested, Rests
<1> HIDE DEF Stands
<1>4. Spec => [][Stands]_vars
  BY <1>1, <1>2, <1>3, TypeCorrect, ClaimInvariant, PTL DEF Spec
<1> QED
  BY <1>4 DEF StandingAuthority, Stands
=============================================================================
