------------------------------- MODULE Policy -------------------------------
(***************************************************************************)
(* The deterministic policy engine (crates/policy) with the descriptor,     *)
(* context and grant checks it calls in crates/domain.  Pure operators: the *)
(* engine keeps no state.                                                   *)
(*                                                                          *)
(* An Option<T> of the code is a set with no element or with one, so that   *)
(* is_some_and reads \E and is_none_or reads \A.  Identifiers, wording and  *)
(* the display-only fields of a decision (rule_id, confirmation_level) are  *)
(* left out; every byte-level shape check of an input is its boolean        *)
(* `wellFormed`.                                                            *)
(***************************************************************************)
EXTENDS Naturals, Sequences

CONSTANTS
    MaxHops,         \* MAX_PROVENANCE_HOPS
    MaxResources     \* MAX_ACTION_RESOURCES

ASSUME BoundsAssumption == MaxHops \in Nat \ {0} /\ MaxResources \in Nat \ {0}

RiskClass == {"ReadOnly", "LocalSideEffect", "ReversibleLocalWrite",
              "ExternalSideEffect", "Destructive", "Privileged", "Unknown"}
ResourceClassification == {"Public", "Local", "Personal", "Sensitive",
                           "Secret", "Production", "SystemCritical"}
ActionOrigin == {"UserExplicit", "System", "LocalResolver", "AiProposal",
                 "ExternalContent", "Plugin", "StoredProcedure", "Agent"}
SecurityProfile == {"Strict", "Balanced", "Developer", "Custom"}
PolicyOutcome == {"Allow", "Confirm", "Deny"}
PolicyReason ==
    {"ReadOnlyBaseline", "LocalSideEffectBaseline", "ReversibleLocalWriteBaseline",
     "ReversibleLocalWriteRequiresConfirmation", "ExternalSideEffectRequiresConfirmation",
     "DestructiveRequiresConfirmation", "PrivilegedDenied", "UnknownRiskDenied",
     "CapabilityRequiresConfirmation", "MissingScope", "InvalidDescriptor",
     "InvalidActionContract", "UserConfirmedOnce", "InvalidProvenance",
     "ImmutableSecretExfiltrationDeny", "ImmutableProductionDestructiveDeny",
     "ImmutableSystemCriticalDeny", "UntrustedAuthorityMutationDenied",
     "SensitiveResourceRequiresConfirmation", "ProductionResourceRequiresConfirmation",
     "StrictProfileRequiresConfirmation", "PersistentExactAllow", "PersistentExactDeny",
     "AgentSideEffectRequiresConfirmation"}
PolicyDecision == [outcome : PolicyOutcome, reason : PolicyReason, hard_deny : BOOLEAN]

-----------------------------------------------------------------------------
(* Validation of the inputs (crates/domain).                                *)

\* CapabilityDescriptor::validate
ValidDescriptor(cap) ==
    /\ cap.wellFormed
    /\ cap.risk = "ReadOnly" => ~cap.side_effect /\ ~cap.reversible
    /\ cap.risk = "LocalSideEffect" => cap.side_effect /\ ~cap.reversible
    /\ cap.risk = "ReversibleLocalWrite" => cap.side_effect /\ cap.reversible
    /\ cap.risk \in {"ExternalSideEffect", "Destructive"} => cap.side_effect
    /\ cap.risk = "Destructive" => ~cap.reversible
    /\ cap.reversible => cap.side_effect

\* ActionContext::validate; hops is the sequence of the hops' origins.
ValidContext(prop) ==
    LET hops == prop.hops IN
    /\ Len(hops) \in 1..MaxHops
    /\ Len(prop.resources) <= MaxResources
    /\ prop.wellFormed
    /\ hops[Len(hops)] = prop.origin
    /\ prop.origin = "UserExplicit" => prop.trust = "UserExplicit" /\ prop.authority = "User"
    /\ prop.origin = "LocalResolver" =>
          prop.authority = "HalquenCore" /\ hops[1] = "UserExplicit"
    /\ prop.origin \in {"AiProposal", "ExternalContent", "Plugin", "Agent"} =>
          prop.authority = "None"
    /\ (prop.origin = "Agent") <=> (prop.agent # {})

-----------------------------------------------------------------------------
(* Permission grants.                                                       *)

\* PermissionScope::from_proposal: what a grant must equal to match.
ScopeOf(prop) ==
    [capability_id |-> prop.capability_id,
     arguments     |-> prop.arguments,
     resources     |-> prop.resources,
     destination   |-> {f.destination : f \in prop.data_flow}]

\* PermissionScope::matches
Matches(scope, prop) == scope = ScopeOf(prop)

\* The three conditions of is_active that do not depend on who asks.
Live(grant, now) ==
    /\ ~grant.revoked
    /\ \A t \in grant.expires_at : t >= now
    /\ \A n \in grant.use_limit : grant.use_count < n

\* Mutant: a session grant serves every session.
IsActive_AnySession(grant, now, session, agent) ==
    /\ Live(grant, now)
    /\ grant.agent_id = agent

\* PermissionGrant::is_active.  session and agent are options.
IsActive(grant, now, session, agent) ==
    /\ Live(grant, now)
    /\ grant.lifetime = "Session" => grant.session = session
    /\ grant.agent_id = agent

\* PolicyContext::matching_permission: the loaded grants of one effect that
\* apply; the code takes the first, and only its existence decides.
MatchingPermission(ctx, prop, effect) ==
    {g \in ctx.permission_grants :
        /\ g.effect = effect
        /\ IsActive(g, ctx.now_ms, ctx.session, ctx.agent_id)
        /\ Matches(g.scope, prop)}

-----------------------------------------------------------------------------
(* PolicyEngine::decide and baseline.                                       *)

Decision(outcome, reason, hard) ==
    [outcome |-> outcome, reason |-> reason, hard_deny |-> hard]

HasResource(prop, classes) ==
    \E i \in DOMAIN prop.resources : prop.resources[i].classification \in classes

SecretToExternal(prop) ==
    \E f \in prop.data_flow :
        /\ f.data_classification = "Secret" \/ f.source = "Secret"
        /\ f.destination \in {"External", "UntrustedExternal"}

ProductionDestructive(cap, prop) ==
    /\ cap.risk = "Destructive"
    /\ \/ HasResource(prop, {"Production"})
       \/ \E f \in prop.data_flow : f.data_classification = "Production"

DangerousSystemCritical(cap, prop) ==
    /\ HasResource(prop, {"SystemCritical"})
    /\ cap.risk \in {"Destructive", "Privileged", "ExternalSideEffect"}

\* authority_ns: the identifier starts with security., permission. or policy.
UntrustedAuthorityMutation(cap, prop) ==
    /\ prop.origin \in {"AiProposal", "ExternalContent", "Plugin", "Agent"}
    /\ cap.authority_ns

\* PolicyEngine::baseline, for allow_reversible_local_writes as the daemon
\* sets it (PolicyEngine::new) or as with_reversible_local_writes(false) does.
Baseline(cap, prop, profile, reversibleWrites) ==
    LET Confirm(reason) == Decision("Confirm", reason, FALSE)
        Allow(reason)   == Decision("Allow", reason, FALSE)
    IN
    IF HasResource(prop, {"Production"})
      THEN Confirm("ProductionResourceRequiresConfirmation")
    ELSE IF HasResource(prop, {"Sensitive", "Secret"})
      THEN Confirm("SensitiveResourceRequiresConfirmation")
    ELSE IF prop.origin = "Agent" /\ cap.side_effect
      THEN Confirm("AgentSideEffectRequiresConfirmation")
    ELSE IF profile = "Strict" /\ cap.side_effect
      THEN Confirm("StrictProfileRequiresConfirmation")
    ELSE IF cap.confirmation = "Always"
      THEN Confirm("CapabilityRequiresConfirmation")
    ELSE IF cap.risk = "ReadOnly" THEN Allow("ReadOnlyBaseline")
    ELSE IF cap.risk = "LocalSideEffect" THEN Allow("LocalSideEffectBaseline")
    ELSE IF cap.risk = "ReversibleLocalWrite" /\ reversibleWrites
      THEN Allow("ReversibleLocalWriteBaseline")
    ELSE IF cap.risk = "ReversibleLocalWrite"
      THEN Confirm("ReversibleLocalWriteRequiresConfirmation")
    ELSE IF cap.risk = "ExternalSideEffect"
      THEN Confirm("ExternalSideEffectRequiresConfirmation")
    ELSE Confirm("DestructiveRequiresConfirmation")

\* The part of decide that no profile, clock, grant or session can change once
\* every required scope is held.
HardDenyReason(cap, prop) ==
    IF ~ValidDescriptor(cap) THEN "InvalidDescriptor"
    ELSE IF ~ValidContext(prop) THEN "InvalidProvenance"
    ELSE IF SecretToExternal(prop) THEN "ImmutableSecretExfiltrationDeny"
    ELSE IF ProductionDestructive(cap, prop) THEN "ImmutableProductionDestructiveDeny"
    ELSE IF DangerousSystemCritical(cap, prop) THEN "ImmutableSystemCriticalDeny"
    ELSE IF UntrustedAuthorityMutation(cap, prop) THEN "UntrustedAuthorityMutationDenied"
    ELSE "None"

\* Grants and baseline: the tail of decide, after the immutable rules.
DecideByGrants(cap, prop, ctx, reversibleWrites) ==
    IF MatchingPermission(ctx, prop, "Deny") # {}
      THEN Decision("Deny", "PersistentExactDeny", FALSE)
    ELSE IF cap.risk = "Privileged"
      THEN Decision("Deny", "PrivilegedDenied", FALSE)
    ELSE IF cap.risk = "Unknown"
      THEN Decision("Deny", "UnknownRiskDenied", FALSE)
    ELSE LET base == Baseline(cap, prop, ctx.profile, reversibleWrites) IN
         IF base.outcome = "Confirm" /\ MatchingPermission(ctx, prop, "Allow") # {}
           THEN Decision("Allow", "PersistentExactAllow", FALSE)
           ELSE base

\* PolicyEngine::decide.  A missing scope is reported after the descriptor and
\* the provenance are valid and before the immutable data-flow rules.
Decide_GrantsBeforeHardDeny(cap, prop, ctx, reversibleWrites) ==
    LET byGrants == DecideByGrants(cap, prop, ctx, reversibleWrites)
        hard     == HardDenyReason(cap, prop)
    IN IF byGrants.reason = "PersistentExactAllow" THEN byGrants
       ELSE IF hard # "None" THEN Decision("Deny", hard, TRUE)
       ELSE byGrants

Decide(cap, prop, ctx, reversibleWrites) ==
    LET hard == HardDenyReason(cap, prop) IN
    IF hard \in {"InvalidDescriptor", "InvalidProvenance"}
      THEN Decision("Deny", hard, TRUE)
    ELSE IF ~(cap.scope_requirements \subseteq ctx.granted_scopes)
      THEN Decision("Deny", "MissingScope", FALSE)
    ELSE IF hard # "None"
      THEN Decision("Deny", hard, TRUE)
    ELSE DecideByGrants(cap, prop, ctx, reversibleWrites)

-----------------------------------------------------------------------------
(* Authorizations: an evaluation carries one exactly when it allows.         *)

ContractHolds(cap, prop) ==
    /\ prop.capability_id = cap.id
    /\ prop.arguments.kind = cap.arguments

ContractViolated == Decision("Deny", "InvalidActionContract", TRUE)

\* PolicyEngine::authorize_proposal
AuthorizeProposal(cap, prop, ctx, reversibleWrites) ==
    IF ~ContractHolds(cap, prop) THEN ContractViolated
    ELSE Decide(cap, prop, ctx, reversibleWrites)

\* PolicyEngine::authorize_confirmed_proposal_once
AuthorizeConfirmed_AnyOutcome(cap, prop, ctx, reversibleWrites) ==
    IF ~ContractHolds(cap, prop) THEN ContractViolated
    ELSE LET initial == Decide(cap, prop, ctx, reversibleWrites) IN
         IF initial.outcome # "Allow" /\ ~initial.hard_deny
           THEN Decision("Allow", "UserConfirmedOnce", FALSE)
           ELSE initial

AuthorizeConfirmed(cap, prop, ctx, reversibleWrites) ==
    IF ~ContractHolds(cap, prop) THEN ContractViolated
    ELSE LET initial == Decide(cap, prop, ctx, reversibleWrites) IN
         IF initial.outcome = "Confirm"
           THEN Decision("Allow", "UserConfirmedOnce", FALSE)
           ELSE initial
=============================================================================
