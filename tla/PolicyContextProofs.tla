------------------------- MODULE PolicyContextProofs -------------------------
(***************************************************************************)
(* Proofs about PolicyContext, for all capabilities, proposals and grants.   *)
(***************************************************************************)
EXTENDS PolicyContext, TLAPS

-----------------------------------------------------------------------------
(* The engine's operators, for every input.                                  *)

\* The baseline answers with one of its reasons, is never a hard denial and never
\* a denial at all (engine.rs baseline).
LEMMA BaselineType ==
    ASSUME NEW c, NEW p, NEW profile, NEW rw
    PROVE  /\ Baseline(c, p, profile, rw) \in PolicyDecision
           /\ Baseline(c, p, profile, rw).outcome # "Deny"
           /\ ~Baseline(c, p, profile, rw).hard_deny
           /\ Baseline(c, p, profile, rw).reason # "PersistentExactAllow"
<1> DEFINE b == Baseline(c, p, profile, rw)
           Answer(o, r) == b = Decision(o, r, FALSE)
<1>1. \/ Answer("Confirm", "ProductionResourceRequiresConfirmation")
      \/ Answer("Confirm", "SensitiveResourceRequiresConfirmation")
      \/ Answer("Confirm", "AgentSideEffectRequiresConfirmation")
      \/ Answer("Confirm", "StrictProfileRequiresConfirmation")
      \/ Answer("Confirm", "CapabilityRequiresConfirmation")
      \/ Answer("Allow", "ReadOnlyBaseline")
      \/ Answer("Allow", "LocalSideEffectBaseline")
      \/ Answer("Allow", "ReversibleLocalWriteBaseline")
      \/ Answer("Confirm", "ReversibleLocalWriteRequiresConfirmation")
      \/ Answer("Confirm", "ExternalSideEffectRequiresConfirmation")
      \/ Answer("Confirm", "DestructiveRequiresConfirmation")
  BY DEF Baseline
<1> DEFINE Goal == /\ b \in PolicyDecision
                   /\ b.outcome # "Deny"
                   /\ ~b.hard_deny
                   /\ b.reason # "PersistentExactAllow"
<1>2. ASSUME NEW o \in {"Allow", "Confirm"}, NEW r \in PolicyReason \ {"PersistentExactAllow"},
             Answer(o, r)
      PROVE  Goal
  <2> HIDE DEF b
  <2>1. b = [outcome |-> o, reason |-> r, hard_deny |-> FALSE]
    BY <1>2 DEF Decision
  <2> QED
    BY <2>1 DEF PolicyOutcome, PolicyDecision
<1> HIDE DEF Answer, Goal
<1>3. Goal
  BY <1>1, <1>2 DEF PolicyReason
<1> QED
  BY <1>3 DEF Goal

\* decide answers with a PolicyDecision (engine.rs decide).
LEMMA DecideType ==
    ASSUME NEW c, NEW p, NEW x, NEW rw
    PROVE  /\ Decide(c, p, x, rw) \in PolicyDecision
           /\ DecideByGrants(c, p, x, rw) \in PolicyDecision
           /\ ~DecideByGrants(c, p, x, rw).hard_deny
<1>1. /\ DecideByGrants(c, p, x, rw) \in PolicyDecision
      /\ ~DecideByGrants(c, p, x, rw).hard_deny
  BY BaselineType DEF DecideByGrants, Decision, PolicyDecision, PolicyReason, PolicyOutcome
<1>2. HardDenyReason(c, p) \in PolicyReason \cup {"None"}
  BY DEF HardDenyReason, PolicyReason
<1> QED
  BY <1>1, <1>2 DEF Decide, Decision, PolicyDecision, PolicyReason, PolicyOutcome

\* Both entry points of the engine answer with a PolicyDecision.
LEMMA AuthorizeType ==
    ASSUME NEW c, NEW p, NEW x, NEW rw
    PROVE  /\ AuthorizeProposal(c, p, x, rw) \in PolicyDecision
           /\ AuthorizeConfirmed(c, p, x, rw) \in PolicyDecision
<1>1. ContractViolated \in PolicyDecision
  BY DEF ContractViolated, Decision, PolicyDecision, PolicyReason, PolicyOutcome
<1>2. Decision("Allow", "UserConfirmedOnce", FALSE) \in PolicyDecision
  BY DEF Decision, PolicyDecision, PolicyReason, PolicyOutcome
<1> QED
  BY <1>1, <1>2, DecideType DEF AuthorizeProposal, AuthorizeConfirmed

-----------------------------------------------------------------------------
(* The context and what its setters may do to an answer.                     *)

\* The setters keep the context a value of its type, and keep it the context of
\* the proposal's own agent (engine.rs set_action_context, set_session_id).
THEOREM TypeCorrect == Spec => []TypeOK
<1>1. Init /\ ContextAssumption => TypeOK
  BY DEF Init, TypeOK, ContextFor, ContextType, ContextAssumption, SecurityProfile, SessionScope,
         AskingSession
<1>2. TypeOK /\ [Next]_vars => TypeOK'
  <2> SUFFICES ASSUME TypeOK, [Next]_vars PROVE TypeOK'
    OBVIOUS
  <2> USE ContextAssumption DEF TypeOK, ContextType, AskingSession
  <2>1. CASE \E scope \in cap.scope_requirements : GrantScope(scope) /\ UNCHANGED <<cap, prop, reversibleWrites>>
    BY <2>1 DEF GrantScope
  <2>2. CASE \E grant \in Grants : AddPermissionGrant(grant) /\ UNCHANGED <<cap, prop, reversibleWrites>>
    BY <2>2 DEF AddPermissionGrant
  <2>3. CASE \E profile \in Profiles : SetProfile(profile) /\ UNCHANGED <<cap, prop, reversibleWrites>>
    BY <2>3 DEF SetProfile, ContextAssumption
  <2>4. CASE \E now \in 0..MaxTime : SetNow(now) /\ UNCHANGED <<cap, prop, reversibleWrites>>
    BY <2>4 DEF SetNow
  <2>5. CASE \E session \in {{}} \cup {{s} : s \in ChatSessions} :
                SetSessionId(session) /\ UNCHANGED <<cap, prop, reversibleWrites>>
    <3>1. prop.agent = {}
      BY <2>5 DEF SetSessionId
    <3> QED BY <2>5, <3>1 DEF SetSessionId, SessionScope
  <2>6. CASE UNCHANGED vars
    BY <2>6 DEF vars
  <2> QED
    BY <2>1, <2>2, <2>3, <2>4, <2>5, <2>6 DEF Next
<1> QED
  BY <1>1, <1>2, ContextAssumption, PTL DEF Spec

\* What a hard denial depends on: the contract, the validity of the inputs and,
\* once every required scope is held, the immutable rules (engine.rs decide).
LEMMA HardDenyCondition ==
    Plain.hard_deny <=>
        \/ ~ContractHolds(cap, prop)
        \/ HardDenyReason(cap, prop) \in {"InvalidDescriptor", "InvalidProvenance"}
        \/ /\ cap.scope_requirements \subseteq ctx.granted_scopes
           /\ HardDenyReason(cap, prop) # "None"
<1> DEFINE hard == HardDenyReason(cap, prop)
           d == Decide(cap, prop, ctx, reversibleWrites)
<1>1. ~ContractHolds(cap, prop) => Plain.hard_deny
  BY DEF Plain, AuthorizeProposal, ContractViolated, Decision
<1>2. ContractHolds(cap, prop) => Plain = d
  BY DEF Plain, AuthorizeProposal
<1>3. hard \in {"InvalidDescriptor", "InvalidProvenance"} => d.hard_deny
  BY DEF Decide, Decision
<1>4. hard \notin {"InvalidDescriptor", "InvalidProvenance"}
      /\ ~(cap.scope_requirements \subseteq ctx.granted_scopes) => ~d.hard_deny
  BY DEF Decide, Decision
<1>5. hard \notin {"InvalidDescriptor", "InvalidProvenance"}
      /\ cap.scope_requirements \subseteq ctx.granted_scopes /\ hard # "None" => d.hard_deny
  BY DEF Decide, Decision
<1>6. hard = "None" => ~d.hard_deny
  BY DecideType DEF Decide, Decision
<1> QED
  BY <1>1, <1>2, <1>3, <1>4, <1>5, <1>6

\* Hard denials are final: no scope, grant, profile, clock or session added to
\* the context lifts one (engine.rs decide).
THEOREM HardDenialsAreFinal == Spec => HardDenyIsFinal
<1>1. TypeOK /\ [Next]_vars => (Plain.hard_deny => Plain'.hard_deny)
  <2> SUFFICES ASSUME TypeOK, [Next]_vars, Plain.hard_deny PROVE Plain'.hard_deny
    OBVIOUS
  <2>1. UNCHANGED <<cap, prop, reversibleWrites>>
    BY DEF Next, vars
  <2>2. ctx.granted_scopes \subseteq ctx'.granted_scopes
    BY DEF Next, vars, TypeOK, ContextType, GrantScope, AddPermissionGrant, SetProfile, SetNow,
           SetSessionId
  <2>3. (Plain.hard_deny)' <=>
            \/ ~ContractHolds(cap, prop)
            \/ HardDenyReason(cap, prop) \in {"InvalidDescriptor", "InvalidProvenance"}
            \/ /\ cap.scope_requirements \subseteq ctx'.granted_scopes
               /\ HardDenyReason(cap, prop) # "None"
    <3>1. (Plain.hard_deny)' <=>
            (\/ ~ContractHolds(cap, prop)
             \/ HardDenyReason(cap, prop) \in {"InvalidDescriptor", "InvalidProvenance"}
             \/ /\ cap.scope_requirements \subseteq ctx.granted_scopes
                /\ HardDenyReason(cap, prop) # "None")'
      BY HardDenyCondition, PTL
    <3> QED BY <3>1, <2>1
  <2> QED BY <2>2, <2>3, HardDenyCondition
<1> QED
  BY <1>1, TypeCorrect, PTL DEF Spec, HardDenyIsFinal

\* Explicit deny dominates on the plain path and on the confirmed one, for every
\* context (engine.rs decide, authorize_confirmed_proposal_once).
THEOREM DenyDominates == Spec => []ExactDenyDominates
<1> DEFINE d == Decide(cap, prop, ctx, reversibleWrites)
<1>1. ExactDenyDominates
  <2> SUFFICES ASSUME MatchingPermission(ctx, prop, "Deny") # {}
               PROVE  Plain.outcome # "Allow" /\ Confirmed.outcome # "Allow"
    BY DEF ExactDenyDominates
  <2>1. DecideByGrants(cap, prop, ctx, reversibleWrites).outcome = "Deny"
    BY DEF DecideByGrants, Decision
  <2>2. d.outcome = "Deny"
    BY <2>1 DEF Decide, Decision
  <2>3. ContractViolated.outcome = "Deny"
    BY DEF ContractViolated, Decision
  <2> HIDE DEF d
  <2> QED
    BY <2>2, <2>3 DEF Plain, Confirmed, AuthorizeProposal, AuthorizeConfirmed, d
<1> QED
  BY <1>1, PTL

\* When the plain path allows, the tail of decide did, and either the baseline
\* allows by itself or an Allow grant lifted its confirmation.
LEMMA AllowedBecause ==
    ASSUME Plain.outcome = "Allow"
    PROVE  /\ cap.risk \notin {"Privileged", "Unknown"}
           /\ \/ Baseline(cap, prop, ctx.profile, reversibleWrites).outcome = "Allow"
              \/ MatchingPermission(ctx, prop, "Allow") # {}
<1>1. Plain = Decide(cap, prop, ctx, reversibleWrites)
  BY DEF Plain, AuthorizeProposal, ContractViolated, Decision
<1>2. Plain = DecideByGrants(cap, prop, ctx, reversibleWrites)
  BY <1>1 DEF Decide, Decision
<1> QED
  BY <1>2 DEF DecideByGrants, Decision

\* An action that needs the user's authority is allowed without a confirmation
\* only on a live Allow grant of its exact scope, bound to its own agent or, for
\* a proposal of no agent, to none, and to its own session when it is a session's
\* (engine.rs decide and baseline).
THEOREM AuthorityIsExact == Spec => []UserAuthorityIsExact
<1>1. TypeOK => UserAuthorityIsExact
  <2> SUFFICES ASSUME TypeOK, Plain.outcome = "Allow", NeedsUserAuthority
               PROVE  \E g \in ctx.permission_grants :
                         /\ g.effect = "Allow"
                         /\ Live(g, ctx.now_ms)
                         /\ g.scope = ScopeOf(prop)
                         /\ g.agent_id = {a.agent_id : a \in prop.agent}
                         /\ g.lifetime = "Session" => g.session = AskingSession
    BY DEF UserAuthorityIsExact
  <2> DEFINE b == Baseline(cap, prop, ctx.profile, reversibleWrites)
  <2>1. b.outcome = "Allow" =>
            /\ ~HasResource(prop, {"Production"})
            /\ ~HasResource(prop, {"Sensitive", "Secret"})
            /\ ~(prop.origin = "Agent" /\ cap.side_effect)
            /\ ~(ctx.profile = "Strict" /\ cap.side_effect)
            /\ cap.confirmation # "Always"
            /\ cap.risk \in {"ReadOnly", "LocalSideEffect", "ReversibleLocalWrite"}
    BY DEF Baseline, Decision
  <2>2. HasResource(prop, {"Production", "Sensitive", "Secret"}) =>
            HasResource(prop, {"Production"}) \/ HasResource(prop, {"Sensitive", "Secret"})
    BY DEF HasResource
  <2>3. b.outcome # "Allow"
    BY <2>1, <2>2, AllowedBecause DEF NeedsUserAuthority
  <2>4. PICK g \in MatchingPermission(ctx, prop, "Allow") : TRUE
    BY <2>3, AllowedBecause
  <2>5. ctx.agent_id = {a.agent_id : a \in prop.agent} /\ ctx.session = AskingSession
    BY DEF TypeOK, ContextType, AskingSession
  <2> QED
    BY <2>4, <2>5 DEF MatchingPermission, IsActive, Matches
<1> QED
  BY <1>1, TypeCorrect, PTL

\* The Strict profile never relaxes an answer (engine.rs baseline).
THEOREM StrictNeverRelaxes == Spec => []StrictIsStrictest
<1>1. TypeOK => StrictIsStrictest
  <2> SUFFICES ASSUME TypeOK PROVE StrictIsStrictest
    OBVIOUS
  <2> DEFINE sctx == [ctx EXCEPT !.profile = "Strict"]
             strict == AuthorizeProposal(cap, prop, sctx, reversibleWrites)
             b  == Baseline(cap, prop, ctx.profile, reversibleWrites)
             sb == Baseline(cap, prop, "Strict", reversibleWrites)
  <2>1. /\ sctx.profile = "Strict" /\ sctx.granted_scopes = ctx.granted_scopes
        /\ \A e : MatchingPermission(sctx, prop, e) = MatchingPermission(ctx, prop, e)
    BY DEF TypeOK, ContextType, MatchingPermission
  <2>2. sb.outcome = "Allow" => sb = b
    BY DEF Baseline, Decision
  <2>3. strict.outcome \in PolicyOutcome /\ Plain.outcome \in PolicyOutcome
    BY AuthorizeType DEF PolicyDecision, Plain
  <2>4. b.outcome # "Deny"
    BY BaselineType
  <2>5. strict.outcome = "Allow" => Plain.outcome = "Allow"
    <3> HIDE DEF sctx, b, sb
    <3> SUFFICES ASSUME strict.outcome = "Allow" PROVE Plain.outcome = "Allow"
      OBVIOUS
    <3>1. ContractHolds(cap, prop) /\ strict = Decide(cap, prop, sctx, reversibleWrites)
      BY DEF AuthorizeProposal, ContractViolated, Decision
    <3>2. /\ HardDenyReason(cap, prop) = "None"
          /\ cap.scope_requirements \subseteq sctx.granted_scopes
          /\ strict = DecideByGrants(cap, prop, sctx, reversibleWrites)
      BY <3>1 DEF Decide, Decision
    <3>3. Plain = DecideByGrants(cap, prop, ctx, reversibleWrites)
      BY <2>1, <3>1, <3>2 DEF Plain, AuthorizeProposal, Decide
    <3>4. /\ MatchingPermission(ctx, prop, "Deny") = {}
          /\ cap.risk \notin {"Privileged", "Unknown"}
          /\ sb.outcome = "Allow" \/ MatchingPermission(ctx, prop, "Allow") # {}
      BY <2>1, <3>2 DEF DecideByGrants, Decision, sb
    <3>5. b.outcome \in {"Allow", "Confirm"}
      BY BaselineType DEF b, PolicyDecision, PolicyOutcome
    <3> QED
      BY <3>3, <3>4, <3>5, <2>2 DEF DecideByGrants, Decision, b
  <2>6. Plain.outcome = "Deny" => strict.outcome = "Deny"
    <3> HIDE DEF sctx, b, sb
    <3> SUFFICES ASSUME Plain.outcome = "Deny" PROVE strict.outcome = "Deny"
      OBVIOUS
    <3>1. CASE ~ContractHolds(cap, prop)
      BY <3>1 DEF AuthorizeProposal, ContractViolated, Decision
    <3>2. CASE ContractHolds(cap, prop) /\ \/ HardDenyReason(cap, prop) # "None"
                                           \/ ~(cap.scope_requirements \subseteq ctx.granted_scopes)
      BY <3>2, <2>1 DEF AuthorizeProposal, Decide, Decision
    <3>3. CASE /\ ContractHolds(cap, prop) /\ HardDenyReason(cap, prop) = "None"
               /\ cap.scope_requirements \subseteq ctx.granted_scopes
      <4>1. Plain = DecideByGrants(cap, prop, ctx, reversibleWrites)
        BY <3>3 DEF Plain, AuthorizeProposal, Decide
      <4>2. MatchingPermission(ctx, prop, "Deny") # {} \/ cap.risk \in {"Privileged", "Unknown"}
        BY <4>1, <2>4 DEF DecideByGrants, Decision, b
      <4>3. DecideByGrants(cap, prop, sctx, reversibleWrites).outcome = "Deny"
        BY <4>2, <2>1 DEF DecideByGrants, Decision
      <4> QED BY <3>3, <4>3, <2>1 DEF AuthorizeProposal, Decide
    <3> QED BY <3>1, <3>2, <3>3
  <2> HIDE DEF strict
  <2>7. Strictness[strict.outcome] >= Strictness[Plain.outcome]
    BY <2>3, <2>5, <2>6 DEF Strictness, PolicyOutcome
  <2> QED BY <2>7 DEF StrictIsStrictest, strict
<1> QED
  BY <1>1, TypeCorrect, PTL

\* Loading an Allow grant changes nothing but a confirmation, which it turns into
\* an exact allowance (engine.rs decide, the last rule).
THEOREM AllowGrantsLiftOnlyConfirmations == Spec => AllowGrantLiftsOnlyConfirm
<1> DEFINE Lifts == \A g \in ctx'.permission_grants \ ctx.permission_grants :
                      g.effect = "Allow" =>
                         \/ Plain' = Plain
                         \/ Plain.outcome = "Confirm" /\ Plain'.reason = "PersistentExactAllow"
<1>1. TypeOK /\ [Next]_vars => Lifts
  <2> SUFFICES ASSUME TypeOK, [Next]_vars,
                      NEW g \in ctx'.permission_grants \ ctx.permission_grants, g.effect = "Allow"
               PROVE  \/ Plain' = Plain
                      \/ Plain.outcome = "Confirm" /\ Plain'.reason = "PersistentExactAllow"
    OBVIOUS
  <2> DEFINE added == [ctx EXCEPT !.permission_grants = @ \cup {g}]
             rw == reversibleWrites
             b == Baseline(cap, prop, ctx.profile, rw)
  <2>1. ctx' = added /\ UNCHANGED <<cap, prop, reversibleWrites>>
    BY DEF Next, vars, TypeOK, ContextType, GrantScope, AddPermissionGrant, SetProfile, SetNow,
           SetSessionId
  <2>2. Plain' = AuthorizeProposal(cap, prop, added, rw)
    BY <2>1 DEF Plain
  <2>3. /\ added.profile = ctx.profile /\ added.granted_scopes = ctx.granted_scopes
        /\ MatchingPermission(added, prop, "Deny") = MatchingPermission(ctx, prop, "Deny")
        /\ MatchingPermission(ctx, prop, "Allow") # {} =>
              MatchingPermission(added, prop, "Allow") # {}
    BY DEF TypeOK, ContextType, MatchingPermission
  <2> HIDE DEF added, b
  <2>4. \/ DecideByGrants(cap, prop, added, rw) = DecideByGrants(cap, prop, ctx, rw)
        \/ /\ DecideByGrants(cap, prop, ctx, rw).outcome = "Confirm"
           /\ DecideByGrants(cap, prop, added, rw).reason = "PersistentExactAllow"
    BY <2>3 DEF DecideByGrants, Decision, b
  <2>5. \/ Plain' = Plain
        \/ /\ Plain = DecideByGrants(cap, prop, ctx, rw)
           /\ Plain' = DecideByGrants(cap, prop, added, rw)
    BY <2>2, <2>3 DEF Plain, AuthorizeProposal, Decide
  <2> QED BY <2>4, <2>5
<1> QED
  BY <1>1, TypeCorrect, PTL DEF Spec, AllowGrantLiftsOnlyConfirm
=============================================================================
