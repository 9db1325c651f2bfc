--------------------------- MODULE PolicyContext ---------------------------
(***************************************************************************)
(* PolicyContext: the value the daemon builds for one proposal before it    *)
(* asks the engine.  Its state is built up by the setters below, in any     *)
(* order; the properties say how the engine's answer may move while it is.  *)
(***************************************************************************)
EXTENDS Policy, FiniteSets

CONSTANTS
    Capabilities,    \* capability descriptors to evaluate
    Proposals,       \* action proposals to evaluate
    Grants,          \* grants the storage layer may hand to the context
    ChatSessions,    \* chat session identifiers
    Profiles,        \* security profiles to try
    MaxTime,         \* bound on the clock
    MaxGrants        \* bound on the grants added to one context

ASSUME ContextAssumption ==
    MaxTime \in Nat /\ MaxGrants \in Nat /\ Profiles \subseteq SecurityProfile

VARIABLES cap, prop, ctx, reversibleWrites
vars == <<cap, prop, ctx, reversibleWrites>>

SessionScope(kind, id) == [kind |-> kind, id |-> id]

\* PolicyContext::default followed by set_action_context(prop.context).
ContextFor(p) ==
    [granted_scopes    |-> {},
     permission_grants |-> {},
     profile           |-> "Balanced",
     now_ms            |-> 0,
     session  |-> {SessionScope("Agent", a.session_id) : a \in p.agent},
     agent_id |-> {a.agent_id : a \in p.agent}]

Init ==
    /\ cap \in Capabilities
    /\ prop \in Proposals
    /\ reversibleWrites \in BOOLEAN
    /\ ctx = ContextFor(prop)

\* PolicyContext::grant
GrantScope(scope) ==
    /\ scope \notin ctx.granted_scopes
    /\ ctx' = [ctx EXCEPT !.granted_scopes = @ \cup {scope}]

\* PolicyContext::add_permission_grant
AddPermissionGrant(grant) ==
    /\ grant \notin ctx.permission_grants
    /\ Cardinality(ctx.permission_grants) < MaxGrants
    /\ ctx' = [ctx EXCEPT !.permission_grants = @ \cup {grant}]

\* PolicyContext::set_profile
SetProfile(profile) == ctx' = [ctx EXCEPT !.profile = profile]

\* PolicyContext::set_now_ms
SetNow(now) == ctx' = [ctx EXCEPT !.now_ms = now]

\* PolicyContext::set_session_id: ignored for an agent's proposal.
SetSessionId(session) ==
    /\ ctx.agent_id = {}
    /\ ctx' = [ctx EXCEPT !.session = {SessionScope("Chat", s) : s \in session}]

Next ==
    /\ UNCHANGED <<cap, prop, reversibleWrites>>
    /\ \/ \E scope \in cap.scope_requirements : GrantScope(scope)
       \/ \E grant \in Grants : AddPermissionGrant(grant)
       \/ \E profile \in Profiles : SetProfile(profile)
       \/ \E now \in 0..MaxTime : SetNow(now)
       \/ \E session \in {{}} \cup {{s} : s \in ChatSessions} : SetSessionId(session)

Spec == Init /\ [][Next]_vars

-----------------------------------------------------------------------------
\* The engine's two answers to the context as built so far.
Plain == AuthorizeProposal(cap, prop, ctx, reversibleWrites)
Confirmed == AuthorizeConfirmed(cap, prop, ctx, reversibleWrites)

\* A hard denial is final: whatever scope, grant, profile, clock or session
\* the daemon adds to the context afterwards, decide keeps denying hard
\* (engine.rs decide: the immutable rules come before every grant).
HardDenyIsFinal == [][Plain.hard_deny => Plain'.hard_deny]_vars

\* Explicit deny dominates: while an active exact Deny grant is loaded, neither
\* the plain path nor a user's confirmation yields an authorization, whatever
\* Allow grant is loaded beside it (engine.rs decide, exact deny before
\* baseline and before exact allow).
ExactDenyDominates ==
    MatchingPermission(ctx, prop, "Deny") # {} =>
        Plain.outcome # "Allow" /\ Confirmed.outcome # "Allow"

\* What the engine must not run on its own: sensitive or production resources,
\* agents' side effects, side effects under the Strict profile, and the risk
\* classes above a reversible local write.
NeedsUserAuthority ==
    \/ HasResource(prop, {"Production", "Sensitive", "Secret"})
    \/ prop.origin = "Agent" /\ cap.side_effect
    \/ ctx.profile = "Strict" /\ cap.side_effect
    \/ cap.confirmation = "Always"
    \/ cap.risk \in {"ExternalSideEffect", "Destructive", "Privileged", "Unknown"}

\* The session that asks: an agent's own, or the chat session last set.
AskingSession ==
    IF prop.agent = {} THEN ctx.session
    ELSE {SessionScope("Agent", a.session_id) : a \in prop.agent}

\* Without a confirmation, such an action is authorized only by an Allow grant
\* that is live, has this exact scope, is bound to the asking agent or, for a
\* proposal of no agent, to none, and, when it is a session's, to the session
\* that asks and no other (engine.rs decide, baseline and set_session_id, with
\* domain PermissionGrant::is_active).
UserAuthorityIsExact ==
    Plain.outcome = "Allow" /\ NeedsUserAuthority =>
        \E g \in ctx.permission_grants :
            /\ g.effect = "Allow"
            /\ Live(g, ctx.now_ms)
            /\ g.scope = ScopeOf(prop)
            /\ g.agent_id = {a.agent_id : a \in prop.agent}
            /\ g.lifetime = "Session" => g.session = AskingSession

Strictness == [Allow |-> 0, Confirm |-> 1, Deny |-> 2]

\* Switching to the Strict profile never relaxes an answer: for every context,
\* Strict is at least as restrictive as the profile in force (engine.rs
\* baseline, the profile rule).
StrictIsStrictest ==
    LET strict == AuthorizeProposal(cap, prop, [ctx EXCEPT !.profile = "Strict"],
                                    reversibleWrites)
    IN Strictness[strict.outcome] >= Strictness[Plain.outcome]

\* Loading an Allow grant lifts a confirmation and nothing else: no denial, and
\* no change of an answer that was already an allowance (engine.rs decide, the
\* last rule).
AllowGrantLiftsOnlyConfirm ==
    [][\A g \in ctx'.permission_grants \ ctx.permission_grants :
         g.effect = "Allow" =>
            \/ Plain' = Plain
            \/ Plain.outcome = "Confirm" /\ Plain'.reason = "PersistentExactAllow"]_vars

\* The values a context can take while it is built for prop.
ContextType ==
    [granted_scopes    : SUBSET cap.scope_requirements,
     permission_grants : SUBSET Grants,
     profile           : SecurityProfile,
     now_ms            : 0..MaxTime,
     session           : SUBSET [kind : {"Chat", "Agent"},
                                 id : ChatSessions \cup {a.session_id : a \in prop.agent}],
     agent_id          : {{a.agent_id : a \in prop.agent}}]

\* The context always names the proposal's own agent and its session, and a chat
\* session never stands in for it (engine.rs set_action_context, set_session_id).
TypeOK ==
    /\ cap \in Capabilities
    /\ prop \in Proposals
    /\ reversibleWrites \in BOOLEAN
    /\ ctx \in ContextType
    /\ IF prop.agent = {} THEN \A s \in ctx.session : s.kind = "Chat"
       ELSE ctx.session = AskingSession
=============================================================================
