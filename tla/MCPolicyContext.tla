--------------------------- MODULE MCPolicyContext ---------------------------
(* A finite instance of PolicyContext: every risk class, origin and resource *)
(* classification, valid and invalid, with grants on either side of every    *)
(* condition of is_active.                                                   *)
EXTENDS PolicyContext

Cap(id, risk, side, rev, conf, ns, scopes) ==
    [id |-> id, wellFormed |-> TRUE, risk |-> risk, side_effect |-> side,
     reversible |-> rev, confirmation |-> conf, authority_ns |-> ns,
     scope_requirements |-> scopes, arguments |-> "OpenApp"]

MCCapabilities ==
    {Cap("c", risk, risk # "ReadOnly", risk = "ReversibleLocalWrite", "RiskBased", FALSE, {}) :
        risk \in RiskClass}
    \cup {Cap("c", "LocalSideEffect", TRUE, FALSE, "Always", FALSE, {"scope"}),
          Cap("c", "ReadOnly", FALSE, FALSE, "RiskBased", TRUE, {}),
          Cap("c", "ReadOnly", TRUE, FALSE, "RiskBased", FALSE, {}),
          Cap("d", "ReadOnly", FALSE, FALSE, "RiskBased", FALSE, {})}

Res(class) == IF class = "none" THEN <<>>
              ELSE <<[identifier |-> "app", classification |-> class]>>

Prop(origin, authority, hops, agent, class, flow) ==
    [capability_id |-> "c", arguments |-> [kind |-> "OpenApp", app |-> "app"],
     wellFormed |-> TRUE, origin |-> origin, trust |-> "UserExplicit",
     authority |-> authority, hops |-> hops, agent |-> agent,
     resources |-> Res(class), data_flow |-> flow]

Classes == {"none", "Local", "Sensitive", "Production", "SystemCritical"}
Flow(data, dest) == [source |-> "Local", data_classification |-> data, destination |-> dest]
Flows == {{}, {Flow("Secret", "External")}, {Flow("Production", "Local")}}
TheAgent == {[agent_id |-> "agent", session_id |-> "run"]}

MCProposals ==
    {Prop("UserExplicit", "User", <<"UserExplicit">>, {}, c, f) : c \in Classes, f \in Flows}
    \cup {Prop("LocalResolver", "HalquenCore", <<"UserExplicit", "LocalResolver">>, {}, c, {}) :
            c \in Classes}
    \cup {Prop("Agent", "None", <<"Agent">>, TheAgent, c, f) : c \in Classes, f \in Flows}
    \cup {Prop("AiProposal", "None", <<"AiProposal">>, {}, c, {}) : c \in Classes}
    \cup {Prop("Plugin", "User", <<"Plugin">>, {}, "Local", {}),
          Prop("LocalResolver", "HalquenCore", <<"LocalResolver">>, {}, "Local", {}),
          Prop("Agent", "None", <<"Agent">>, {}, "Local", {})}

Grant(effect, lifetime, class, session, agent, expires, limit) ==
    [effect |-> effect, lifetime |-> lifetime, session |-> session, agent_id |-> agent,
     expires_at |-> expires, use_limit |-> limit, use_count |-> 0, revoked |-> FALSE,
     scope |-> [capability_id |-> "c", arguments |-> [kind |-> "OpenApp", app |-> "app"],
                resources |-> Res(class), destination |-> {}]]

MCGrants ==
    {Grant(effect, "Until", "Sensitive", {}, {}, {1}, {}) : effect \in {"Allow", "Deny"}}
    \cup {Grant(effect, "Once", "Local", {}, {"agent"}, {}, {1}) : effect \in {"Allow", "Deny"}}
    \cup {Grant("Allow", "Session", "Local", {SessionScope("Agent", run)}, {"agent"}, {}, {}) :
            run \in {"run", "earlier run"}}
    \cup {Grant("Allow", "Session", "Production", {SessionScope("Chat", "chat")}, {}, {}, {}),
          Grant("Deny", "Always", "Local", {}, {}, {}, {})}
=============================================================================
