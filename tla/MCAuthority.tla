---------------------------- MODULE MCAuthority ----------------------------
(* Finite instances of Authority: the permission upserts each run allows.    *)
EXTENDS Authority

Input(effect, lifetime, class, agent, expires) ==
    [effect |-> effect, lifetime |-> lifetime, app |-> "app", class |-> class,
     agent |-> agent, expires |-> expires]

\* A user's grants for the sensitive application: one that expires and a Deny.
UserInputs ==
    {Input("Allow", "Until", "Sensitive", {}, {1}),
     Input("Deny", "Once", "Sensitive", {}, {})}

\* A single-use grant for it.
OnceInputs == {Input("Allow", "Once", "Sensitive", {}, {})}

\* Grants bound to an agent, its session and the daemon's lifetime.
AgentInputs ==
    {Input("Allow", "Once", "Local", {"agent"}, {}),
     Input("Allow", "Session", "Local", {"agent"}, {}),
     Input("Deny", "Session", "Local", {}, {})}

\* A user's grants that expire, for the clock.
ExpiringInputs ==
    {Input("Allow", "Until", "Local", {}, {1}),
     Input("Allow", "Once", "Local", {}, {})}
=============================================================================
