---------------------------- MODULE MCProviders ----------------------------
(* A finite instance of Providers: the inputs the run offers.                *)
EXTENDS Providers

SavedAs(kind, privacy, url) == [kind |-> kind, privacy |-> privacy, url |-> url, enabled |-> TRUE]

\* p1 turns from cloud to local and to one without an adapter, whose endpoint
\* is therefore never looked at; one of its endpoints is refused.
MCProviderInputs ==
    [p \in Ids |->
        IF p = "p1" THEN {SavedAs("OpenAiCompatible", "Cloud", "https"),
                          SavedAs("Ollama", "Local", "loopback_http"),
                          SavedAs("Anthropic", "Cloud", "remote_http"),
                          SavedAs("OpenAiCompatible", "Cloud", "remote_http")}
        ELSE {SavedAs("Ollama", "Local", "loopback_http")}]

Offered(p, privacy, priority, default) ==
    [provider |-> p, enabled |-> TRUE, privacy |-> privacy, tasks |-> {"Conversation"},
     priority |-> priority, default |-> default, name |-> 1]

\* A cloud model whose priority stops just short of the local bonus.
MCModelInputs ==
    [m \in ModelIds |-> IF m = "m1" THEN {Offered("p1", "Cloud", 900, TRUE)}
                        ELSE {Offered("p2", "Local", 0, TRUE)}]

Choice(cloud, personal, preset, budget) ==
    [cloud |-> cloud, local |-> TRUE, personal |-> personal, preset |-> preset, calls |-> 1,
     budget |-> budget]
MCDefault == Choice(FALSE, FALSE, "Balanced", 256)
MCSettings ==
    {MCDefault, Choice(TRUE, FALSE, "PreferLocal", 256), Choice(TRUE, TRUE, "MinimizeCost", 256)}

\* Conversations around the token budget of 256 and the window: nothing, one
\* message over it, one that fits only alone and is skipped for a later one, one
\* that only the preview's window reaches, and one longer than both windows.
MCConversations == {<<>>, <<257>>, <<100, 200, 100>>, <<100, 300, 300, 300>>,
                    <<10, 10, 10, 10, 10>>}
=============================================================================
