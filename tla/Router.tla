------------------------------- MODULE Router -------------------------------
(* The pure part of the AI gateway: which model a request may use            *)
(* (crates/ai/src/router.rs), what of the conversation goes with it          *)
(* (crates/ai/src/context.rs) and which endpoints a provider may have        *)
(* (crates/ai/src/provider.rs).                                              *)
EXTENDS Integers, Sequences

Privacies == {"Local", "Cloud"}
Presets == {"MinimizeAiUsage", "PreferLocal", "MinimizeCost", "PreferQuality", "Balanced",
            "Custom"}
Kinds == {"OpenAiCompatible", "OpenAi", "Ollama", "LmStudio", "Anthropic", "Gemini"}
Endpoints == {"https", "loopback_http", "remote_http", "invalid"}
MinBudget == 256
MaxBudget == 131072
Settings == [cloud : BOOLEAN, local : BOOLEAN, personal : BOOLEAN, preset : Presets,
             calls : 0..3, budget : MinBudget..MaxBudget]

provider_supported(kind) == kind \in {"OpenAiCompatible", "OpenAi", "Ollama", "LmStudio"}

\* Url::parse, the refused URL parts and the scheme rule, by their verdict.
endpoint_allowed(privacy, url) ==
    \/ url = "https"
    \/ url = "loopback_http" /\ privacy = "Local"

\* The verdict of validate_provider, which looks at the kind first.
validate_provider(kind, privacy, url) ==
    IF ~provider_supported(kind) THEN "Unsupported"
    ELSE IF endpoint_allowed(privacy, url) THEN "Ok" ELSE "InvalidEndpoint"

configured(row) == row.cred \/ row.privacy = "Local"

privacy_allowed(settings, privacy, personal) ==
    IF privacy = "Local" THEN settings.local
    ELSE settings.cloud /\ (personal => settings.personal)

\* model: [provider, enabled, privacy, tasks, priority, default, name];
\* rows: the provider rows, a function on the ids that have one.
eligible(settings, rows, model, personal) ==
    /\ model.enabled
    /\ "Conversation" \in model.tasks
    /\ model.provider \in DOMAIN rows
    /\ LET row == rows[model.provider] IN
           /\ row.enabled
           /\ configured(row)
           /\ provider_supported(row.kind)
           /\ row.privacy = model.privacy
           /\ privacy_allowed(settings, row.privacy, personal)

route_score(preset, model) ==
    LET local == IF model.privacy = "Local" THEN 1000 ELSE 0
        default == IF model.default THEN 100 ELSE 0
    IN CASE preset \in {"MinimizeAiUsage", "PreferLocal"} -> local + default + model.priority
         [] preset = "MinimizeCost" -> local \div 2 + default + model.priority
         [] preset = "PreferQuality" -> default + model.priority * 2
         [] OTHER -> local \div 4 + default + model.priority

\* The order of list_models: default first, then priority, then name.
listed_before(a, b) ==
    \/ a.default /\ ~b.default
    \/ a.default = b.default /\ a.priority > b.priority
    \/ a.default = b.default /\ a.priority = b.priority /\ a.name < b.name

NoRoute == [model |-> "none"]

\* The models a request may use, and those that the sort leaves last.
fit(settings, rows, models, personal) ==
    {m \in DOMAIN models : eligible(settings, rows, models[m], personal)}

sorted_after(preset, a, b) ==
    \/ route_score(preset, a) > route_score(preset, b)
    \/ route_score(preset, a) = route_score(preset, b) /\ listed_before(b, a)

last(settings, rows, models, personal) ==
    LET candidates == fit(settings, rows, models, personal)
    IN  {m \in candidates : \A n \in candidates :
                                 ~sorted_after(settings.preset, models[n], models[m])}

\* Mutant: a model selected by hand is taken as it is.
select_ManualUnchecked(settings, rows, models, selection, personal) ==
    LET choices == IF selection = "auto" THEN last(settings, rows, models, personal)
                   ELSE {selection} \cap DOMAIN models
    IN IF settings.calls = 0 \/ choices = {} THEN NoRoute
       ELSE [model |-> CHOOSE m \in choices : TRUE]

\* ModelRouter::select.  selection: a model id, or "auto".
select(settings, rows, models, selection, personal) ==
    LET choices == IF selection = "auto" THEN last(settings, rows, models, personal)
                   ELSE {selection} \cap fit(settings, rows, models, personal)
    IN IF settings.calls = 0 \/ choices = {} THEN NoRoute
       ELSE [model |-> CHOOSE m \in choices : TRUE]

\* A context without messages.
Nothing == [tokens |-> 0, items |-> <<>>, truncated |-> FALSE]

\* Mutant: each message is compared with the whole budget.
consider_Alone(taken, size, budget) ==
    IF size > budget THEN [taken EXCEPT !.truncated = TRUE]
    ELSE [taken EXCEPT !.tokens = @ + size, !.items = Append(@, size)]

\* One round of the loop of build: what does not fit is skipped.
consider(taken, size, budget) ==
    IF taken.tokens + size > budget THEN [taken EXCEPT !.truncated = TRUE]
    ELSE [taken EXCEPT !.tokens = @ + size, !.items = Append(@, size)]

\* ContextBuilder::build on messages given by their token estimates, all of
\* one priority, so in the order they come.
build(messages, budget) ==
    LET taken[n \in 0..Len(messages)] ==
            IF n = 0 THEN Nothing ELSE consider(taken[n - 1], messages[n], budget)
    IN  taken[Len(messages)]

\* The last n of a conversation (list_chat_messages with a limit).
newest(messages, n) ==
    SubSeq(messages, IF Len(messages) > n THEN Len(messages) - n + 1 ELSE 1, Len(messages))
=============================================================================
