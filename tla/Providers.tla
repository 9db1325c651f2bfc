----------------------------- MODULE Providers -----------------------------
(* Provider, model and settings commands of the daemon and the model call of *)
(* a chat (apps/daemon/src/interaction_service.rs, with the rows of          *)
(* crates/storage/src/interaction.rs and the keyring of crates/ai).          *)
(*                                                                           *)
(* A provider lives in two stores: its row in SQLite and its key in the OS   *)
(* keyring.  Saving and removing change the keyring first and the row next,  *)
(* and take the keyring change back when the row cannot be written.  Each of *)
(* these calls is a step, may fail, and the daemon may crash between them.   *)
(* The service mutex is held throughout, so one command runs at a time.      *)
EXTENDS Router

CONSTANTS
    Ids,            \* provider ids; the keyring entry of p is "provider:<p>"
    Secrets,        \* API keys
    ModelIds,
    ProviderInputs, \* what a save of each may say: [kind, privacy, url, enabled]
    ModelInputs,    \* what an upsert of each model may say
    SettingsInputs, \* settings the user may choose, the default among them
    DefaultSettings,
    TestResults,    \* outcomes of a connection test
    Conversations,  \* token estimates of the messages before the current one
    Window,         \* messages read for context, the current one included (8)
    None            \* no command under way, nothing sent, never tested

NoSecret == "no_secret"
Absent == "absent"
Unknown == "unknown"
Statuses == {"Configured", "Unsupported", "Connected", "AuthenticationFailed", "RateLimited",
             "EndpointUnreachable", "Unavailable"}
Commands == [kind : {"key"}, provider : Ids, key : Secrets]
                \cup [kind : {"keep", "clear", "remove"}, provider : Ids]
Inputs == [kind : Kinds, privacy : Privacies, url : Endpoints, enabled : BOOLEAN]
Operations == [request : Commands, input : Inputs \cup {None},
               step : {"mutate", "write", "restore"}, before : Secrets \cup {NoSecret}]
ModelRow == [provider : Ids, enabled : BOOLEAN, privacy : Privacies, tasks : {{}, {"Conversation"}},
             priority : -1000..1000, default : BOOLEAN, name : Nat]

ASSUME ConstantsAssumption ==
    /\ Secrets \cap {NoSecret, Absent, Unknown, None} = {}
    /\ ProviderInputs \in [Ids -> SUBSET Inputs]
    /\ ModelInputs \in [ModelIds -> SUBSET ModelRow]
    /\ DefaultSettings \in SettingsInputs
    /\ SettingsInputs \subseteq Settings
    /\ TestResults \subseteq Statuses
    /\ None \notin Commands \cup Inputs \cup Operations
    /\ Conversations \subseteq Seq(Nat) /\ Window \in Nat \ {0}

VARIABLES
    rows,           \* ai_providers, a function on the ids that have a row
    keyring,        \* the OS keyring, NoSecret for a missing entry
    models,         \* ai_models, a function on the ids that have a row
    settings,       \* application_settings
    op,             \* the save or removal under way, or None
    reply,          \* how the last command ended
    sent,           \* the model call the last step made, or None
    torn,           \* providers whose two stores a failure may have parted
    tested          \* the key each row's last connection test used, or None

stores == <<rows, keyring, models, settings>>
vars == <<rows, keyring, models, settings, op, reply, sent, torn, tested>>

Row == [kind : Kinds, privacy : Privacies, url : Endpoints, enabled : BOOLEAN, cred : BOOLEAN,
        status : Statuses]

TypeOK ==
    /\ DOMAIN rows \subseteq Ids /\ \A p \in DOMAIN rows : rows[p] \in Row
    /\ keyring \in [Ids -> Secrets \cup {NoSecret}]
    /\ DOMAIN models \subseteq ModelIds /\ \A m \in DOMAIN models : models[m] \in ModelRow
    /\ settings \in SettingsInputs
    /\ op \in Operations \cup {None}
    /\ reply \in {"none", "ok", "error", "lost"}
    /\ torn \subseteq Ids
    /\ tested \in [Ids -> Secrets \cup {NoSecret, None}]

Init ==
    /\ rows = <<>> /\ models = <<>>
    /\ keyring = [p \in Ids |-> NoSecret]
    /\ settings = DefaultSettings
    /\ op = None /\ reply = "none" /\ sent = None
    /\ torn = {}
    /\ tested = [p \in Ids |-> None]

-----------------------------------------------------------------------------
(* Helpers.                                                                  *)

Put(f, k, v) == [x \in DOMAIN f \cup {k} |-> IF x = k THEN v ELSE f[x]]
Drop(f, ks) == [x \in DOMAIN f \ ks |-> f[x]]
HasCredential(p) == p \in DOMAIN rows /\ rows[p].cred

\* mutation_reference is set: the command changes the keyring entry.
Touches(request) ==
    \/ request.kind = "key"
    \/ request.kind \in {"clear", "remove"} /\ HasCredential(request.provider)

\* Mutant: the old status is kept.
NewRow_KeepingStatus(request, input) ==
    [kind |-> input.kind, privacy |-> input.privacy, url |-> input.url, enabled |-> input.enabled,
     cred |-> request.kind = "key" \/ (request.kind = "keep" /\ HasCredential(request.provider)),
     status |-> IF request.provider \in DOMAIN rows THEN rows[request.provider].status
                ELSE "Configured"]

\* The row a save writes; credential_id follows the key, the clear flag, or
\* the row before.
NewRow(request, input) ==
    [kind |-> input.kind, privacy |-> input.privacy, url |-> input.url, enabled |-> input.enabled,
     cred |-> \/ request.kind = "key"
              \/ request.kind = "keep" /\ HasCredential(request.provider),
     status |-> IF validate_provider(input.kind, input.privacy, input.url) = "Unsupported"
                THEN "Unsupported" ELSE "Configured"]

End(answer) == op' = None /\ reply' = answer /\ sent' = None

-----------------------------------------------------------------------------
(* upsert_provider and remove_provider.                                      *)

\* Validation, the row before and capture_secret: nothing is changed yet.
Start(request, input) ==
    /\ op = None
    /\ op' = [request |-> request, input |-> input,
              step |-> IF Touches(request) THEN "mutate" ELSE "write",
              before |-> keyring[request.provider]]
    /\ reply' = "none" /\ sent' = None
    /\ UNCHANGED <<stores, torn, tested>>

upsert_provider(request, input) ==
    /\ request.kind # "remove"
    /\ validate_provider(input.kind, input.privacy, input.url) # "InvalidEndpoint"
    /\ Start(request, input)

remove_provider(request) == request.kind = "remove" /\ Start(request, None)

\* A refused key or endpoint, an unreadable row, a keyring that cannot be read
\* for the previous secret: an error before anything changes.
RefuseCommand ==
    /\ op = None
    /\ End("error")
    /\ UNCHANGED <<stores, torn, tested>>

\* Mutant: a key that is there already is not replaced.
Mutate_KeepingExisting ==
    /\ op # None /\ op.step = "mutate"
    /\ keyring' = [keyring EXCEPT ![op.request.provider] =
                       IF op.request.kind # "key" THEN NoSecret
                       ELSE IF @ = NoSecret THEN op.request.key ELSE @]
    /\ op' = [op EXCEPT !.step = "write"]
    /\ UNCHANGED <<rows, models, settings, reply, sent, torn, tested>>

\* SecretStore::store or delete; a missing entry counts as deleted.
Mutate ==
    /\ op # None /\ op.step = "mutate"
    /\ keyring' = [keyring EXCEPT ![op.request.provider] =
                       IF op.request.kind = "key" THEN op.request.key ELSE NoSecret]
    /\ op' = [op EXCEPT !.step = "write"]
    /\ UNCHANGED <<rows, models, settings, reply, sent, torn, tested>>

MutateFails ==
    /\ op # None /\ op.step = "mutate"
    /\ End("error")
    /\ UNCHANGED <<stores, torn, tested>>

\* The row is written (or deleted, with its models): the command took effect.
\* A command that set the keyring entry settles what a failure left there.
Write ==
    /\ op # None /\ op.step = "write"
    /\ LET p == op.request.provider IN
       /\ IF op.request.kind = "remove"
          THEN /\ rows' = Drop(rows, {p})
               /\ models' = Drop(models, {m \in DOMAIN models : models[m].provider = p})
          ELSE /\ rows' = Put(rows, p, NewRow(op.request, op.input))
               /\ UNCHANGED models
       /\ torn' = IF Touches(op.request) THEN torn \ {p} ELSE torn
       /\ tested' = [tested EXCEPT ![p] = None]
    /\ End("ok")
    /\ UNCHANGED <<keyring, settings>>

\* Mutant: the keyring change stays when the row is refused.
WriteFails_Uncompensated ==
    /\ op # None /\ op.step = "write"
    /\ End("error")
    /\ UNCHANGED <<stores, torn, tested>>

\* The database refuses the row (its name or URL is out of bounds) or fails.
WriteFails ==
    /\ op # None /\ op.step = "write"
    /\ IF Touches(op.request)
       THEN op' = [op EXCEPT !.step = "restore"] /\ UNCHANGED <<reply, sent>>
       ELSE End("error")
    /\ UNCHANGED <<stores, torn, tested>>

\* restore_secret puts back what capture_secret found.
Restore ==
    /\ op # None /\ op.step = "restore"
    /\ keyring' = [keyring EXCEPT ![op.request.provider] = op.before]
    /\ End("error")
    /\ UNCHANGED <<rows, models, settings, torn, tested>>

RestoreFails ==
    /\ op # None /\ op.step = "restore"
    /\ torn' = torn \cup {op.request.provider}
    /\ End("error")
    /\ UNCHANGED <<stores, tested>>

\* The daemon stops in the middle of a command; both stores are durable.
Crash ==
    /\ op # None
    /\ torn' = IF op.step # "mutate" /\ Touches(op.request)
               THEN torn \cup {op.request.provider} ELSE torn
    /\ End("lost")
    /\ UNCHANGED <<stores, tested>>

-----------------------------------------------------------------------------
(* test_provider, models and settings.                                       *)

\* provider_credential: what a call to p authenticates with; a row that refers
\* to a missing entry has none, and the command fails.
Credential(p) == IF rows[p].cred THEN keyring[p] ELSE NoSecret
CredentialAvailable(p) == rows[p].cred => keyring[p] # NoSecret

\* ProviderClient::test and provider_status_for_error: a kind without adapter
\* is not called.
test(row, result) == IF provider_supported(row.kind) THEN result ELSE "Unsupported"

\* The row is read, the endpoint is called, and the row is written back with
\* its new status; the mutex is held over the call.
test_provider(p, result) ==
    /\ op = None
    /\ p \in DOMAIN rows /\ CredentialAvailable(p)
    /\ rows' = [rows EXCEPT ![p].status = test(rows[p], result)]
    /\ tested' = [tested EXCEPT ![p] = Credential(p)]
    /\ reply' = "none" /\ sent' = None
    /\ UNCHANGED <<keyring, models, settings, op, torn>>

\* A model must name a provider of its own privacy class; a new default takes
\* the flag from the provider's other models.
upsert_model(m, input) ==
    /\ op = None
    /\ input.provider \in DOMAIN rows /\ rows[input.provider].privacy = input.privacy
    /\ input.tasks # {}
    /\ LET others == [n \in DOMAIN models |->
                          [models[n] EXCEPT !.default = @ /\ ~(/\ input.default
                                                               /\ models[n].provider = input.provider)]]
       IN models' = Put(others, m, input)
    /\ reply' = "none" /\ sent' = None
    /\ UNCHANGED <<rows, keyring, settings, op, torn, tested>>

update_application_settings(chosen) ==
    /\ op = None
    /\ settings' = chosen
    /\ reply' = "none" /\ sent' = None
    /\ UNCHANGED <<rows, keyring, models, op, torn, tested>>

-----------------------------------------------------------------------------
(* The model call of a chat (ai_fallback) and its preview.                   *)

ChatRoute(selection) == select(settings, rows, models, selection, settings.personal)

\* list_chat_messages returns the current message too, which is filtered out.
ChatContext(conversation) ==
    IF settings.personal THEN build(newest(conversation, Window - 1), settings.budget) ELSE Nothing

\* ProviderClient::complete looks at the adapter and the endpoint again before
\* the key and the context leave.
complete(p, m, context) ==
    /\ provider_supported(rows[p].kind) /\ endpoint_allowed(rows[p].privacy, rows[p].url)
    /\ sent' = [provider |-> p, key |-> Credential(p), model |-> m, context |-> context]

ai_fallback(selection, conversation) ==
    /\ op = None
    /\ ChatRoute(selection) # NoRoute
    /\ LET m == ChatRoute(selection).model
           p == models[m].provider
       IN CredentialAvailable(p) /\ complete(p, m, ChatContext(conversation))
    /\ reply' = "none"
    /\ UNCHANGED <<stores, op, torn, tested>>

\* Mutant: the preview takes every session for personal context.
PreviewRoute_AlwaysPersonal(selection, session) ==
    select(settings, rows, models, selection, session)

\* What preview_ai_request shows for the same selection, with or without a
\* chat session.
PreviewRoute(selection, session) ==
    select(settings, rows, models, selection, settings.personal /\ session)
PreviewContext(conversation, session) ==
    IF settings.personal /\ session THEN build(newest(conversation, Window), settings.budget)
    ELSE Nothing

-----------------------------------------------------------------------------
Next ==
    \/ \E request \in Commands : \E input \in ProviderInputs[request.provider] :
           upsert_provider(request, input)
    \/ \E request \in Commands : remove_provider(request)
    \/ RefuseCommand
    \/ Mutate \/ MutateFails \/ Write \/ WriteFails \/ Restore \/ RestoreFails
    \/ Crash
    \/ \E p \in Ids, result \in TestResults : test_provider(p, result)
    \/ \E m \in ModelIds : \E input \in ModelInputs[m] : upsert_model(m, input)
    \/ \E chosen \in SettingsInputs : update_application_settings(chosen)
    \/ \E selection \in ModelIds \cup {"auto"}, conversation \in Conversations :
           ai_fallback(selection, conversation)

Spec == Init /\ [][Next]_vars

-----------------------------------------------------------------------------
(* Properties.                                                               *)

\* The key a provider holds as its users see it: the captured one while a
\* command that changed the keyring is neither done nor taken back.
KeyOf(p) == IF op # None /\ op.request.provider = p /\ op.step # "mutate" /\ Touches(op.request)
            THEN op.before ELSE keyring[p]

HeldBy(p) == IF p \in torn THEN Unknown
             ELSE IF p \notin DOMAIN rows THEN Absent
             ELSE IF rows[p].cred THEN KeyOf(p) ELSE NoSecret

\* The provider commands behave as if the row and the key were one store,
\* apart from the providers a crash or a failed compensation parted
\* (interaction_service.rs:1011-1127).
V == INSTANCE Vault WITH
         vault <- [p \in Ids |-> HeldBy(p)],
         request <- IF op = None THEN None ELSE op.request,
         sent <- IF sent = None THEN None ELSE [provider |-> sent.provider, key |-> sent.key]
ActsAsOneStore == V!Spec

\* The keyring and the rows agree about every provider that no failure parted:
\* a row refers to a key exactly when the keyring has one, so no key outlives
\* its provider and no call fails for a key that was never lost.
StoresAgree ==
    \A p \in Ids \ torn : (KeyOf(p) # NoSecret) <=> HasCredential(p)

\* A row shown as Connected was tested with the key it has now: no save, clear
\* or removal leaves the verdict of an earlier key behind.
ConnectedIsCurrent ==
    \A p \in DOMAIN rows \ torn :
        rows[p].status = "Connected" => tested[p] = IF rows[p].cred THEN KeyOf(p) ELSE NoSecret

\* Whatever model is selected by hand, a model call respects the privacy
\* settings in force, also after the provider's own privacy class changed.
PrivacyPolicyHolds ==
    sent # None =>
        LET row == rows[sent.provider] IN
        /\ row.privacy = models[sent.model].privacy
        /\ row.privacy = "Cloud" =>
               /\ settings.cloud
               /\ sent.context.items # <<>> => settings.personal
               /\ row.cred /\ sent.key # NoSecret
        /\ row.privacy = "Local" => settings.local

\* What the context builder takes from the conversation never exceeds the
\* token budget in force, whichever message it had to skip.
ContextFitsBudget == sent # None => sent.context.tokens <= settings.budget

\* The preview names the provider and model that the chat would use, with a
\* session or without one, and never hides that conversation is sent.
PreviewIsHonest ==
    \A selection \in ModelIds \cup {"auto"}, session \in BOOLEAN :
        /\ PreviewRoute(selection, session) = ChatRoute(selection)
        /\ \A conversation \in Conversations :
               Len(ChatContext(conversation).items) > 0
                   => Len(PreviewContext(conversation, TRUE).items) > 0

\* Under the prefer-local presets the automatic route leaves a local model only
\* for one whose priority is more than 900 above it: the local bonus of 1000
\* against a default bonus of 100.
LocalIsPreferred ==
    (settings.preset \in {"MinimizeAiUsage", "PreferLocal"} /\ ChatRoute("auto") # NoRoute) =>
        LET m == ChatRoute("auto").model IN
        \A n \in DOMAIN models :
            (/\ eligible(settings, rows, models[n], settings.personal)
             /\ models[n].privacy = "Local" /\ models[m].privacy = "Cloud")
                => models[m].priority - models[n].priority > 900
=============================================================================
