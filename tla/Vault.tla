------------------------------- MODULE Vault -------------------------------
(* What the provider commands promise about a provider's key, as if the row  *)
(* in SQLite and the secret in the OS keyring were one store.  A command     *)
(* that is acknowledged has taken effect, one that is refused has not, and a *)
(* provider is sent the key it holds.  The exception the daemon cannot avoid *)
(* is Tear: a crash, or a keyring that fails while a change is taken back,   *)
(* leaves that one provider's key Unknown until a later command settles it.  *)
(* Providers implements this specification.                                  *)

CONSTANTS
    Ids,            \* provider ids
    Secrets,        \* API keys
    NoSecret,       \* a provider saved without a key
    Absent,         \* no such provider
    Unknown,        \* the two stores may disagree about it
    None            \* no request, or nothing sent

VARIABLES
    vault,          \* what each provider holds
    request,        \* the command being served, or None
    reply,          \* how the last command ended
    sent            \* the key the last step sent to a provider, or None

vars == <<vault, request, reply, sent>>

Held == Secrets \cup {NoSecret, Absent, Unknown}
Commands == [kind : {"key"}, provider : Ids, key : Secrets]
                \cup [kind : {"keep", "clear", "remove"}, provider : Ids]

Init == /\ vault = [p \in Ids |-> Absent]
        /\ request = None
        /\ reply = "none"
        /\ sent = None

\* What a provider may hold once the command is acknowledged.  A clear or a
\* removal settles an Unknown key only when the row still refers to it.
Outcomes(held, command) ==
    CASE command.kind = "key" -> {command.key}
      [] command.kind = "keep" -> IF held = Absent THEN {NoSecret} ELSE {held}
      [] command.kind = "clear" -> {NoSecret} \cup ({held} \cap {Unknown})
      [] command.kind = "remove" -> {Absent} \cup ({held} \cap {Unknown})

Ask(command) ==
    /\ request = None
    /\ request' = command
    /\ reply' = "none" /\ sent' = None
    /\ UNCHANGED vault

Acknowledge ==
    /\ request # None
    /\ \E held \in Outcomes(vault[request.provider], request) :
           vault' = [vault EXCEPT ![request.provider] = held]
    /\ request' = None /\ reply' = "ok" /\ sent' = None

\* Refused, or lost in a crash, without effect.
Refuse ==
    /\ request # None
    /\ request' = None /\ reply' \in {"error", "lost"} /\ sent' = None
    /\ UNCHANGED vault

Tear ==
    /\ request # None
    /\ vault' = [vault EXCEPT ![request.provider] = Unknown]
    /\ request' = None /\ reply' \in {"error", "lost"} /\ sent' = None

Send(p) ==
    /\ request = None
    /\ vault[p] # Absent
    /\ \E key \in Secrets \cup {NoSecret} :
           /\ vault[p] \in {key, Unknown}
           /\ sent' = [provider |-> p, key |-> key]
    /\ reply' = "none"
    /\ UNCHANGED <<vault, request>>

\* A command that has nothing to do with keys.
Other == reply' \in {"none", "error"} /\ sent' = None /\ UNCHANGED <<vault, request>>

Next == \/ \E command \in Commands : Ask(command)
        \/ Acknowledge
        \/ Refuse
        \/ Tear
        \/ \E p \in Ids : Send(p)
        \/ Other

Spec == Init /\ [][Next]_vars
=============================================================================
