# Halquen: TLA+ models, checks and proofs

Halquen is a local personal agent: a daemon (`apps/daemon`) that serves one user over a Unix
socket, resolves chat messages into typed actions or model answers, decides every action with a
deterministic policy engine, executes it through registered capabilities, and keeps receipts,
memory, grants and usage in SQLite. This directory models the parts that carry its promises,
checks them with TLC on small instances and proves the central ones with TLAPS.

## 1. Inventory

| Component | State | Operations | Hard behaviour |
|---|---|---|---|
| policy engine (`crates/policy`, `domain/security.rs`) | none; a `PolicyContext` per proposal | `decide`, `baseline`, `authorize_proposal`, `authorize_confirmed_proposal_once`, context setters | precedence of a dozen rules over grants, labels, profiles, confirmations |
| action authority path (`service.rs`, `interaction_service.rs`) | pending confirmations, `executions`, usage events | `process_proposal`, `confirm_action`, chat intents | several storage calls and an external side effect per operation, any of which may fail or be the last one before a crash |
| permission control plane (`security_service.rs`, `storage/security.rs`) | `permission_grants`, profile, resource labels | upsert, revoke, claim, label | grants read twice, at two times, by two queries |
| agent broker (`agent_service.rs`) | `agent_sessions` | `run_agent` | many proposals under one session; a finish that can be lost |
| daemon process (`storage/runtime.rs`, `ipc.rs`, `protocol/transport.rs`, `storage/sqlite.rs`) | `daemon_sessions`, socket path, schema version | migrate, load, begin session, bind, serve, finish | two daemons over one database and one socket path; start, failure and crash at every step |
| IPC server (`ipc.rs`) | cancellation registry, service mutex, one task per connection | dispatch, cancel | concurrent connections, cancel racing the provider, identifier reuse |
| chat pipeline and response reuse (`interaction_service.rs`, `chat.rs`, `storage/interaction.rs`) | messages, response candidates, feedback | `chat`, `submit_feedback` | stale feedback, candidates replaced under the same key |
| memory store (`storage/sqlite.rs`, `crates/memory`) | revisions, heads, evidence | remember, disable, restore, forget | revision chains, clock set back |
| providers and secrets (`interaction_service.rs`, `crates/ai/secret.rs`) | provider rows, keyring | upsert, remove, test | two stores changed in turn, with compensation |
| model router, context builder (`crates/ai/router.rs`, `context.rs`) | none | `select`, `build`, and the preview of both | privacy rules that must hold for manual selection too; scores and budgets at their edges |
| local intents and behaviour ranking (`interaction_service.rs`, `memory/behaviour.rs`) | usage events, counters, confirmations | open, "open that", "not this, that" | several writes per message, decay, retention, a clock that moves both ways |
| agent host (`crates/ai/agent.rs`) | one child with three pipes, a deadline | start, propose, complete, kill | a child that does anything; pipes that fill; descendants; three kinds of timeout |
| application registry, executable identity (`crates/capabilities`) | `registered_applications`, a registry in memory | register, remove, verify, launch | two copies of the registration; the file replaced between check and start |
| protocol client (`protocol/client.rs`) | none | one call per request | a timeout while the daemon goes on |
| logging, CLI, desktop | none or I/O | forwarding, formatting | none |

Interactions: every connection is a task; every handler takes the one `Mutex<HalquenService>` for
its whole duration, executor and provider waits included, so handlers never overlap each other but
each is a *sequence* of storage transactions and external effects. The security of an action rests
on the engine's answer, on the row the claim finds later, on the executor and on the receipt
written last, in that order. SQLite outlives the process; pending confirmations, the cancellation
registry and the operation in flight do not.

## 2. Plan and state

1. `Policy`, `PolicyContext`: the engine as operators, the context as a state machine. *Done, proved.*
2. `Authority`: proposal, claim, execution, receipt, confirmation, grants, agents, lifecycle.
   *Done; all its safety properties are proved.*
3. `ChatServer`: connections, cancellation registry, mutex queue, provider wait, shutdown; and
   `ResponseReuse`: response candidates, feedback and reuse. *Done, with proofs.*
4. `MemoryStore`: revision chains, heads, per-key preferences, restore and disable. *Done for
   preferences, with proofs.* Pinning, priority and evidence are left.
5. `Vault`, `Providers`, `Router`: the two stores of a provider, the abstract single store they
   implement, and the model call. *Done; refinement and all invariants proved.*
6. `AgentHost`: one agent run against an arbitrary child. *Done; its invariants are proved.*
7. `Daemon`: processes, socket, schema, sessions, registrations, launches, clients. *Done; all its
   invariants are proved.*
8. `LocalIntents`: the messages resolved without AI and the history they learn from. *Done; all its
   invariants are proved.*

Left: chat session management; aliases and procedures of the memory store.

## 3. Modules

- **`Policy`** translates `engine.rs` and the validation of `domain`. Options are sets of at most
  one element; strings are opaque; what validation tells apart (an unbounded or non-UTF-8 name,
  a digest of the wrong length) is one Boolean `wellFormed`. `MaxHops` and `MaxResources` are the
  code's limits 8 and 16.
- **`PolicyContext`** (`MCPolicyContext`): `PolicyContext`'s fields as `ctx`; every setter an
  action, taken in any order. The capability, the proposal and the engine's
  `allow_reversible_local_writes` flag are chosen initially.
- **`Authority`** (`MCAuthority`): the daemon. Tables are functions from row ids; `op` is the
  operation that holds the mutex and its `stage` is the program counter inside
  `process_proposal`/`confirm_action`; `agentRun` is a `run_agent` call holding the mutex around
  its proposals.

  | Code | Action |
  |---|---|
  | `execute_action`, `dry_run_action`, open-application intent | `BeginRequest` |
  | `run_agent` start, each proposal, end | `BeginAgentRun`, `AgentProposes`, `FinishAgentRun` |
  | `process_proposal`: policy and refusal receipt | `Evaluate` |
  | `process_proposal`: `claim_permission_for_proposal` | `Claim`, `ReturnRefusal` |
  | executor under its timeout | `Execute` |
  | `record_execution` | `RecordExecution` |
  | `record_intent_usage` | `RecordUsage` |
  | `confirm_action`: reject, expired; accepted; evaluation and persistence | `DiscardConfirmation`, `ConfirmAction`, `EvaluateConfirmed` |
  | `security_service.rs` | `UpsertPermissionGrant`, `RevokePermissionGrant`, `UpdateSecurityProfile`, `SetResourceLabel`, `SetAgents` |
  | `begin_daemon_session`, `finish_daemon_session`, process death | `StartDaemon`, `StopDaemon`, `Crash` |
  | `now_ms()` | `Tick` |

  A storage call of an operation in flight may fail: the handler then returns early, and what it
  wrote before stays. `launched` and `uses` are history variables: which executions really started
  an application, and on which grant.

- **`ChatServer`** (`MCChatServer`): `ipc.rs` and the provider wait of `ai_fallback`. `conn` is the
  task of each open connection (its `stage` is the await it stands at), `registry` the
  `CancellationRegistry`, `queue` and `holder` the tokio mutex, which is fair in the order of
  asking, `mode` the process.

  | Code | Action |
  |---|---|
  | `listener.accept()`, `read_frame` under `IO_TIMEOUT` | `Accept`, `FrameFails` |
  | `dispatch_request`: register, cancel, other requests | `ReceiveChat`, `ReceiveCancel`, `ReceiveOther` |
  | `service.lock().await` | `AskForLock`, `TakeLock` |
  | handlers that call no provider | `HandleLocally` |
  | `ai_fallback`: the first look at the signal, the two branches of `select!` | `CallProvider`, `UseAnswer`, `SeeSignal` |
  | the HTTP call | `ProviderAnswers` |
  | removal of the registry entry, by id | `Cleanup` |
  | Ctrl-C, lock for `finish_daemon_session`, process death, start | `Stop`, `StopTakesLock`, `Crash`, `Start` |

  `select!` without `biased` polls its branches in random order, so both are enabled when both are
  ready. A watch receiver whose sender is dropped reports an error from `changed()`; the code then
  awaits the provider alone (stage `committed`).
- **`MemoryStore`** (`MCMemoryStore`): `memory_items` and `memory_revisions` as sequences (the index
  is the row id), and per daemon the revision its handler has built from what it read (`staged`).
  `Remember` and `RestoreMemoryRevision` read and build; `PersistMemoryRevision` is the
  transaction that validates and commits or refuses; `ForgetPreference` and `UpdateMemoryState` are
  single statements. Several daemons may share the database, as nothing in `storage` prevents it:
  a handler's read and its transaction are therefore separate steps.
- **`ResponseReuse`** (`MCResponseReuse`): `response_cache` as `cache`, the awaited message as
  `waiting`, and what clients were shown as `shown`, from which feedback comes at any later time.
  `Ask` is the lookup, `ProviderAnswers` the storing and counting after an answer, with an error
  after each storage call, `SubmitResponseFeedback` the confidence arithmetic of
  `apply_response_feedback`. `verdict`, `asked` and `born` are history variables. `Normalize` and
  `Unstorable` stand for `normalize_request` and for the requests `store_response_candidate`
  refuses.

- **`Vault`** is the promise: a provider holds a key, none, or does not exist; a command is asked,
  then acknowledged with its effect or refused without one; a call sends the key held. Its one
  weakness is `Tear`, by which a failure makes one provider's key `Unknown`.
- **`Router`** has no state: `eligible`, `privacy_allowed`, `route_score` and `select` of `router.rs`,
  and the context builder `build` of `context.rs` over token estimates instead of texts.
- **`Providers`** (`MCProviders`) extends `Router`: `rows` and `models` are tables, `keyring` the OS
  store, `op` the save or removal in progress.

  | Code | Action |
  |---|---|
  | `upsert_provider`, `remove_provider` up to the first change, with their refusals | `upsert_provider`, `remove_provider`, `RefuseCommand` |
  | `secret_store.set`/`delete` | `Mutate`, `MutateFails` |
  | `database.upsert_provider`/`remove_provider` | `Write`, `WriteFails` |
  | `restore_secret` | `Restore`, `RestoreFails` |
  | process death between any two | `Crash` |
  | `test_provider`, `upsert_model`, `update_application_settings` | the same names |
  | `ai_fallback` up to the HTTP call | `ai_fallback` |

  `preview_ai_request` changes nothing and is the pair `PreviewRoute`, `PreviewContext`. `torn` (who
  was parted by a failure) and `tested` (the key of the last test) are history variables. The
  refinement maps a row and its keyring entry to what `Vault` holds, reading the captured secret
  (`op.before`) while the change is neither committed nor taken back: the write of the row is the
  point at which a command takes effect.
- **`AgentHost`** (`MCAgentHost`): `pc` is the await `run_agent` stands at, the pipes hold units, the
  `drain` is the task that reads stderr. The child has an action for everything a process can do
  with its pipes, and no fairness. `sandboxed` is the configuration: bubblewrap kills descendants
  with the child, a bare child leaves them.
- **`Daemon`** (`MCDaemon`): each member of `Daemons` is a process that goes once through `run()`
  (migrations, loading, session, socket, serving, stopping); a restart is another member. Each
  member of `Requests` is one call of `DaemonClient`; a retry is another with the same command.
  `registry` is the copy in memory, `table` the rows, `disk` the files. `basis`, `met`, `swaps`,
  `carried` (how often a call took effect) and `writer` (the last call that took effect on an
  application's row) are for the properties. Authorization is `Authority`'s; here `open` commands are authorized.
- **`LocalIntents`** (`MCLocalIntents`): `events` is `intent_usage_events`, newest first, `chat` the
  message or confirmation in progress with a `pc` for the next write of its handler; `StorageFails`
  ends it there. `earned` counts what justifies a Success: the requests the policy allowed, since the
  handler records one for each (section 6), and the confirmed executions that succeeded.
  Time is in half-lives of the decay, so that scores are exact integers. The table is read in the
  order of its times and so is kept in it: `inserted` puts a row where `ORDER BY created_at_ms DESC`
  finds it, and both deletions then cut the end off.

Definitions whose name ends in `_Something` after the name of another are deliberate faults, used
to confirm that each property notices one; nothing else refers to them.

## 4. Runs

| Run | Shows |
|---|---|
| `policy_context` | hard denials are final; an exact Deny dominates every grant and confirmation; what needs the user's authority runs only on a live grant of exactly that scope, agent and session |
| `authority_confirm` | chat requests for an application that turns sensitive, confirmations racing an expiring Allow and a Deny: a decision on a grant is never lost before the claim, and at the instant of execution no Deny stands against it |
| `authority_agent` | two agent sessions and two daemon lifetimes: agents act only on a claimed grant of theirs; session grants die with their session, also when a finish is lost or the daemon crashes; an agent run with up to two proposals gives the mutex back |
| `authority_clock` | a Once grant starts one plain execution, a prompt one operation and receipts are truthful also when the wall clock is set back at any step, with every persistence and timeout; and every user's operation gives the mutex back |
| `authority_once_overall` (violation) | `docs/architecture.md` says Once grants are consumed before execution; `confirm_action` executes on one without consuming it |
| `chat_server` | three connections, ids that clients may reuse, cancels, shutdown and crash at any await: a registry that names only live requests under their own id, nothing but its own acknowledged cancel cancels a chat; every queued request is answered, an acknowledged cancel frees the service even from a silent provider, Ctrl-C ends the daemon |
| `memory_shared` | two daemons on one database: every item's history is one line ending in its head, an item never changes its key, and the head sorts first in the history the user is shown |
| `reuse_feedback` | an answer is reused only for its own normalized request and while approved; late feedback never reaches a later answer that replaced the one it is about |
| `providers` | two providers, two keys, models and settings: whatever fails or crashes, keyring and rows act as one store (`ActsAsOneStore`, a refinement of `Vault`) and agree unless a failure parted them; no stale Connected; no call against the privacy settings; the preview tells the truth; the budget holds |
| `agent_host` | a child that reads, writes, floods, forks, closes, exits or hangs: every run ends, with the child reaped, a truthful status, and in at most two timeouts |
| `daemon` | two processes over one database and one socket: at most one session is open, no migration runs twice, a daemon alone is reachable and decides by what the table says, a launch is of the registered file and recorded unless the client saw an error or a timeout; every call takes effect at most once, its answer says whether it did, and what is registered is what the last call that took effect asked for, also after timeouts and retries |
| `local_intents` | what a usage history may open, that a correction is on record and wins over it, that a use counts only for an allowed request or a confirmed execution that succeeded, and that every answered message is counted once |

**Bounds.** Two or three executions suffice for every reuse of a grant or a prompt (one use, one
reuse, and the refused request a prompt comes from); one application with two labels, since scopes
of different applications never match; two grants where their order matters (Deny before Allow,
latest first); two daemon lifetimes for recovery; time 0..2 has an instant before, at and after the
expiry of every grant and of a prompt asked for at 0. `authority_agent` and
`authority_once_overall` leave time at 0: what they are about does not expire. `authority_agent` has
no chat sessions, so that its liveness is checked in time; that a chat's grant serves no agent is
`UserAuthorityIsExact`.
`authority_confirm` and `ClaimIsNeverRefused` take a clock
that does not step back; with one that does, the claim may be refused, which is why that property
is not in `authority_clock`. The Authority runs do not check deadlock: when the bound on daemon
lifetimes is used up a crashed daemon is not restarted.

Three connections let one chat hold the mutex, another wait and a third cancel or reuse an id; slots
are free again after each request, so the number of requests is not bounded. Two daemons, two items
and four revisions give a lost update every chance: both build on the same head, one is refused, and
a restore or a second item comes in between. Two answers are what a replaced candidate needs; a
lifetime of 1 and time 0..2 put a lookup before, at and after the expiry. `memory_shared` takes a
clock that does not step back, because `HeadSortsFirst` needs it: the history is ordered by
`created_at`; it runs with a preference typed in two spellings.

Two providers and two keys show one store's change beside another provider's, and a replaced key; a
cloud model whose priority is exactly 900 above the local one stands at the edge of the preference;
the window of 4 (8 in the code) admits three messages beside the current one, and the conversations
lie on both sides of it and of the smallest legal budget: one has a message that fits only alone and
is skipped for a smaller one after it, one has a message that only the preview's longer window reaches.
Two units per frame against a pipe of one make both sides block; one unit of stderr is
at its limit, two are above; two ticks of timeout leave an instant before, at and after the deadline.
Two processes suffice for every race between starting, serving and stopping, two calls for a retry,
two applications on one path for a replaced registration, one swap for a file changed at any moment.
Past uses of 0, 2 and 5 lie below what a history needs to decide, one below it, and at the most a
correction outweighs for certain.
With one path the limit of 200 loaded applications (here 1) is never exceeded, so `RegistryAgrees` is
checked in its strict form. `daemon`, `agent_host` and `local_intents` do not check deadlock: processes
and calls are used up, a run is over when it is over, messages are bounded by `MaxChats`.
`MCDaemon` and `MCLocalIntents` use symmetry, soundly: they check invariants only, and no definition
tells the permuted values apart.

**Fairness.** `Authority!FairSpec`: weak fairness of the steps of an operation in flight and of the
end of an agent run. Each wait inside a handler is bounded (the capability's `timeout`, the agent's
wall deadline) and tokio polls ready tasks. `ChatServer!FairSpec`: weak fairness of each task's own
steps and of the shutdown's turn at the mutex. The provider is not assumed to answer:
`RequestsAreAnswered` and `StopCompletes` take `ProviderResponds` as a hypothesis, which the HTTP
client's total timeout of 45 seconds justifies, and `CancelFreesTheService` holds without it.
`AgentHost!Spec`: weak fairness of the host's own steps and of the stderr task, which tokio polls, and
of the clock, which does advance; none of the child or its descendants. `EverythingEnds` rests
on that alone.
`MutexIsReleased` is checked for users' operations in `authority_clock` and for agent runs and their
proposals in `authority_agent`. Nothing else is assumed of clients, of the clock or of restarts.

## 5. Proofs

The runs check what a small instance can refute and the theorems do not make certain already. Type
correctness of the proved modules, `StrictIsStrictest`, `AllowGrantLiftsOnlyConfirm`,
`OneHandlerAtATime`, `ReusedAnswersAreFresh` and `LocalIsPreferred` are left to their theorems; they
are ordinary invariants or action properties and any of them may be added to a `.cfg`.

All hold for every value of the constants under the assumptions the modules name
(`PolicyAssumption`, `ContextAssumption`, `AuthorityAssumption`, `ServerAssumption`,
`MemoryAssumption`, `ReuseAssumption`, `ConstantsAssumption`, `HostAssumption`,
`DaemonAssumption`, `IntentAssumption`), which TLC evaluates in the runs. `IntentAssumption` says of
the retention that it is at most the code's twelve half-lives, and of the history that it holds two
events or more (512 in the code): with room for one, the acceptance of a correction evicts its rejection.

- `PolicyContextProofs`: type correctness and all five properties of `PolicyContext`. Each follows
  from `TypeOK` and lemmas about `Decide` (what a hard denial depends on, monotonicity in the
  context); the action properties need that a hard denial depends only on parts of the context that
  no setter changes.
- `AuthorityProofs`: type correctness, one step per action, six invariants and an action property.
  - `OnceGrantsStartOnce`. `OnceGrantStartsOnce` alone is not inductive: a claim that has counted
    the use is ahead of the history. The invariant ties the two: a grant with `use_count = 0` has
    started nothing and is claimed by nobody in flight, and an operation that claimed a grant and
    has not executed is its only user.
  - `ReceiptsTellTheTruth`, by `AuditInv`: ids at or above `next` are unused everywhere, the
    in-flight execution has no receipt, and its status agrees with `launched`.
  - `ConfirmationsAreSingleUse`: every pending prompt has a NotExecuted receipt for its
    application, and an operation's prompt has left the table.
  - `AgentsNeedGrants`, by `AgentOK`: for an agent's operation the baseline never allows a side
    effect, so an authorization carries `PersistentExactAllow` and passes through the claim, whose
    row matches the agent.
  - `SessionGrantsDie`, by `SessionInv`: every unrevoked grant's session is alive, only `Session`
    grants have one (the revocations look at the lifetime first), the session of a serving daemon is
    the last and open, and a confirmation's operation belongs to no agent, so that the grant it
    saves names a chat. `StopDaemon` needs the third: it ends the last session and no other.
  - `ClaimsAreNeverRefused`, for a clock that is not set back, by `ClaimInv`: an operation about to
    claim has a grant that is live at its own start time, and no grant is from the future. The second
    half is what makes the latest of the candidates exist for any set of grants
    (`LatestExists`, from the well-foundedness of the naturals).
  - `AuthorityStands` proves the action property `StandingAuthority` for the same clock, by
    `StandingInv` on top of `ClaimInv`: from the decision on no active Deny covers the operation, and
    once it is authorized the grant it names is an unrevoked Allow of its scope and agent. That a
    Deny cannot have been overlooked at the decision is `DenyIsLoaded`: of the active grants the query
    returns the latest Deny if there is one, and the engine then refuses. That none comes in later is
    the mutex: whatever changes a grant meanwhile is a step of the operation itself, and time only
    makes grants expire.

- `ChatServerProofs`, by `ServerInv`: the mutex has at most one holder, the holder is the task inside
  a handler, each connection's fields agree with its stage (`RowOK`), and each registry entry
  belongs to the live request with that id and no signal (`EntryOK`). Exactness needs that a task's
  entry is either its own or gone: cleanup removes by id, and a second chat under the same id can
  register only after the first entry was taken out by a cancel. Then
  the first chat's cleanup may remove the second's entry, which leaves the second uncancellable
  but never names a request that is gone.
- `MemoryStoreProofs`, by `MemoryInv`: besides the histories it says of every staged change that its
  key is the key of all revisions of its item (`StagedMatches`), because the change is committed
  after other daemons have written. `HeadsSortFirst` uses `TimeInv` as well (no row and no staged
  change is from the future, and a change staged on the current head is not older than it) and assumes a clock that is not set back.
- `ChatAnswerProofs` is about both ways in which `chat` answers without a model: it extends
  `LocalIntents` and `ResponseReuse`, whose specification is `ReuseSpec`.
  - Reused answers, by `ReuseInv`: the id of a cached row is the number of its answer, a row is
    reusable only if its answer's verdict is `approved`, and a row's request and expiry are those of
    its answer. Ids are fresh, so an id shown before can stand for no other answer.
  - Local intents, by `IntentInv`. The history is `Sorted`, without which the events that the age
    limit keeps would not be a prefix of it. Every message is in progress, answered or failed
    (`Ledger`), the counters are ahead of the answers by the one about to be given (`UsageBalance`),
    and what justifies a Success comes before it (`EarnedFirst`: an Allow for a direct request, a
    successful execution for a confirmed one), which give `BooksAreHonest`. With a
    clock that has not been set back a correction's rejection is the newest event and is still on
    record under its acceptance (`RejectionStands`): half of `CorrectionTakesEffect`.
  - The other half, and all of `EvidenceIsEnough`, is arithmetic that holds for every history.
    `RawBound` bounds the evidence for an application by its events, each at its undecayed weight,
    and a rejection at no age by its full weight; two uses, one correction, or 28 quarters against a
    rejection's 16 leave at most 12, three in the units of the score. `OneCorrectionLeavesDoubt` says
    that this leaves a doubt of at least 0.3505 (`exp(-1)` is 0.3679), a confidence that rounds to
    649 permille at most, one below the threshold of 650. The steps of `Doubt` up to there, up to
    49152, are taken in 24 equal chunks, each of which costs at most one part in 24 of the doubt and one
    per step for rounding (`DoubtChunk`), so that one bound serves every retention of at least one
    half-life; for none, the twelve steps are written out.
  - `Pow2`, `raw` and `Doubt` are recursive functions. `Iteration` shows, from the least number at
    which two partial solutions would differ, that the function each equation describes exists.

- `ProvidersProofs`, by `ProvidersInv`: `TypeOK`, `StoresAgree`, `ConnectedIsCurrent` and
  `PrivacyPolicyHolds` together with `CommandInv`, which says what the command in flight has done so
  far: before the mutation `before` is what the keyring holds, after it the keyring holds what was
  asked, a restoration follows a mutation only, and nothing is sent meanwhile. Without it a step that
  writes the row could find any key there. `LocalStaysPreferred` follows from the choice of a maximal
  score (`LocalBonus`). `ProvidersImplementVault` is the refinement: each step is mapped to `Ask`,
  `Acknowledge`, `Refuse`, `Tear`, `Send`, `Other` or a stutter (`StepRefines`), with the same
  invariant as hypothesis. `ActsAsOneStore` is checked by the run `providers` on a small instance and
  holds by this theorem for any providers, keys, models and settings.
  `ContextsStayInBudget` and `PreviewsAreHonest` are about the loop of `build`, for conversations of
  any length: `BuildHasRounds` shows that the recursive function has its rounds, and `BuildFacts` that
  after each the tokens are within the budget and nothing was taken only if nothing fits on its own.
  Both take the least round that would fail (`LeastNat`) in place of an induction rule. The preview's
  longer window contains the chat's (`NewestGrows`), so it is empty only if the chat's is; the routes
  agree because `privacy_allowed` asks for the user's consent only where personal context is sent, and
  it is sent only with that consent.
- `AgentHostProofs`, by `HostInv`: besides `TypeOK`, that some waits are reached only with a dead child
  (`ChildInv`), what has gone through the pipes by then (`PipeInv`), that the stderr task ends well only
  when nobody can write any more (`DrainInv`), and that a status is set where the run is given up or
  ends (`StatusInv`). `WallIsBounded` needs `ClockInv`: the deadline is set once before the request is
  handed over and once after it, is therefore never later than two timeouts, and the child's age never
  passes it by more than what the broker itself spent.
- `DaemonProofs`, by `DaemonInv`, in three parts that build on each other.
  - Processes: `MetInv` (two that are alive together know it), `SchemaInv` (migrations are applied in
    order, and a daemon's version counts only applied ones) and `SocketInv` (a daemon that met nobody
    still has its session, path and mode) give `StartsAreSound`.
  - Registrations: `TableInv` (a path is registered once) and `RegistryInv`, which is `RegistryAgrees`
    from the moment the registry is filled, since the socket is bound later than that. The exception
    for the limit needs that more registrations than the limit mean more paths, an injection.
  - Requests: `QueueInv`, `CallInv` (queue and client agree on each call), `WorkInv`, `BehindInv` and
    `VerifiedInv` say how far the holder of the mutex has come and that nobody behind it has begun.
    Without `VerifiedInv` a spawn could start what was never checked; without `BehindInv` the next
    holder could find a launch of its own. They give `LaunchesAreSound`.
    `AnswersAreTrue` needs that a call still queued or never accepted has done nothing (`Untouched`)
    and that one being answered has taken effect exactly if its handler says so (`AtWork`): that no
    call takes effect twice, and none after its answer, is then the queue's having it once. That
    every row is what its last writer asked for (`RowsAreExplained`) is carried along; `RowsStep`
    shows that only a call that takes effect changes a row.

**Model-checked only.** Liveness is out of the prover's reach: `MutexIsReleased`,
`RequestsAreAnswered`, `CancelFreesTheService`, `StopCompletes`, `EverythingEnds`. Every invariant, action
property and refinement that a run expects to hold is also a theorem.

## 6. Where code and documentation part

`authority_once_overall` is checked as a finding. These were met while modelling; the models follow
the code, and no run is spent on them.

- A cancel that is acknowledged may still be answered by the model: `select!`
  (`interaction_service.rs:653`) takes either branch when both are ready; `docs/architecture.md:171`
  describes the cancellation and does not mention the race.
- `forget Editor` does not find what `remember ... Editor` stored: forget phrases are lowercased
  (`chat.rs:153`), remember phrases keep the name as typed; `docs/architecture.md:64` describes both as operations on
  the same memory.
- A message whose normalized form cannot be stored loses the provider's answer
  (`storage/interaction.rs:471`; `docs/core-walkthrough.md:109`).
- A launch that the policy allowed and that then failed is recorded as a `Success`
  (`interaction_service.rs:348`), and so is a dry run, while `Failure` is never recorded;
  `docs/core-walkthrough.md:68` scores failures negatively. A confirmed execution is recorded only when
  it succeeded (1576). `BooksAreHonest` says as much and no more.
- One wall deadline does not cover the full exchange with an agent (`docs/security.md:71`):
  `start` gives the first write a timeout of its own and the deadline is set after it, hence
  `WallIsBounded` with two timeouts, and what the daemon spends on proposals is not cut short.
- With `PreferLocal` a cloud model is still chosen when its priority is more than 900 above every
  local one: a margin, not a rule.
- The preview counts the last eight messages of a session; the chat, whose own message is already
  stored, sends at most seven earlier ones. `PreviewIsHonest` therefore says that the preview never
  hides that conversation is sent, not that the counts agree.
- When the compensation fails the reply says that the secret was not stored although it may be. A key
  left behind by a crash before its row was written is not found by a later clear or removal, which
  look at the row's reference only; `Vault!Outcomes` admits it.
- A second daemon ends the first one's session and removes its socket; the first one's exit then
  removes the second's. `ReadyIsReachable` (a part of `StartsAreSound`) and `RegistryAgrees` speak of daemons that nobody
  overlapped.
- Only the first 200 registered applications are loaded at start.
- "open that" applies an alias to a name that was already resolved through it once.
- Seven recorded uses (six, when the accepted application was itself rejected before) outweigh a correction, and in a full history under a clock set back
  a correction may be evicted as it is written; both are conditions of `CorrectionTakesEffect`.

## 7. Not modelled, and why

Components with status `not_modelled` or `partly` in `PROJECT.json` give their reason. Logging, the
command line client and the desktop application forward one request or format text and keep no state
a property could read. Inside the modelled parts: activity rows and the counters no property reads;
labels for paths, domains and hosts (the only shipped capability names an application); owner, mode
and hash of files (told apart only as content or untrusted); the arguments of the sandbox and the
resource limits (the operating system's); the bytes of frames, prompts and HTTP bodies; the phrase
parser, whose results are the intents; scores between two whole half-lives. Between the executor and
`record_execution` a crash leaves a started application without a receipt: `LaunchIsRecorded`, a part of
`LaunchesAreSound`, says that nothing else does, and `ReceiptsAreTruthful` speaks of recorded executions.
