--------------------------- MODULE ResponseReuse ---------------------------
(***************************************************************************)
(* Reuse of AI answers: the cache lookup and the provider fallback of chat  *)
(* (apps/daemon/src/interaction_service.rs), response_cache and its feedback *)
(* (crates/storage/src/interaction.rs).                                     *)
(*                                                                          *)
(* Every handler runs under the service mutex; while a chat waits for the   *)
(* provider only time passes, or the process dies.  answers counts what the *)
(* provider returned; verdict, asked and born keep, for the properties, the *)
(* last feedback stored for each answer and where the answer came from.     *)
(***************************************************************************)
EXTENDS Naturals, Integers, FiniteSets

CONSTANTS
    Messages,        \* chat messages that no local intent resolves
    Requests,        \* normalized requests
    Normalize,       \* normalize_request
    Unstorable,      \* requests store_response_candidate refuses: empty, or over 4096 bytes
    TTL,             \* RESPONSE_CANDIDATE_TTL_MS
    StorageMayFail,  \* whether SQLite may refuse a statement
    MaxClock,        \* bound on the clock
    MaxAnswers       \* bound on provider answers

ASSUME ReuseAssumption ==
    /\ Normalize \in [Messages -> Requests]
    /\ Unstorable \subseteq Requests
    /\ StorageMayFail \in BOOLEAN
    /\ {TTL, MaxClock, MaxAnswers} \subseteq Nat

VARIABLES
    now,      \* now_ms()
    prefer,   \* application_settings.prefer_cached_local
    cache,    \* response_cache: normalized request -> row
    waiting,  \* the message whose provider call is awaited, if any
    reply,    \* the last chat reply
    shown,    \* answers the user has been shown: <<reusable_candidate_id, answer>>
    answers,  \* provider answers so far
    verdict,  \* per answer: what the user last said of it
    asked,    \* per answer: the request it was given to
    born      \* per answer: when its candidate was created

history == <<answers, verdict, asked, born>>
reuseVars == <<now, prefer, cache, waiting, reply, shown, history>>

-----------------------------------------------------------------------------
CacheRow == [id : Nat, answer : Nat, confidence : 0..1000, reusable : BOOLEAN,
             valid_until : Nat]
Feedback == {"Useful", "Wrong", "DoNotRemember", "AlwaysUse", "Prefer"}

Reply(source, answer) == [source |-> source, answer |-> answer]
Nothing == Reply("none", 0)

Put(f, k, v) == [i \in DOMAIN f \cup {k} |-> IF i = k THEN v ELSE f[i]]

\* cached_response
Reusable(row, t) == row.reusable /\ row.confidence >= 800 /\ row.valid_until >= t

Cached(request) == {q \in {request} \cap DOMAIN cache : Reusable(cache[q], now)}

\* apply_response_feedback
ConfidenceDelta(feedback) ==
    CASE feedback = "Useful"        -> 50
      [] feedback = "Wrong"         -> -500
      [] feedback = "DoNotRemember" -> 0
      [] feedback = "AlwaysUse"     -> 500
      [] feedback = "Prefer"        -> 100

Clamp(n) == IF n < 0 THEN 0 ELSE IF n > 1000 THEN 1000 ELSE n

Judge(row, feedback) ==
    [row EXCEPT !.confidence = Clamp(@ + ConfidenceDelta(feedback)),
                !.reusable = IF feedback = "AlwaysUse" THEN TRUE
                             ELSE IF feedback \in {"Wrong", "DoNotRemember"} THEN FALSE
                             ELSE @]

\* The candidate of a new answer, and store_response_candidate: a row of the
\* same request is replaced, its id included.
Candidate(id, answer) ==
    [id |-> id, answer |-> answer, confidence |-> 550, reusable |-> FALSE,
     valid_until |-> now + TTL]

StoreCandidate_KeepingId(request, row) ==
    cache' = Put(cache, request,
                 IF request \in DOMAIN cache THEN [row EXCEPT !.id = cache[request].id] ELSE row)

StoreCandidate_KeepingReuse(request, row) ==
    cache' = Put(cache, request,
                 IF request \in DOMAIN cache
                 THEN [row EXCEPT !.reusable = cache[request].reusable,
                                  !.confidence = cache[request].confidence]
                 ELSE row)

StoreCandidate(request, row) == cache' = Put(cache, request, row)

-----------------------------------------------------------------------------
(* chat_with_cancellation and ai_fallback.                                  *)

\* The lookup; a miss, or a setting against reuse, goes to the provider.
Ask(message) ==
    /\ waiting = {}
    /\ LET hit == IF prefer THEN Cached(Normalize[message]) ELSE {} IN
       \/ \E q \in hit :
            /\ reply' = Reply("cache", cache[q].answer)
            /\ shown' = shown \cup {<<cache[q].id, cache[q].answer>>}
            /\ UNCHANGED waiting
       \/ /\ hit = {}
          /\ waiting' = {message}
          /\ reply' = Nothing
          /\ UNCHANGED shown
       \/ /\ StorageMayFail
          /\ reply' = Nothing
          /\ UNCHANGED <<waiting, shown>>
    /\ UNCHANGED <<now, prefer, cache, history>>

\* The provider's answer arrives.  Without conversation context it becomes a
\* candidate with an id of its own (the answer's number here), which
\* store_response_candidate refuses for an unstorable request; then the usage is
\* counted, the message appended and the reply sent.
AnswerMessage(message, withContext) ==
    LET request == Normalize[message]
        answer  == answers + 1
        stored  == ~withContext /\ request \notin Unstorable
    IN /\ answers < MaxAnswers
       /\ answers' = answer
       /\ verdict' = Put(verdict, answer, "none")
       /\ asked' = Put(asked, answer, request)
       /\ born' = Put(born, answer, now)
       /\ waiting' = {}
       /\ \/ /\ stored
             /\ StoreCandidate(request, Candidate(answer, answer))
             /\ \/ /\ reply' = Reply("ai", answer)
                   /\ shown' = shown \cup {<<answer, answer>>}
                \/ /\ StorageMayFail
                   /\ reply' = Nothing
                   /\ UNCHANGED shown
          \/ /\ withContext
             /\ reply' = Reply("ai", answer)
             /\ UNCHANGED <<cache, shown>>
          \/ /\ StorageMayFail \/ (~withContext /\ request \in Unstorable)
             /\ reply' = Nothing
             /\ UNCHANGED <<cache, shown>>
       /\ UNCHANGED <<now, prefer>>

ProviderAnswers ==
    \E message \in waiting, withContext \in BOOLEAN : AnswerMessage(message, withContext)

\* No provider is eligible, it fails, the chat is cancelled, or the process dies.
ProviderFails ==
    /\ waiting # {}
    /\ waiting' = {}
    /\ reply' = Nothing
    /\ UNCHANGED <<now, prefer, cache, shown, history>>

\* submit_response_feedback for an answer shown at any time before.  An id no
\* longer in the table is refused, as is any feedback SQLite fails to store, and
\* a refusal changes nothing.
SubmitResponseFeedback(id, answer, feedback) ==
    /\ waiting = {}
    /\ <<id, answer>> \in shown
    /\ \E q \in DOMAIN cache : cache[q].id = id
    /\ cache' = [q \in DOMAIN cache |-> IF cache[q].id = id THEN Judge(cache[q], feedback)
                                        ELSE cache[q]]
    /\ verdict' = [verdict EXCEPT ![answer] =
                     IF feedback = "AlwaysUse" THEN "approved"
                     ELSE IF feedback \in {"Wrong", "DoNotRemember"} THEN "withdrawn" ELSE @]
    /\ UNCHANGED <<now, prefer, waiting, reply, shown, answers, asked, born>>

\* update_application_settings
UpdateApplicationSettings ==
    /\ waiting = {}
    /\ prefer' = ~prefer
    /\ UNCHANGED <<now, cache, waiting, reply, shown, history>>

\* The wall clock, which may be set back.
Tick(t) ==
    /\ t # now
    /\ now' = t
    /\ UNCHANGED <<prefer, cache, waiting, reply, shown, history>>

-----------------------------------------------------------------------------
ReuseInit ==
    /\ now = 0
    /\ prefer = TRUE
    /\ cache = [q \in {} |-> 0]
    /\ waiting = {}
    /\ reply = Nothing
    /\ shown = {}
    /\ answers = 0
    /\ verdict = [a \in {} |-> "none"]
    /\ asked = [a \in {} |-> 0]
    /\ born = [a \in {} |-> 0]

ReuseNext ==
    \/ \E message \in Messages : Ask(message)
    \/ ProviderAnswers
    \/ ProviderFails
    \/ \E p \in shown, feedback \in Feedback : SubmitResponseFeedback(p[1], p[2], feedback)
    \/ UpdateApplicationSettings
    \/ \E t \in 0..MaxClock : Tick(t)

ReuseSpec == ReuseInit /\ [][ReuseNext]_reuseVars

-----------------------------------------------------------------------------
(* Properties.                                                              *)

ReuseTypeOK ==
    /\ now \in Nat /\ prefer \in BOOLEAN /\ answers \in Nat
    /\ cache \in [DOMAIN cache -> CacheRow] /\ DOMAIN cache \subseteq Requests \ Unstorable
    /\ \A q \in DOMAIN cache : cache[q].answer \in 1..answers
    /\ waiting \subseteq Messages
    /\ reply \in [source : {"none", "cache", "ai"}, answer : 0..answers]
    /\ shown \subseteq Nat \X (1..answers)
    /\ verdict \in [1..answers -> {"none", "approved", "withdrawn"}]
    /\ asked \in [1..answers -> Requests]
    /\ born \in [1..answers -> Nat]

\* Feedback reaches the answer it was given for: an id the user was shown with
\* one answer never stands for another in the cache, however often the request
\* was answered anew since (store_response_candidate replaces the id).
FeedbackStaysWithItsAnswer ==
    \A p \in shown : \A q \in DOMAIN cache : cache[q].id = p[1] => cache[q].answer = p[2]

\* A row that could be reused holds an answer the user approved with AlwaysUse
\* and has not called wrong or told to forget since, whatever other feedback,
\* replacement and expiry came in between.
ReuseNeedsApproval ==
    \A q \in DOMAIN cache :
        cache[q].reusable /\ cache[q].confidence >= 800 => verdict[cache[q].answer] = "approved"

\* A reused answer was given to the same normalized request, is approved at that
\* moment, and is not older than the candidate's lifetime.
ReusedAnswersAreFresh ==
    [][\A message \in Messages :
         Ask(message) /\ reply'.source = "cache" =>
            /\ asked[reply'.answer] = Normalize[message]
            /\ verdict[reply'.answer] = "approved"
            /\ born[reply'.answer] + TTL >= now]_reuseVars
=============================================================================
