---------------------------- MODULE LocalIntents ----------------------------
(* Chat messages that are resolved without AI (handle_local_intent in        *)
(* apps/daemon/src/interaction_service.rs): open an application by name, by  *)
(* context ("open that") or as a correction ("not this, that"), and the      *)
(* usage history the contextual choice is made from (behaviour.rs).          *)
(*                                                                           *)
(* A handler holds the service lock throughout, so messages do not           *)
(* interleave, but every write of it may fail and leaves the earlier ones    *)
(* behind, and the wall clock moves as it likes.  Time is counted in         *)
(* half-lives of the decay.  The policy decision is Policy's and Authority's *)
(* matter: here it is any outcome.                                           *)
EXTENDS Integers, Sequences, FiniteSets

CONSTANTS
    Names,          \* what a user may type for an application
    Apps,           \* application entities
    Entity,         \* [Names -> Apps]: application_entity, which folds spellings
    Display,        \* [Apps -> Names]: display_for_entity
    None,
    Keep,           \* retention in half-lives (12 whole ones)
    MaxEvents,      \* DEFAULT_MAX_EVENTS (512)
    MaxTime,        \* bound: the clock's range
    PastUses,       \* bound: how many uses may be on record from earlier sessions
    MaxChats,       \* bound: messages and confirmations
    MaxAliases      \* bound: preferences active together

\* The message in progress: what it does next, and what that needs.
Chats == [pc : {"rejected", "accepted", "correction", "open", "record", "count", "clarify",
               "answer", "confirmed"},
          name : Names \cup {None}, app : Apps \cup {None}, not : Apps \cup {None},
          at : 0..MaxTime]

ASSUME IntentAssumption ==
    /\ Entity \in [Names -> Apps] /\ Display \in [Apps -> Names]
    /\ \A a \in Apps : Entity[Display[a]] = a
    /\ Keep \in 0..12 /\ MaxEvents \in Nat \ {0, 1} /\ MaxTime \in Nat
    /\ PastUses \subseteq 0..MaxEvents
    /\ MaxChats \in Nat /\ MaxAliases \in Nat
    /\ None \notin Names \cup Apps /\ None \notin Chats

Outcomes == {"Success", "Failure", "CorrectionAccepted", "CorrectionRejected"}
Events == [app : Apps, outcome : Outcomes, time : 0..MaxTime]

VARIABLES
    events,         \* intent_usage_events, newest first
    alias,          \* [Names -> Names or None]: the active preference by that key
    usage,          \* [local, clarified]: the counters of usage_stats
    pending,        \* applications waiting for a confirmation
    chat,           \* the message in progress, or None
    clock,          \* now_ms
    tally,          \* ghost: [begun, answered, failed] messages and confirmations
    earned          \* ghost: [Apps -> what justifies a Success: requests the policy
                    \* allowed, and confirmed executions that succeeded]

vars == <<events, alias, usage, pending, chat, clock, tally, earned>>

TypeOK ==
    /\ events \in Seq(Events)
    /\ Len(events) <= MaxEvents
    /\ alias \in [Names -> Names \cup {None}]
    /\ usage \in [local : 0..MaxChats, clarified : 0..MaxChats]
    /\ pending \subseteq Apps
    /\ chat \in Chats \cup {None}
    /\ clock \in 0..MaxTime
    /\ tally \in [begun : 0..MaxChats, answered : 0..MaxChats, failed : 0..MaxChats]
    /\ earned \in [Apps -> 0..(MaxEvents + MaxChats)]

Count(history, a, kinds) ==
    Cardinality({i \in DOMAIN history : history[i].app = a /\ history[i].outcome \in kinds})

\* Bound: uses on record from an earlier session, of one application at one time.
Past == {[i \in 1..n |-> [app |-> a, outcome |-> "Success", time |-> 0]] :
            n \in PastUses, a \in Apps}

\* Bound: the preferences do not change meanwhile; how they do is MemoryStore's
\* matter.
Aliases == {f \in [Names -> Names \cup {None}] :
               /\ Cardinality({n \in Names : f[n] # None}) <= MaxAliases
               /\ \A n \in Names : f[n] # n}

Init ==
    /\ events \in Past /\ alias \in Aliases
    /\ usage = [local |-> 0, clarified |-> 0] /\ pending = {} /\ chat = None
    /\ clock = 0
    /\ tally = [begun |-> 0, answered |-> 0, failed |-> 0]
    /\ earned = [a \in Apps |-> Count(events, a, {"Success"})]

-----------------------------------------------------------------------------
(* The usage history: record_intent_usage and recent_intent_usage.           *)

\* How many events are later than t: the history is sorted, so the first ones.
newer(t) == Cardinality({i \in DOMAIN events : events[i].time > t})

\* Inserted by time, before the events of its own time; the rest moves up.
inserted(event, length) ==
    LET place == newer(event.time) + 1
    IN  [i \in 1..length |-> IF i < place THEN events[i]
                             ELSE IF i = place THEN event ELSE events[i - 1]]

\* Mutant: the history is cut by age only.
record_intent_usage_Untrimmed(a, outcome, at) ==
    events' = inserted([app |-> a, outcome |-> outcome, time |-> at], newer(at - Keep - 1) + 1)

\* Inserted, then cut by age and to the newest MaxEvents.
record_intent_usage(a, outcome, at) ==
    LET recent == newer(at - Keep - 1) + 1
    IN  events' = inserted([app |-> a, outcome |-> outcome, time |-> at],
                           IF recent <= MaxEvents THEN recent ELSE MaxEvents)

recent_intent_usage(now) == SubSeq(events, 1, newer(now - Keep - 1))

-----------------------------------------------------------------------------
(* BehaviourScorer.  Evidence is kept in units of a quarter at the oldest    *)
(* age, so that every half-life halves it exactly.                           *)

\* Mutant: a rejected correction weighs no more than a failure.
signal_WeakRejection(outcome) ==
    CASE outcome = "Success" -> 5
      [] outcome = "CorrectionAccepted" -> 12
      [] OTHER -> -3

\* 1.25, -0.75, 3 and -4, in quarters.
signal(outcome) ==
    CASE outcome = "Success" -> 5
      [] outcome = "Failure" -> -3
      [] outcome = "CorrectionAccepted" -> 12
      [] outcome = "CorrectionRejected" -> -16

\* 2^n: what a quarter weighs n half-lives before the oldest age.
Pow2[n \in Nat] == IF n = 0 THEN 1 ELSE 2 * Pow2[n - 1]

\* What event e says for an application: in the future, it counts as new.
weight(e, a, now) ==
    LET age == IF now > e.time THEN now - e.time ELSE 0
    IN  IF e.app # a THEN 0 ELSE signal(e.outcome) * Pow2[Keep - age]

\* The evidence for an application.
raw(history, a, now) ==
    LET sum[i \in 0..Len(history)] ==
            IF i = 0 THEN 0 ELSE sum[i - 1] + weight(history[i], a, now)
    IN  sum[Len(history)]

\* exp(-n / k) in ten-millionths, k the units of evidence in three: every step
\* multiplies by (2k - 1) / (2k + 1).  Right to one permille.
Certainty == 10000000
Doubt[n \in Nat] ==
    IF n = 0 THEN Certainty
    ELSE (Doubt[n - 1] * (24 * Pow2[Keep] - 1)) \div (24 * Pow2[Keep] + 1)

score(history, a, now) ==
    LET evidence == raw(history, a, now)
    IN  IF evidence <= 0 THEN 0 ELSE 1000 - (Doubt[evidence] + 5000) \div 10000

\* Mutant: the threshold is lower.
resolve_Eager(history, now) ==
    {a \in Apps : /\ score(history, a, now) >= 600
                  /\ \A b \in Apps \ {a} : score(history, a, now) - score(history, b, now) >= 120}

\* The application the history speaks for, or none: confident enough and ahead
\* of every other.
resolve(history, now) ==
    {a \in Apps : /\ score(history, a, now) >= 650
                  /\ \A b \in Apps \ {a} : score(history, a, now) - score(history, b, now) >= 120}

-----------------------------------------------------------------------------
(* Messages.                                                                 *)

Begin(pc, name, app, not, at) ==
    /\ chat = None /\ tally.begun < MaxChats
    /\ chat' = [pc |-> pc, name |-> name, app |-> app, not |-> not, at |-> at]
    /\ tally' = [tally EXCEPT !.begun = @ + 1]
    /\ UNCHANGED <<events, alias, usage, pending, clock, earned>>

At(pc) == chat # None /\ chat.pc = pc
To(pc) == chat' = [chat EXCEPT !.pc = pc]

\* "open <name>".
OpenApp(n) == Begin("open", n, Entity[n], None, 0)

\* "open that": what the history resolves to, by its display name; otherwise a
\* question back.
ContextualOpenApp ==
    LET choice == resolve(recent_intent_usage(clock), clock)
    IN  \/ \E a \in choice : Begin("open", Display[a], a, None, 0)
        \/ choice = {} /\ Begin("clarify", None, None, None, 0)

\* "not <this>, <that>".
CorrectOpenApp(rejected, accepted) ==
    Begin("rejected", accepted, Entity[accepted], Entity[rejected], clock)

\* Both events carry the time the handler took at its start.
CorrectionRejected ==
    /\ At("rejected") /\ To("accepted")
    /\ record_intent_usage(chat.not, "CorrectionRejected", chat.at)
    /\ UNCHANGED <<alias, usage, pending, clock, tally, earned>>

CorrectionAccepted ==
    /\ At("accepted") /\ To("correction")
    /\ record_intent_usage(chat.app, "CorrectionAccepted", chat.at)
    /\ UNCHANGED <<alias, usage, pending, clock, tally, earned>>

record_correction ==
    /\ At("correction") /\ To("open")
    /\ UNCHANGED <<events, alias, usage, pending, clock, tally, earned>>

\* A preference by the name redirects the request, once.
Target == IF alias[chat.name] = None THEN chat.app ELSE Entity[alias[chat.name]]

\* Any decision: an allowed one is executed, and counts whatever the executor
\* says; one to confirm is kept; one denied ends there.
execute_proposal ==
    /\ At("open")
    /\ \E decision \in {"Allow", "Confirm", "Deny"} :
          /\ chat' = [chat EXCEPT !.app = Target, !.name = None, !.not = None, !.at = 0,
                                  !.pc = IF decision = "Allow" THEN "record" ELSE "count"]
          /\ earned' = IF decision = "Allow" THEN [earned EXCEPT ![Target] = @ + 1] ELSE earned
          /\ pending' = IF decision = "Confirm" THEN pending \cup {Target} ELSE pending
    /\ UNCHANGED <<events, alias, usage, clock, tally>>

RecordSuccess ==
    /\ At("record") /\ To("count")
    /\ record_intent_usage(chat.app, "Success", clock)
    /\ UNCHANGED <<alias, usage, pending, clock, tally, earned>>

add_usage ==
    /\ At("count") \/ At("clarify")
    /\ To("answer")
    /\ usage' = IF chat.pc = "count" THEN [usage EXCEPT !.local = @ + 1]
                ELSE [usage EXCEPT !.clarified = @ + 1]
    /\ UNCHANGED <<events, alias, pending, clock, tally, earned>>

finish_chat ==
    /\ At("answer")
    /\ chat' = None /\ tally' = [tally EXCEPT !.answered = @ + 1]
    /\ UNCHANGED <<events, alias, usage, pending, clock, earned>>

\* A write fails: the message ends in an error.
StorageFails ==
    /\ chat # None
    /\ chat' = None /\ tally' = [tally EXCEPT !.failed = @ + 1]
    /\ UNCHANGED <<events, alias, usage, pending, clock, earned>>

\* What a confirmation came to: dropped, expired or denied; or executed, with
\* the receipt's status.
Results == {"None", "Succeeded", "DryRunSucceeded", "Failed", "TimedOut"}
Successful == {"Succeeded", "DryRunSucceeded"}

\* A confirmation is answered.  Its handler goes on to note the use when `noted`
\* says so; it counts in no usage counter, so it is kept with the failed.
Confirmed(a, result, noted) ==
    /\ chat = None /\ a \in pending /\ tally.begun < MaxChats
    /\ pending' = pending \ {a}
    /\ earned' = IF result \in Successful THEN [earned EXCEPT ![a] = @ + 1] ELSE earned
    /\ chat' = IF noted
               THEN [pc |-> "confirmed", name |-> None, app |-> a, not |-> None, at |-> 0]
               ELSE None
    /\ tally' = [tally EXCEPT !.begun = @ + 1, !.failed = @ + IF noted THEN 0 ELSE 1]
    /\ UNCHANGED <<events, alias, usage, clock>>

\* Mutant: every execution is noted, as for a direct request.
confirm_action_WhateverStatus(a) ==
    \E result \in Results : Confirmed(a, result, result # "None")

\* Only an execution that succeeded is noted, or its dry run.
confirm_action(a) ==
    \E result \in Results : Confirmed(a, result, result \in Successful)

RecordConfirmed ==
    /\ At("confirmed")
    /\ record_intent_usage(chat.app, "Success", clock)
    /\ chat' = None /\ tally' = [tally EXCEPT !.failed = @ + 1]
    /\ UNCHANGED <<alias, usage, pending, clock, earned>>

\* The wall clock, forwards or back, between its readings.
ClockMoves ==
    /\ chat = None \/ At("record") \/ At("confirmed")
    /\ clock' \in 0..MaxTime /\ clock' # clock
    /\ UNCHANGED <<events, alias, usage, pending, chat, tally, earned>>

-----------------------------------------------------------------------------
Next ==
    \/ \E n \in Names : OpenApp(n)
    \/ ContextualOpenApp
    \/ \E n, m \in Names : CorrectOpenApp(n, m)
    \/ CorrectionRejected \/ CorrectionAccepted \/ record_correction
    \/ execute_proposal \/ RecordSuccess \/ add_usage \/ finish_chat \/ StorageFails
    \/ \E a \in Apps : confirm_action(a)
    \/ RecordConfirmed
    \/ ClockMoves

Spec == Init /\ [][Next]_vars

-----------------------------------------------------------------------------
(* Properties.                                                               *)

\* Whatever the clock does, "open that" opens nothing on a single event of any
\* kind, nor on two plain uses: it takes three uses, or a correction towards
\* the application and one more (behaviour.rs:40-86).
EvidenceIsEnough ==
    \A a \in resolve(recent_intent_usage(clock), clock) :
        \/ Count(events, a, {"Success"}) >= 3
        \/ /\ Count(events, a, {"CorrectionAccepted"}) >= 1
           /\ Count(events, a, {"Success", "CorrectionAccepted"}) >= 2

\* Once "not this, that" is recorded, the acceptance is on record, whatever the
\* retention and the limit cut, and "open that" does not mean this any more,
\* unless this had more than five uses on record or had once been accepted
\* itself; all this unless the clock has been set back behind the history
\* (interaction_service.rs:263-299).  At six uses, 3.5 are left after the
\* rejection, which is 688 permille: enough where that application was rejected
\* itself before.
CorrectionTakesEffect ==
    At("correction") /\ (\A i \in DOMAIN events : events[i].time <= chat.at) =>
        /\ \E i \in DOMAIN events :
              events[i] = [app |-> chat.app, outcome |-> "CorrectionAccepted", time |-> chat.at]
        /\ chat.not # chat.app /\ Count(events, chat.not, {"Success"}) <= 5
              /\ Count(events, chat.not, {"CorrectionAccepted"}) = 0
              => chat.not \notin resolve(recent_intent_usage(chat.at), chat.at)

\* Every Success on record has behind it either a direct request that the policy
\* allowed, for that very application and whatever came of its launch, which may
\* have failed, timed out or been a dry run (interaction_service.rs:343-362), or
\* a confirmed execution of it that succeeded, if only as a dry run (1576-1591).
\* A question, a denial, and a confirmation that was dropped, or whose execution
\* failed or timed out, leave no Success.
SuccessIsEarned ==
    \A a \in Apps : Count(events, a, {"Success"}) <= earned[a]

\* Every answered message is counted once, as a resolution or a clarification;
\* only a message that failed after its count may be counted unanswered
\* (interaction_service.rs:208-259, 433-457).
UsageAddsUp ==
    LET counted == usage.local + usage.clarified
    IN  /\ tally.answered <= counted
        /\ counted <= tally.answered + tally.failed + IF At("answer") THEN 1 ELSE 0

\* Whichever write of a handler fails, the usage history has no Success without
\* an Allow or a successful confirmed execution behind it, and the counters miss
\* no message that was answered and count none twice.
BooksAreHonest == SuccessIsEarned /\ UsageAddsUp
=============================================================================
