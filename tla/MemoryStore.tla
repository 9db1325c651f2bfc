---------------------------- MODULE MemoryStore ----------------------------
(***************************************************************************)
(* Versioned preferences: the remember, forget, restore and state handlers  *)
(* of apps/daemon/src/interaction_service.rs over the memory tables of      *)
(* crates/storage (sqlite.rs persist_memory_revision, interaction.rs).      *)
(*                                                                          *)
(* A handler reads the tables, builds a revision, and hands it to           *)
(* persist_memory_revision, which validates it against the tables in one    *)
(* transaction.  Inside a daemon the service mutex keeps handlers apart; a  *)
(* second daemon on the same database is kept apart by the transaction      *)
(* alone.                                                                   *)
(***************************************************************************)
EXTENDS Naturals, Sequences, FiniteSets

CONSTANTS
    Daemons,          \* daemon processes on the database
    Names,            \* names a user gives preferences, as typed
    Lower,            \* to_lowercase on those names
    Values,           \* values of preferences
    MayEnable,        \* whether the user enables disabled items again
    StorageMayFail,   \* whether SQLite may refuse a transaction
    ClockMayStepBack, \* whether the wall clock may be set back
    MaxTime,          \* bound on the clock
    MaxItems,         \* bound on memory items
    MaxRevisions      \* bound on revisions

ASSUME MemoryAssumption ==
    /\ Lower \in [Names -> Names]
    /\ {MayEnable, StorageMayFail, ClockMayStepBack} \subseteq BOOLEAN
    /\ {MaxTime, MaxItems, MaxRevisions} \subseteq Nat

VARIABLES
    now,      \* now_ms()
    items,    \* memory_items, the id of a row is its index
    revs,     \* memory_revisions, likewise; the index is also the rowid
    staged,   \* per daemon: the revision its handler has built, if any
    said      \* the last reply: what was asked, for which name, what was answered

vars == <<now, items, revs, staged, said>>

-----------------------------------------------------------------------------
ItemRow == [head : Nat, created_at : Nat, updated_at : Nat, disabled : BOOLEAN]
RevisionRow == [memory : Nat, previous : SUBSET Nat, key : Names, value : Values,
                created_at : Nat]

\* A change as persist_memory_revision gets it; memory = 0 is an item whose
\* generated id is new.
Change == [op : {"remember", "restore"}, name : SUBSET Names, memory : Nat,
           previous : SUBSET Nat, key : Names, value : Values, at : Nat, created_at : Nat]

Reply(op, name, answer) == [op |-> op, name |-> name, answer |-> answer]

KeyOf(i) == revs[items[i].head].key
Revisions(i) == {r \in DOMAIN revs : revs[r].memory = i}

\* preference_by_key: the active items whose head has the key; LIMIT 1 without
\* an order returns any of them.
Active(key) == {i \in DOMAIN items : ~items[i].disabled /\ KeyOf(i) = key}

\* parse_remember keeps the name as typed; parse_forget and parse_open_app
\* lowercase the message first.
RememberKey(name) == name
ForgetKey(name) == Lower[name]

-----------------------------------------------------------------------------
(* Handlers that build a revision.                                          *)

\* commit_preference.
Remember(d, name, value) ==
    /\ staged[d] = {}
    /\ LET key == RememberKey(name)
           change(i, previous, created) ==
               [op |-> "remember", name |-> {name}, memory |-> i, previous |-> previous,
                key |-> key, value |-> value, at |-> now, created_at |-> created]
       IN \/ \E i \in Active(key) :
                staged' = [staged EXCEPT ![d] = {change(i, {items[i].head}, items[i].created_at)}]
          \/ /\ Active(key) = {}
             /\ staged' = [staged EXCEPT ![d] = {change(0, {}, now)}]
    /\ UNCHANGED <<now, items, revs, said>>

\* restore_memory_revision: the source must belong to the item.
RestoreMemoryRevision_OfAnyItem(d, i, r) ==
    /\ staged[d] = {}
    /\ i \in DOMAIN items
    /\ r \in DOMAIN revs
    /\ staged' = [staged EXCEPT ![d] =
                    {[op |-> "restore", name |-> {}, memory |-> i, previous |-> {items[i].head},
                      key |-> revs[r].key, value |-> revs[r].value, at |-> now,
                      created_at |-> items[i].created_at]}]
    /\ UNCHANGED <<now, items, revs, said>>

RestoreMemoryRevision_AtItsOldTime(d, i, r) ==
    /\ staged[d] = {}
    /\ i \in DOMAIN items
    /\ r \in Revisions(i)
    /\ staged' = [staged EXCEPT ![d] =
                    {[op |-> "restore", name |-> {}, memory |-> i, previous |-> {items[i].head},
                      key |-> revs[r].key, value |-> revs[r].value, at |-> revs[r].created_at,
                      created_at |-> items[i].created_at]}]
    /\ UNCHANGED <<now, items, revs, said>>

RestoreMemoryRevision(d, i, r) ==
    /\ staged[d] = {}
    /\ i \in DOMAIN items
    /\ r \in Revisions(i)
    /\ staged' = [staged EXCEPT ![d] =
                    {[op |-> "restore", name |-> {}, memory |-> i, previous |-> {items[i].head},
                      key |-> revs[r].key, value |-> revs[r].value, at |-> now,
                      created_at |-> items[i].created_at]}]
    /\ UNCHANGED <<now, items, revs, said>>

-----------------------------------------------------------------------------
(* persist_memory_revision.                                                 *)

\* The checks inside the transaction that a daemon's changes can fail.
Acceptable_WithoutHeadGuard(c) ==
    /\ c.at >= c.created_at
    /\ c.memory = 0 => c.previous = {}
    /\ c.memory # 0 => c.created_at = items[c.memory].created_at

Acceptable(c) ==
    /\ c.at >= c.created_at
    /\ c.memory = 0 => c.previous = {}
    /\ c.memory # 0 => /\ c.created_at = items[c.memory].created_at
                       /\ c.previous = {items[c.memory].head}

\* The inserts and the head update, committed together.
Commit(c) ==
    LET id  == IF c.memory = 0 THEN Len(items) + 1 ELSE c.memory
        rev == Len(revs) + 1
        row == [head |-> rev, created_at |-> c.created_at, updated_at |-> c.at,
                disabled |-> FALSE]
    IN /\ revs' = Append(revs, [memory |-> id, previous |-> c.previous, key |-> c.key,
                                value |-> c.value, created_at |-> c.at])
       /\ items' = IF c.memory = 0 THEN Append(items, row)
                   ELSE [items EXCEPT ![id].head = rev, ![id].updated_at = c.at]

PersistMemoryRevision(d) ==
    \E c \in staged[d] :
        /\ Len(revs) < MaxRevisions
        /\ c.memory = 0 => Len(items) < MaxItems
        /\ staged' = [staged EXCEPT ![d] = {}]
        /\ \/ /\ Acceptable(c)
              /\ Commit(c)
              /\ said' = Reply(c.op, c.name, "done")
           \/ /\ ~Acceptable(c)
              /\ said' = Reply(c.op, c.name, "refused")
              /\ UNCHANGED <<items, revs>>
           \/ /\ StorageMayFail
              /\ said' = Reply(c.op, c.name, "failed")
              /\ UNCHANGED <<items, revs>>
        /\ UNCHANGED now

-----------------------------------------------------------------------------
(* Handlers that change an item's state.                                    *)

\* ForgetPreference: one active item is disabled; the reply is "Forgot the
\* preference" or "I couldn't find an active preference".
ForgetPreference(d, name) ==
    /\ staged[d] = {}
    /\ LET found == Active(ForgetKey(name)) IN
       \/ \E i \in found :
            /\ items' = [items EXCEPT ![i].disabled = TRUE]
            /\ said' = Reply("forget", {name}, "forgot")
       \/ /\ found = {}
          /\ said' = Reply("forget", {name}, "not_found")
          /\ UNCHANGED items
       \/ /\ StorageMayFail
          /\ said' = Reply("forget", {name}, "failed")
          /\ UNCHANGED items
    /\ UNCHANGED <<now, revs, staged>>

\* update_memory_state: pinned and priority are not modelled.
UpdateMemoryState(d, i, disabled) ==
    /\ staged[d] = {}
    /\ i \in DOMAIN items
    /\ disabled \/ MayEnable
    /\ \/ /\ items' = [items EXCEPT ![i].disabled = disabled]
          /\ said' = Reply("state", {}, "done")
       \/ /\ StorageMayFail
          /\ said' = Reply("state", {}, "failed")
          /\ UNCHANGED items
    /\ UNCHANGED <<now, revs, staged>>

\* A daemon dies with a revision built and not persisted.
Crash(d) ==
    /\ staged[d] # {}
    /\ staged' = [staged EXCEPT ![d] = {}]
    /\ UNCHANGED <<now, items, revs, said>>

Tick(t) ==
    /\ t # now /\ (t < now => ClockMayStepBack)
    /\ now' = t
    /\ UNCHANGED <<items, revs, staged, said>>

-----------------------------------------------------------------------------
Init ==
    /\ now = 0
    /\ items = <<>>
    /\ revs = <<>>
    /\ staged = [d \in Daemons |-> {}]
    /\ said = Reply("none", {}, "none")

Next ==
    \/ \E d \in Daemons :
          \/ \E name \in Names, value \in Values : Remember(d, name, value)
          \/ \E i \in DOMAIN items, r \in DOMAIN revs : RestoreMemoryRevision(d, i, r)
          \/ PersistMemoryRevision(d)
          \/ \E name \in Names : ForgetPreference(d, name)
          \/ \E i \in DOMAIN items, disabled \in BOOLEAN : UpdateMemoryState(d, i, disabled)
          \/ Crash(d)
    \/ \E t \in 0..MaxTime : Tick(t)

Spec == Init /\ [][Next]_vars

-----------------------------------------------------------------------------
(* Properties.                                                              *)

\* Rows point at rows: every head and every revision's item exists, and a head
\* is a revision of its own item.
TypeOK ==
    /\ now \in Nat
    /\ items \in Seq(ItemRow)
    /\ revs \in Seq(RevisionRow)
    /\ staged \in [Daemons -> SUBSET Change]
    /\ \A i \in DOMAIN items : items[i].head \in Revisions(i)
    /\ \A r \in DOMAIN revs : revs[r].memory \in DOMAIN items

\* An item's history is one line: its first revision is its only one without a
\* predecessor, every other follows an earlier one of the same item, no two
\* follow the same one, and the head is the last (the guarded head update of
\* persist_memory_revision, against writers that read an older head).
HistoryIsLinear ==
    /\ \A r \in DOMAIN revs : \A p \in revs[r].previous :
          p < r /\ p \in DOMAIN revs /\ revs[p].memory = revs[r].memory
    /\ \A r, s \in DOMAIN revs :
          revs[r].memory = revs[s].memory /\ revs[r].previous = revs[s].previous => r = s
    /\ \A i \in DOMAIN items : \A r \in Revisions(i) : r <= items[i].head

\* An item keeps its key: no update or restoration writes one preference's key
\* over another's (memory_revision looks the source up under the item's id).
KeyNeverChanges ==
    \A r, s \in DOMAIN revs : revs[r].memory = revs[s].memory => revs[r].key = revs[s].key

\* memory_history shows the current revision first: nothing of the item sorts
\* before its head by created_at_ms and rowid.  For a clock that does not step
\* back.
HeadSortsFirst ==
    \A i \in DOMAIN items : \A r \in Revisions(i) :
        revs[r].created_at <= revs[items[i].head].created_at
=============================================================================
