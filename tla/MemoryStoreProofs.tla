------------------------- MODULE MemoryStoreProofs -------------------------
(***************************************************************************)
(* Proofs about MemoryStore, for any number of daemons, items and revisions. *)
(***************************************************************************)
EXTENDS MemoryStore, SequenceTheorems, TLAPS

\* What a handler has built and not yet persisted: a new item has no history,
\* a change of an item carries the item's key.
StagedMatches ==
    \A d \in Daemons : \A c \in staged[d] :
        c.memory # 0 => /\ c.memory \in DOMAIN items
                        /\ \A r \in Revisions(c.memory) : revs[r].key = c.key

\* HistoryIsLinear and KeyNeverChanges are about persisted rows only; what keeps
\* them is what the staged changes were read from.
MemoryInv ==
    /\ TypeOK
    /\ HistoryIsLinear
    /\ KeyNeverChanges
    /\ StagedMatches

\* What TypeOK says of single rows.
LEMMA RowTypes ==
    ASSUME TypeOK
    PROVE  /\ \A i \in DOMAIN items : i \in Nat /\ i # 0 /\ items[i] \in ItemRow
           /\ \A r \in DOMAIN revs : revs[r] \in RevisionRow /\ revs[r].created_at \in Nat
           /\ \A d \in Daemons : \A c \in staged[d] : c \in Change /\ c.at \in Nat
<1>1. \A i \in DOMAIN items : i \in Nat /\ i # 0 /\ items[i] \in ItemRow
  BY DEF TypeOK
<1>2. \A r \in DOMAIN revs : revs[r] \in RevisionRow
  BY DEF TypeOK
<1>3. \A x \in RevisionRow : x.created_at \in Nat
  BY DEF RevisionRow
<1>4. \A d \in Daemons : \A c \in staged[d] : c \in Change
  BY DEF TypeOK
<1>5. \A x \in Change : x.at \in Nat
  BY DEF Change
<1> QED BY <1>1, <1>2, <1>3, <1>4, <1>5

\* Disabling or enabling moves no head.
LEMMA DisableKeepsHeads ==
    ASSUME TypeOK, NEW i \in DOMAIN items, NEW b \in BOOLEAN,
           items' = [items EXCEPT ![i].disabled = b]
    PROVE  /\ items' \in Seq(ItemRow) /\ DOMAIN items' = DOMAIN items
           /\ \A j \in DOMAIN items : items'[j].head = items[j].head
<1> DEFINE row == [items[i] EXCEPT !.disabled = b]
<1>1. items \in Seq(ItemRow) /\ i \in 1..Len(items) /\ items[i] \in ItemRow
  BY DEF TypeOK
<1>2. row \in ItemRow /\ row.head = items[i].head
  <2>1. \A old \in ItemRow : [old EXCEPT !.disabled = b] \in ItemRow
                             /\ [old EXCEPT !.disabled = b].head = old.head
    BY DEF ItemRow
  <2> QED BY <1>1, <2>1
<1>3. items' = [items EXCEPT ![i] = row]
  BY <1>1
<1> HIDE DEF row
<1> QED BY <1>1, <1>2, <1>3, ExceptSeq

\* The head update of a stored row.
LEMMA MoveHead ==
    ASSUME NEW row \in ItemRow, NEW h \in Nat, NEW t \in Nat
    PROVE  /\ [row EXCEPT !.head = h, !.updated_at = t] \in ItemRow
           /\ [row EXCEPT !.head = h, !.updated_at = t].head = h
<1> DEFINE row1 == [row EXCEPT !.head = h]
<1>1. row1 \in ItemRow /\ row1.head = h
  BY DEF ItemRow
<1> HIDE DEF row1
<1>2. [row1 EXCEPT !.updated_at = t] \in ItemRow /\ [row1 EXCEPT !.updated_at = t].head = h
  BY <1>1 DEF ItemRow
<1> QED BY <1>2, Zenon DEF row1

\* What the two appends of Commit do to the tables, for a new item and for an
\* old one (persist_memory_revision).
LEMMA CommitEffect ==
    ASSUME TypeOK, NEW c \in Change, Commit(c),
           c.memory # 0 => c.memory \in DOMAIN items
    PROVE  /\ items' \in Seq(ItemRow) /\ revs' \in Seq(RevisionRow)
           /\ DOMAIN revs' = DOMAIN revs \cup {Len(revs) + 1}
           /\ \A r \in DOMAIN revs : revs'[r] = revs[r]
           /\ \E id \in DOMAIN items' :
                 /\ id = IF c.memory = 0 THEN Len(items) + 1 ELSE c.memory
                 /\ DOMAIN items' = DOMAIN items \cup {id}
                 /\ revs'[Len(revs) + 1] =
                       [memory |-> id, previous |-> c.previous, key |-> c.key,
                        value |-> c.value, created_at |-> c.at]
                 /\ items'[id].head = Len(revs) + 1
                 /\ \A i \in DOMAIN items \ {id} : items'[i] = items[i]
<1> DEFINE id == IF c.memory = 0 THEN Len(items) + 1 ELSE c.memory
           rev == [memory |-> id, previous |-> c.previous, key |-> c.key,
                   value |-> c.value, created_at |-> c.at]
           row == [head |-> Len(revs) + 1, created_at |-> c.created_at, updated_at |-> c.at,
                   disabled |-> FALSE]
<1>1. items \in Seq(ItemRow) /\ revs \in Seq(RevisionRow) /\ Len(items) \in Nat /\ Len(revs) \in Nat
      /\ DOMAIN items = 1..Len(items) /\ DOMAIN revs = 1..Len(revs)
  BY DEF TypeOK
<1>2. id \in Nat /\ rev \in RevisionRow /\ row \in ItemRow
  BY <1>1 DEF Change, RevisionRow, ItemRow
<1>3. revs' = Append(revs, rev)
  BY DEF Commit
<1> HIDE DEF rev
<1>4. /\ revs' \in Seq(RevisionRow) /\ DOMAIN revs' = DOMAIN revs \cup {Len(revs) + 1}
      /\ \A r \in DOMAIN revs : revs'[r] = revs[r]
      /\ revs'[Len(revs) + 1] = rev
  BY <1>1, <1>2, <1>3
<1>5. CASE c.memory = 0
  <2>1. items' = Append(items, row)
    BY <1>5 DEF Commit
  <2>2. row.head = Len(revs) + 1
    OBVIOUS
  <2> HIDE DEF row
  <2>3. /\ items' \in Seq(ItemRow) /\ DOMAIN items' = DOMAIN items \cup {id}
        /\ \A i \in DOMAIN items \ {id} : items'[i] = items[i]
        /\ items'[id] = row
    BY <1>1, <1>2, <1>5, <2>1
  <2> HIDE DEF id
  <2> QED BY <1>4, <2>2, <2>3 DEF rev, id
<1>6. CASE c.memory # 0
  <2>1. items' = [items EXCEPT ![id].head = Len(revs) + 1, ![id].updated_at = c.at]
    BY <1>6, Zenon DEF Commit
  <2>2. id \in DOMAIN items
    BY <1>6
  <2> HIDE DEF id
  <2> DEFINE row2 == [items[id] EXCEPT !.head = Len(revs) + 1, !.updated_at = c.at]
  <2>3. items[id] \in ItemRow /\ Len(revs) + 1 \in Nat /\ c.at \in Nat
    BY <1>1, <2>2 DEF Change
  <2>4. row2 \in ItemRow /\ row2.head = Len(revs) + 1
    BY <2>3, MoveHead
  <2>5. items' = [items EXCEPT ![id] = row2]
    BY <1>1, <2>1, <2>2
  <2> HIDE DEF row2
  <2>6. /\ items' \in Seq(ItemRow) /\ DOMAIN items' = DOMAIN items
        /\ items'[id].head = Len(revs) + 1
        /\ \A i \in DOMAIN items \ {id} : items'[i] = items[i]
    BY <1>1, <2>2, <2>4, <2>5, ExceptSeq
  <2>7. DOMAIN items' = DOMAIN items \cup {id} /\ id \in DOMAIN items'
    BY <2>2, <2>6
  <2> QED BY <1>4, <2>6, <2>7 DEF rev, id
<1> QED BY <1>5, <1>6

\* A revision that persist_memory_revision accepts extends the line of its item
\* and carries the item's key.
LEMMA CommitKeepsHistory ==
    ASSUME MemoryInv, NEW d \in Daemons, NEW c \in staged[d], Acceptable(c), Commit(c)
    PROVE  /\ \A i \in DOMAIN items' : items'[i].head \in Revisions(i)'
           /\ \A r \in DOMAIN revs' : revs'[r].memory \in DOMAIN items'
           /\ items' \in Seq(ItemRow) /\ revs' \in Seq(RevisionRow)
           /\ HistoryIsLinear'
           /\ KeyNeverChanges'
           /\ \A e \in Daemons : \A x \in staged[e] :
                 x.memory # 0 => /\ x.memory \in DOMAIN items'
                                 /\ \A r \in Revisions(x.memory)' : revs'[r].key = x.key
<1> USE DEF MemoryInv
<1>1. c \in Change /\ (c.memory # 0 => c.memory \in DOMAIN items)
  BY DEF TypeOK, StagedMatches
<1> DEFINE new == Len(revs) + 1
<1>2. PICK id \in DOMAIN items' :
         /\ id = IF c.memory = 0 THEN Len(items) + 1 ELSE c.memory
         /\ DOMAIN items' = DOMAIN items \cup {id}
         /\ revs'[new] = [memory |-> id, previous |-> c.previous, key |-> c.key,
                          value |-> c.value, created_at |-> c.at]
         /\ items'[id].head = new
         /\ \A i \in DOMAIN items \ {id} : items'[i] = items[i]
  BY <1>1, CommitEffect
<1>3. /\ items' \in Seq(ItemRow) /\ revs' \in Seq(RevisionRow)
      /\ DOMAIN revs' = DOMAIN revs \cup {new}
      /\ \A r \in DOMAIN revs : revs'[r] = revs[r]
  BY <1>1, CommitEffect
<1>4. /\ new \in Nat /\ DOMAIN revs = 1..Len(revs) /\ DOMAIN items = 1..Len(items)
      /\ Len(revs) \in Nat /\ Len(items) \in Nat
      /\ \A r \in DOMAIN revs : r \in Nat /\ r < new
  BY DEF TypeOK
<1>5. /\ revs'[new].memory = id /\ revs'[new].previous = c.previous /\ revs'[new].key = c.key
  BY <1>2
<1>6. id \in DOMAIN items =>
         /\ c.previous = {items[id].head}
         /\ \A r \in Revisions(id) : revs[r].key = c.key /\ r <= items[id].head
         /\ items[id].head \in Revisions(id)
  <2> SUFFICES ASSUME id \in DOMAIN items
               PROVE  /\ c.previous = {items[id].head}
                      /\ \A r \in Revisions(id) : revs[r].key = c.key /\ r <= items[id].head
                      /\ items[id].head \in Revisions(id)
    OBVIOUS
  <2>1. c.memory # 0 /\ id = c.memory
    BY <1>2, <1>4
  <2> QED BY <2>1 DEF Acceptable, StagedMatches, HistoryIsLinear, TypeOK
<1>7. id \notin DOMAIN items => c.previous = {}
  BY <1>1, <1>2 DEF Acceptable
<1>8. \A r \in DOMAIN revs : revs[r].memory \in DOMAIN items
  BY DEF TypeOK
<1>9. \A p \in c.previous : p \in DOMAIN revs /\ revs[p].memory = id
  BY <1>6, <1>7 DEF Revisions
<1>10. \A r \in DOMAIN revs' : (revs'[r].memory = id /\ r # new) => r \in Revisions(id) /\ id \in DOMAIN items
  BY <1>3, <1>8 DEF Revisions
<1>11. \A i \in DOMAIN items' : items'[i].head \in Revisions(i)'
  <2> SUFFICES ASSUME NEW i \in DOMAIN items'
               PROVE  items'[i].head \in DOMAIN revs' /\ revs'[items'[i].head].memory = i
    BY DEF Revisions
  <2>1. CASE i = id
    BY <2>1, <1>2, <1>3, <1>5
  <2>2. CASE i # id
    BY <2>2, <1>2, <1>3 DEF TypeOK, Revisions
  <2> QED BY <2>1, <2>2
<1>12. \A r \in DOMAIN revs' : revs'[r].memory \in DOMAIN items'
  BY <1>2, <1>3, <1>5, <1>8
<1>13. HistoryIsLinear'
  <2>1. ASSUME NEW r \in DOMAIN revs', NEW p \in revs'[r].previous
        PROVE  p < r /\ p \in DOMAIN revs' /\ revs'[p].memory = revs'[r].memory
    <3>1. CASE r = new
      BY <3>1, <1>3, <1>4, <1>5, <1>9
    <3>2. CASE r # new
      BY <3>2, <1>3 DEF HistoryIsLinear
    <3> QED BY <3>1, <3>2
  <2>2. ASSUME NEW r \in DOMAIN revs, revs[r].memory = id PROVE revs[r].previous # c.previous
    <3>1. r \in Revisions(id) /\ id \in DOMAIN items
      BY <2>2, <1>8 DEF Revisions
    <3>2. c.previous = {items[id].head} /\ r <= items[id].head /\ items[id].head \in Nat /\ r \in Nat
      BY <3>1, <1>4, <1>6 DEF Revisions
    <3>3. \A p \in revs[r].previous : p < r
      BY DEF HistoryIsLinear
    <3> QED BY <3>2, <3>3
  <2>3. ASSUME NEW r \in DOMAIN revs', NEW t \in DOMAIN revs',
               revs'[r].memory = revs'[t].memory, revs'[r].previous = revs'[t].previous
        PROVE  r = t
    <3>1. CASE r = new /\ t # new
      BY <2>2, <2>3, <3>1, <1>3, <1>5
    <3>2. CASE r # new /\ t = new
      BY <2>2, <2>3, <3>2, <1>3, <1>5
    <3>3. CASE r # new /\ t # new
      BY <2>3, <3>3, <1>3 DEF HistoryIsLinear
    <3> QED BY <3>1, <3>2, <3>3
  <2>4. ASSUME NEW i \in DOMAIN items', NEW r \in DOMAIN revs', revs'[r].memory = i
        PROVE  r <= items'[i].head
    <3>1. CASE i = id
      BY <3>1, <1>2, <1>3, <1>4
    <3>2. CASE i # id
      <4>1. r \in Revisions(i) /\ i \in DOMAIN items
        BY <2>4, <3>2, <1>2, <1>3, <1>5 DEF Revisions
      <4> QED BY <3>2, <4>1, <1>2 DEF HistoryIsLinear
    <3> QED BY <3>1, <3>2
  <2> QED BY <2>1, <2>3, <2>4 DEF HistoryIsLinear, Revisions
<1>14. KeyNeverChanges'
  <2> SUFFICES ASSUME NEW r \in DOMAIN revs', NEW t \in DOMAIN revs',
                      revs'[r].memory = revs'[t].memory
               PROVE  revs'[r].key = revs'[t].key
    BY DEF KeyNeverChanges
  <2>1. CASE r = new /\ t # new
    BY <2>1, <1>3, <1>5, <1>6, <1>10
  <2>2. CASE r # new /\ t = new
    BY <2>2, <1>3, <1>5, <1>6, <1>10
  <2>3. CASE r # new /\ t # new
    BY <2>3, <1>3 DEF KeyNeverChanges
  <2> QED BY <2>1, <2>2, <2>3
<1>15. ASSUME NEW e \in Daemons, NEW x \in staged[e], x.memory # 0
       PROVE  /\ x.memory \in DOMAIN items'
              /\ \A r \in Revisions(x.memory)' : revs'[r].key = x.key
  <2>1. x.memory \in DOMAIN items /\ \A r \in Revisions(x.memory) : revs[r].key = x.key
    BY <1>15 DEF StagedMatches
  <2>2. ASSUME NEW r \in DOMAIN revs', revs'[r].memory = x.memory PROVE revs'[r].key = x.key
    <3>1. CASE r = new
      BY <2>1, <2>2, <3>1, <1>5, <1>6
    <3>2. CASE r # new
      BY <2>1, <2>2, <3>2, <1>3 DEF Revisions
    <3> QED BY <3>1, <3>2
  <2> QED BY <2>1, <2>2, <1>2 DEF Revisions
<1> QED BY <1>3, <1>11, <1>12, <1>13, <1>14, <1>15

\* Changing an item's disabled flag leaves its history alone.
LEMMA DisableKeepsHistory ==
    ASSUME MemoryInv, NEW i \in DOMAIN items, NEW b \in BOOLEAN,
           items' = [items EXCEPT ![i].disabled = b], UNCHANGED <<now, revs, staged>>
    PROVE  MemoryInv'
<1> USE DEF MemoryInv
<1>1. /\ items' \in Seq(ItemRow) /\ DOMAIN items' = DOMAIN items
      /\ \A j \in DOMAIN items : items'[j].head = items[j].head
  BY DisableKeepsHeads
<1>2. TypeOK'
  BY <1>1 DEF TypeOK, Revisions
<1>3. HistoryIsLinear' /\ KeyNeverChanges'
  BY <1>1 DEF HistoryIsLinear, KeyNeverChanges, Revisions
<1>4. StagedMatches'
  BY <1>1 DEF StagedMatches, Revisions
<1> QED BY <1>2, <1>3, <1>4

\* Staging a change that carries its item's key.
LEMMA StageKeepsHistory ==
    ASSUME MemoryInv, NEW d \in Daemons, NEW c \in Change,
           c.memory # 0 => /\ c.memory \in DOMAIN items
                           /\ \A r \in Revisions(c.memory) : revs[r].key = c.key,
           staged' = [staged EXCEPT ![d] = {c}], UNCHANGED <<now, items, revs, said>>
    PROVE  MemoryInv'
<1> USE DEF MemoryInv
<1>1. staged' \in [Daemons -> SUBSET Change]
      /\ \A e \in Daemons : staged'[e] = IF e = d THEN {c} ELSE staged[e]
  BY DEF TypeOK
<1>2. TypeOK'
  BY <1>1 DEF TypeOK, Revisions
<1>3. HistoryIsLinear' /\ KeyNeverChanges'
  BY DEF HistoryIsLinear, KeyNeverChanges, Revisions
<1>4. StagedMatches'
  BY <1>1 DEF StagedMatches, Revisions
<1> QED BY <1>2, <1>3, <1>4

\* Every handler, whatever another daemon did between its read and its
\* transaction, keeps the histories (persist_memory_revision).
THEOREM MemoryInvariant == Spec => []MemoryInv
<1> USE MemoryAssumption
<1>1. Init => MemoryInv
  BY DEF Init, MemoryInv, TypeOK, HistoryIsLinear, KeyNeverChanges, StagedMatches, Revisions
<1>2. MemoryInv /\ [Next]_vars => MemoryInv'
  <2> SUFFICES ASSUME MemoryInv, [Next]_vars PROVE MemoryInv'
    OBVIOUS
  <2>0. TypeOK /\ now \in Nat
    BY DEF MemoryInv, TypeOK
  <2>1. ASSUME NEW d \in Daemons, NEW name \in Names, NEW value \in Values,
               Remember(d, name, value)
        PROVE  MemoryInv'
    <3> DEFINE change(i, previous, created) ==
                 [op |-> "remember", name |-> {name}, memory |-> i, previous |-> previous,
                  key |-> name, value |-> value, at |-> now, created_at |-> created]
    <3>1. CASE \E i \in Active(name) :
                 staged' = [staged EXCEPT ![d] = {change(i, {items[i].head}, items[i].created_at)}]
      <4>1. PICK i \in Active(name) :
                 staged' = [staged EXCEPT ![d] = {change(i, {items[i].head}, items[i].created_at)}]
        BY <3>1
      <4>2. /\ i \in DOMAIN items /\ i \in Nat /\ items[i] \in ItemRow
            /\ items[i].head \in Revisions(i) /\ revs[items[i].head].key = name
        BY <2>0 DEF Active, KeyOf, TypeOK
      <4>3. change(i, {items[i].head}, items[i].created_at) \in Change
        BY <2>0, <4>2 DEF Change, ItemRow
      <4>4. \A r \in Revisions(i) : revs[r].key = name
        BY <4>2 DEF MemoryInv, KeyNeverChanges, Revisions
      <4>5. UNCHANGED <<now, items, revs, said>>
        BY <2>1 DEF Remember
      <4> QED BY <4>1, <4>2, <4>3, <4>4, <4>5, StageKeepsHistory
    <3>2. CASE staged' = [staged EXCEPT ![d] = {change(0, {}, now)}]
      <4>1. change(0, {}, now) \in Change /\ change(0, {}, now).memory = 0
        BY <2>0 DEF Change
      <4>2. UNCHANGED <<now, items, revs, said>>
        BY <2>1 DEF Remember
      <4> QED BY <3>2, <4>1, <4>2, StageKeepsHistory
    <3> QED BY <2>1, <3>1, <3>2 DEF Remember, RememberKey
  <2>2. ASSUME NEW d \in Daemons, NEW i \in DOMAIN items, NEW r \in DOMAIN revs,
               RestoreMemoryRevision(d, i, r)
        PROVE  MemoryInv'
    <3> DEFINE c == [op |-> "restore", name |-> {}, memory |-> i, previous |-> {items[i].head},
                     key |-> revs[r].key, value |-> revs[r].value, at |-> now,
                     created_at |-> items[i].created_at]
    <3>1. r \in Revisions(i) /\ staged' = [staged EXCEPT ![d] = {c}]
          /\ UNCHANGED <<now, items, revs, said>>
      BY <2>2 DEF RestoreMemoryRevision
    <3>2. i \in Nat /\ items[i] \in ItemRow /\ revs[r] \in RevisionRow
      BY <2>0 DEF TypeOK
    <3>3. c \in Change
      BY <2>0, <3>2 DEF Change, ItemRow, RevisionRow
    <3>4. \A q \in Revisions(i) : revs[q].key = revs[r].key
      BY <3>1 DEF MemoryInv, KeyNeverChanges, Revisions
    <3> QED BY <3>1, <3>3, <3>4, StageKeepsHistory
  <2>3. ASSUME NEW d \in Daemons, PersistMemoryRevision(d) PROVE MemoryInv'
    <3>1. PICK c \in staged[d] :
             /\ UNCHANGED now /\ staged' = [staged EXCEPT ![d] = {}]
             /\ (Acceptable(c) /\ Commit(c)) \/ UNCHANGED <<items, revs>>
      BY <2>3 DEF PersistMemoryRevision
    <3>2. staged' \in [Daemons -> SUBSET Change] /\ \A e \in Daemons : staged'[e] \subseteq staged[e]
      BY <2>0, <3>1 DEF TypeOK
    <3>3. CASE Acceptable(c) /\ Commit(c)
      <4> QED
        BY <2>0, <3>1, <3>2, <3>3, CommitKeepsHistory DEF MemoryInv, TypeOK, StagedMatches
    <3>4. CASE UNCHANGED <<items, revs>>
      BY <2>0, <3>1, <3>2, <3>4
         DEF MemoryInv, TypeOK, StagedMatches, HistoryIsLinear, KeyNeverChanges, Revisions
    <3> QED BY <3>1, <3>3, <3>4
  <2>4. ASSUME NEW d \in Daemons, NEW name \in Names, ForgetPreference(d, name) PROVE MemoryInv'
    <3>1. CASE \E i \in DOMAIN items : items' = [items EXCEPT ![i].disabled = TRUE]
      BY <2>4, <3>1, DisableKeepsHistory DEF ForgetPreference
    <3>2. CASE UNCHANGED items
      BY <2>0, <2>4, <3>2
         DEF ForgetPreference, MemoryInv, TypeOK, StagedMatches, HistoryIsLinear, KeyNeverChanges,
             Revisions
    <3> QED BY <2>4, <3>1, <3>2 DEF ForgetPreference, Active
  <2>5. ASSUME NEW d \in Daemons, NEW i \in DOMAIN items, NEW disabled \in BOOLEAN,
               UpdateMemoryState(d, i, disabled)
        PROVE  MemoryInv'
    <3>1. CASE items' = [items EXCEPT ![i].disabled = disabled]
      BY <2>5, <3>1, DisableKeepsHistory DEF UpdateMemoryState
    <3>2. CASE UNCHANGED items
      BY <2>0, <2>5, <3>2
         DEF UpdateMemoryState, MemoryInv, TypeOK, StagedMatches, HistoryIsLinear,
             KeyNeverChanges, Revisions
    <3> QED BY <2>5, <3>1, <3>2 DEF UpdateMemoryState
  <2>6. ASSUME NEW d \in Daemons, Crash(d) PROVE MemoryInv'
    <3>1. staged' \in [Daemons -> SUBSET Change] /\ \A e \in Daemons : staged'[e] \subseteq staged[e]
      BY <2>0, <2>6 DEF TypeOK, Crash
    <3> QED BY <2>0, <2>6, <3>1
         DEF Crash, MemoryInv, TypeOK, StagedMatches, HistoryIsLinear, KeyNeverChanges, Revisions
  <2>7. ASSUME NEW t \in 0..MaxTime, Tick(t) PROVE MemoryInv'
    <3>1. now' \in Nat
      BY <2>7 DEF Tick
    <3> QED BY <2>0, <2>7, <3>1
         DEF Tick, MemoryInv, TypeOK, StagedMatches, HistoryIsLinear, KeyNeverChanges, Revisions
  <2>8. CASE UNCHANGED vars
    BY <2>0, <2>8
       DEF vars, MemoryInv, TypeOK, StagedMatches, HistoryIsLinear, KeyNeverChanges, Revisions
  <2> QED BY <2>1, <2>2, <2>3, <2>4, <2>5, <2>6, <2>7, <2>8 DEF Next
<1> QED
  BY <1>1, <1>2, PTL DEF Spec

\* The rows stay well-formed and every pointer between them stays valid.
THEOREM TypeCorrect == Spec => []TypeOK
<1>1. MemoryInv => TypeOK
  BY DEF MemoryInv
<1> QED BY <1>1, MemoryInvariant, PTL

\* However many daemons write, an item's history is one line that ends in its
\* head (the head guard of persist_memory_revision).
THEOREM HistoriesAreLinear == Spec => []HistoryIsLinear
<1>1. MemoryInv => HistoryIsLinear
  BY DEF MemoryInv
<1> QED BY <1>1, MemoryInvariant, PTL

\* No update or restoration gives an item another key (commit_preference,
\* restore_memory_revision).
THEOREM KeysNeverChange == Spec => []KeyNeverChanges
<1>1. MemoryInv => KeyNeverChanges
  BY DEF MemoryInv
<1> QED BY <1>1, MemoryInvariant, PTL

\* What orders revisions in time: no row and no staged change is of the future,
\* and a staged change that could still be accepted is not older than the head
\* it follows.
TimeInv ==
    /\ HeadSortsFirst
    /\ \A r \in DOMAIN revs : revs[r].created_at <= now
    /\ \A d \in Daemons : \A c \in staged[d] :
          /\ c.at <= now
          /\ c.previous \subseteq DOMAIN revs
          /\ c.memory # 0 /\ c.previous = {items[c.memory].head} =>
                revs[items[c.memory].head].created_at <= c.at

\* An accepted revision is the newest of its item.
LEMMA CommitKeepsTime ==
    ASSUME MemoryInv, TimeInv, NEW d \in Daemons, NEW c \in staged[d], Acceptable(c), Commit(c),
           UNCHANGED now, staged' = [staged EXCEPT ![d] = {}]
    PROVE  TimeInv'
<1> USE DEF MemoryInv
<1>1. c \in Change /\ (c.memory # 0 => c.memory \in DOMAIN items)
  BY DEF TypeOK, StagedMatches
<1> DEFINE new == Len(revs) + 1
<1>2. PICK id \in DOMAIN items' :
         /\ id = IF c.memory = 0 THEN Len(items) + 1 ELSE c.memory
         /\ DOMAIN items' = DOMAIN items \cup {id}
         /\ revs'[new] = [memory |-> id, previous |-> c.previous, key |-> c.key,
                          value |-> c.value, created_at |-> c.at]
         /\ items'[id].head = new
         /\ \A i \in DOMAIN items \ {id} : items'[i] = items[i]
  BY <1>1, CommitEffect
<1>3. /\ DOMAIN revs' = DOMAIN revs \cup {new} /\ new \notin DOMAIN revs
      /\ \A r \in DOMAIN revs : revs'[r] = revs[r]
  <2>1. new \notin DOMAIN revs
    BY DEF TypeOK
  <2> QED BY <1>1, <2>1, CommitEffect
<1>4. /\ DOMAIN items = 1..Len(items) /\ Len(items) \in Nat /\ now \in Nat /\ c.at \in Nat
      /\ c.at <= now
      /\ \A r \in DOMAIN revs : revs[r].created_at \in Nat
      /\ \A i \in DOMAIN items : items[i].head \in DOMAIN revs
      /\ \A r \in DOMAIN revs : revs[r].memory \in DOMAIN items
  <2>1. c.at \in Nat /\ c.at <= now
    BY <1>1 DEF Change, TimeInv
  <2>2. \A r \in DOMAIN revs : revs[r] \in RevisionRow /\ revs[r].created_at \in Nat
    BY RowTypes
  <2>3. \A i \in DOMAIN items : items[i].head \in DOMAIN revs
    BY DEF TypeOK, Revisions
  <2> QED BY <2>1, <2>2, <2>3 DEF TypeOK
<1>5. revs'[new].memory = id /\ revs'[new].created_at = c.at
  BY <1>2
<1>6. ASSUME NEW r \in DOMAIN revs, revs[r].memory = id PROVE revs[r].created_at <= c.at
  <2>1. id \in DOMAIN items /\ c.memory # 0 /\ id = c.memory
    BY <1>2, <1>4, <1>6
  <2>2. c.previous = {items[id].head}
    BY <2>1 DEF Acceptable
  <2>3. revs[items[id].head].created_at <= c.at
    BY <2>1, <2>2 DEF TimeInv
  <2>4. revs[r].created_at <= revs[items[id].head].created_at
    BY <1>6, <2>1 DEF TimeInv, HeadSortsFirst, Revisions
  <2> QED BY <2>1, <2>3, <2>4, <1>4
<1>7. HeadSortsFirst'
  <2> SUFFICES ASSUME NEW i \in DOMAIN items', NEW r \in DOMAIN revs', revs'[r].memory = i
               PROVE  revs'[r].created_at <= revs'[items'[i].head].created_at
    BY DEF HeadSortsFirst, Revisions
  <2>1. CASE i = id /\ r = new
    BY <2>1, <1>2, <1>4, <1>5
  <2>2. CASE i = id /\ r # new
    BY <2>2, <1>2, <1>3, <1>5, <1>6
  <2>3. CASE i # id
    <3>1. r \in Revisions(i) /\ i \in DOMAIN items
      BY <2>3, <1>2, <1>3, <1>5 DEF Revisions
    <3>2. revs[r].created_at <= revs[items[i].head].created_at
      BY <3>1 DEF TimeInv, HeadSortsFirst
    <3> QED BY <2>3, <3>1, <3>2, <1>2, <1>3, <1>4 DEF Revisions
  <2> QED BY <2>1, <2>2, <2>3
<1>8. \A r \in DOMAIN revs' : revs'[r].created_at <= now'
  BY <1>3, <1>4, <1>5 DEF TimeInv
<1>9. ASSUME NEW e \in Daemons, NEW x \in staged'[e]
      PROVE  /\ x.at <= now'
             /\ x.previous \subseteq DOMAIN revs'
             /\ x.memory # 0 /\ x.previous = {items'[x.memory].head} =>
                   revs'[items'[x.memory].head].created_at <= x.at
  <2>1. x \in staged[e] /\ (x.memory # 0 => x.memory \in DOMAIN items)
    BY <1>9 DEF TypeOK, StagedMatches
  <2>2. x.at <= now /\ x.previous \subseteq DOMAIN revs
    BY <2>1 DEF TimeInv
  <2>3. ASSUME x.memory # 0, x.previous = {items'[x.memory].head}
        PROVE  revs'[items'[x.memory].head].created_at <= x.at
    <3>1. x.memory # id
      BY <2>2, <2>3, <1>2, <1>3
    <3>2. items'[x.memory].head = items[x.memory].head /\ items[x.memory].head \in DOMAIN revs
      BY <2>1, <2>3, <3>1, <1>2, <1>4
    <3> QED BY <2>1, <2>3, <3>2, <1>3 DEF TimeInv
  <2> QED BY <2>2, <2>3, <1>3
<1> QED BY <1>7, <1>8, <1>9 DEF TimeInv

\* Staging a change at this moment, after the head it was read from.
LEMMA StageKeepsTime ==
    ASSUME MemoryInv, TimeInv, NEW d \in Daemons, NEW c \in Change, c.at = now,
           c.memory # 0 => c.memory \in DOMAIN items /\ c.previous = {items[c.memory].head},
           c.memory = 0 => c.previous = {},
           staged' = [staged EXCEPT ![d] = {c}], UNCHANGED <<now, items, revs, said>>
    PROVE  TimeInv'
<1> USE DEF MemoryInv
<1>1. HeadSortsFirst' /\ \A r \in DOMAIN revs' : revs'[r].created_at <= now'
  BY DEF TimeInv, HeadSortsFirst, Revisions
<1>2. /\ \A i \in DOMAIN items : items[i].head \in DOMAIN revs
      /\ now \in Nat
  BY DEF TypeOK, Revisions
<1>3. ASSUME NEW e \in Daemons, NEW x \in staged'[e]
      PROVE  /\ x.at <= now'
             /\ x.previous \subseteq DOMAIN revs'
             /\ x.memory # 0 /\ x.previous = {items'[x.memory].head} =>
                   revs'[items'[x.memory].head].created_at <= x.at
  <2>1. CASE x = c
    BY <1>2, <2>1 DEF TimeInv
  <2>2. CASE x \in staged[e]
    BY <2>2 DEF TimeInv
  <2> QED BY <1>3, <2>1, <2>2 DEF TypeOK
<1> QED BY <1>1, <1>3 DEF TimeInv

\* The head is listed first by memory_history, whichever daemon wrote it, as long
\* as the clock is not set back.
THEOREM HeadsSortFirst == ASSUME ~ClockMayStepBack PROVE Spec => []HeadSortsFirst
<1> USE MemoryAssumption
<1>1. Init => TimeInv
  BY DEF Init, TimeInv, HeadSortsFirst
<1>2. MemoryInv /\ TimeInv /\ [Next]_vars => TimeInv'
  <2> SUFFICES ASSUME MemoryInv, TimeInv, [Next]_vars PROVE TimeInv'
    OBVIOUS
  <2>0. TypeOK /\ now \in Nat /\ \A i \in DOMAIN items : items[i].head \in DOMAIN revs
    BY DEF MemoryInv, TypeOK, Revisions
  <2>1. ASSUME NEW d \in Daemons, NEW name \in Names, NEW value \in Values,
               Remember(d, name, value)
        PROVE  TimeInv'
    <3> DEFINE change(i, previous, created) ==
                 [op |-> "remember", name |-> {name}, memory |-> i, previous |-> previous,
                  key |-> name, value |-> value, at |-> now, created_at |-> created]
    <3>1. UNCHANGED <<now, items, revs, said>>
      BY <2>1 DEF Remember
    <3>2. CASE \E i \in Active(name) :
                 staged' = [staged EXCEPT ![d] = {change(i, {items[i].head}, items[i].created_at)}]
      <4>1. PICK i \in Active(name) :
                 staged' = [staged EXCEPT ![d] = {change(i, {items[i].head}, items[i].created_at)}]
        BY <3>2
      <4>2. i \in DOMAIN items /\ i \in Nat /\ i # 0 /\ items[i] \in ItemRow
        BY <2>0 DEF Active, TypeOK
      <4>3. change(i, {items[i].head}, items[i].created_at) \in Change
        BY <2>0, <4>2 DEF Change, ItemRow
      <4> QED BY <3>1, <4>1, <4>2, <4>3, StageKeepsTime
    <3>3. CASE staged' = [staged EXCEPT ![d] = {change(0, {}, now)}]
      <4>1. change(0, {}, now) \in Change
        BY <2>0 DEF Change
      <4> QED BY <3>1, <3>3, <4>1, StageKeepsTime
    <3> QED BY <2>1, <3>2, <3>3 DEF Remember, RememberKey
  <2>2. ASSUME NEW d \in Daemons, NEW i \in DOMAIN items, NEW r \in DOMAIN revs,
               RestoreMemoryRevision(d, i, r)
        PROVE  TimeInv'
    <3> DEFINE c == [op |-> "restore", name |-> {}, memory |-> i, previous |-> {items[i].head},
                     key |-> revs[r].key, value |-> revs[r].value, at |-> now,
                     created_at |-> items[i].created_at]
    <3>1. staged' = [staged EXCEPT ![d] = {c}] /\ UNCHANGED <<now, items, revs, said>>
      BY <2>2 DEF RestoreMemoryRevision
    <3>2. i \in Nat /\ i # 0 /\ items[i] \in ItemRow /\ revs[r] \in RevisionRow
      BY <2>0, RowTypes
    <3>3. c \in Change
      BY <2>0, <3>2 DEF Change, ItemRow, RevisionRow
    <3> QED BY <3>1, <3>2, <3>3, StageKeepsTime
  <2>3. ASSUME NEW d \in Daemons, PersistMemoryRevision(d) PROVE TimeInv'
    <3>1. PICK c \in staged[d] :
             /\ UNCHANGED now /\ staged' = [staged EXCEPT ![d] = {}]
             /\ (Acceptable(c) /\ Commit(c)) \/ UNCHANGED <<items, revs>>
      BY <2>3 DEF PersistMemoryRevision
    <3>2. CASE Acceptable(c) /\ Commit(c)
      BY <3>1, <3>2, CommitKeepsTime
    <3>3. CASE UNCHANGED <<items, revs>>
      <4>1. \A e \in Daemons : staged'[e] \subseteq staged[e]
        BY <2>0, <3>1 DEF TypeOK
      <4> QED BY <3>1, <3>3, <4>1 DEF TimeInv, HeadSortsFirst, Revisions
    <3> QED BY <3>1, <3>2, <3>3
  <2>4. ASSUME UNCHANGED <<now, revs, staged>>, DOMAIN items' = DOMAIN items,
               \A i \in DOMAIN items : items'[i].head = items[i].head
        PROVE  TimeInv'
    <3>1. \A d \in Daemons : \A c \in staged[d] : c.memory # 0 => c.memory \in DOMAIN items
      BY DEF MemoryInv, StagedMatches
    <3> QED BY <2>4, <3>1 DEF TimeInv, HeadSortsFirst, Revisions
  <2>5. ASSUME NEW d \in Daemons, NEW name \in Names, ForgetPreference(d, name) PROVE TimeInv'
    <3>1. UNCHANGED <<now, revs, staged>> /\ DOMAIN items' = DOMAIN items
          /\ \A i \in DOMAIN items : items'[i].head = items[i].head
      BY <2>0, <2>5, DisableKeepsHeads DEF ForgetPreference, Active
    <3> QED BY <2>4, <3>1
  <2>6. ASSUME NEW d \in Daemons, NEW i \in DOMAIN items, NEW disabled \in BOOLEAN,
               UpdateMemoryState(d, i, disabled)
        PROVE  TimeInv'
    <3>1. UNCHANGED <<now, revs, staged>> /\ DOMAIN items' = DOMAIN items
          /\ \A j \in DOMAIN items : items'[j].head = items[j].head
      BY <2>0, <2>6, DisableKeepsHeads DEF UpdateMemoryState
    <3> QED BY <2>4, <3>1
  <2>7. ASSUME NEW d \in Daemons, Crash(d) PROVE TimeInv'
    <3>1. \A e \in Daemons : staged'[e] \subseteq staged[e]
      BY <2>0, <2>7 DEF TypeOK, Crash
    <3> QED BY <2>7, <3>1 DEF Crash, TimeInv, HeadSortsFirst, Revisions
  <2>8. ASSUME NEW t \in 0..MaxTime, Tick(t) PROVE TimeInv'
    <3>1. now' \in Nat /\ now < now'
      BY <2>0, <2>8 DEF Tick
    <3>2. /\ \A r \in DOMAIN revs : revs[r].created_at \in Nat
          /\ \A d \in Daemons : \A c \in staged[d] : c.at \in Nat
      BY <2>0, RowTypes
    <3> QED BY <2>0, <2>8, <3>1, <3>2 DEF Tick, TimeInv, HeadSortsFirst, Revisions
  <2>9. CASE UNCHANGED vars
    BY <2>4, <2>9 DEF vars
  <2> QED BY <2>1, <2>2, <2>3, <2>5, <2>6, <2>7, <2>8, <2>9 DEF Next
<1>3. TimeInv => HeadSortsFirst
  BY DEF TimeInv
<1> QED
  BY <1>1, <1>2, <1>3, MemoryInvariant, PTL DEF Spec
=============================================================================
