-------------------------- MODULE ProvidersProofs --------------------------
(***************************************************************************)
(* Proofs about Providers and Router, for any providers, keys, models and   *)
(* settings: the two stores stay together and act as the one of Vault.      *)
(***************************************************************************)
EXTENDS Providers, SequenceTheorems, WellFoundedInduction, TLAPS

\* What a command under way has done so far.  StoresAgree alone is not
\* inductive: it needs that the captured key is the one to restore and that a
\* changed entry holds what the row to be written will say of it.
CommandInv ==
    op # None =>
        /\ sent = None
        /\ op.request.kind = "remove" <=> op.input = None
        /\ op.step = "mutate" => Touches(op.request) /\ op.before = keyring[op.request.provider]
        /\ (op.step = "write" /\ Touches(op.request)) =>
               keyring[op.request.provider] =
                   IF op.request.kind = "key" THEN op.request.key ELSE NoSecret
        /\ op.step = "restore" => Touches(op.request)

ProvidersInv ==
    /\ TypeOK
    /\ CommandInv
    /\ StoresAgree
    /\ ConnectedIsCurrent
    /\ PrivacyPolicyHolds

-----------------------------------------------------------------------------
(* Router.                                                                   *)

\* A route names an eligible model, selected by hand or not.
LEMMA RouteIsEligible ==
    ASSUME NEW s, NEW rs, NEW ms, NEW selection, NEW personal,
           select(s, rs, ms, selection, personal) # NoRoute
    PROVE  LET m == select(s, rs, ms, selection, personal).model IN
           /\ m \in DOMAIN ms /\ eligible(s, rs, ms[m], personal)
           /\ selection = "auto" => m \in last(s, rs, ms, personal)
<1> DEFINE choices == IF selection = "auto" THEN last(s, rs, ms, personal)
                      ELSE {selection} \cap fit(s, rs, ms, personal)
           m == CHOOSE c \in choices : TRUE
<1>1. choices # {} /\ select(s, rs, ms, selection, personal) = [model |-> m]
  BY DEF select
<1>2. m \in choices
  BY <1>1
<1>3. choices \subseteq fit(s, rs, ms, personal)
  BY DEF last
<1>4. m \in DOMAIN ms /\ eligible(s, rs, ms[m], personal)
  BY <1>2, <1>3 DEF fit
<1>5. selection = "auto" => m \in last(s, rs, ms, personal)
  BY <1>2
<1>6. select(s, rs, ms, selection, personal).model = m
  BY <1>1
<1> QED BY <1>4, <1>5, <1>6

\* The range of a priority.
LEMMA PrioritiesAreIntegers == \A x \in ModelRow : x.priority \in Int
BY DEF ModelRow

\* The presets that prefer local models give way only to a priority more than
\* 900 higher (route_score and the stable sort of ModelRouter::select).
LEMMA LocalBonus ==
    ASSUME NEW preset \in {"MinimizeAiUsage", "PreferLocal"},
           NEW a \in ModelRow, NEW b \in ModelRow,
           a.privacy = "Local", b.privacy = "Cloud", ~sorted_after(preset, a, b)
    PROVE  b.priority - a.priority > 900
<1>1. a.priority \in Int /\ b.priority \in Int
  BY PrioritiesAreIntegers
<1>2. route_score(preset, a) = 1000 + (IF a.default THEN 100 ELSE 0) + a.priority
  BY <1>1 DEF route_score
<1>3. route_score(preset, b) = (IF b.default THEN 100 ELSE 0) + b.priority
  BY <1>1 DEF route_score
<1>4. route_score(preset, a) <= route_score(preset, b)
  BY <1>1, <1>2, <1>3 DEF sorted_after
<1>5. CASE b.default /\ ~a.default
  <2>1. route_score(preset, a) = 1000 + a.priority /\ route_score(preset, b) = 100 + b.priority
    BY <1>2, <1>3, <1>5
  <2>2. b.priority - a.priority >= 900
    BY <1>1, <1>4, <2>1
  <2>3. listed_before(b, a)
    BY <1>5 DEF listed_before
  <2>4. route_score(preset, a) # route_score(preset, b)
    BY <2>3 DEF sorted_after
  <2> QED BY <1>1, <2>1, <2>2, <2>4
<1>6. CASE ~(b.default /\ ~a.default)
  BY <1>1, <1>2, <1>3, <1>4, <1>6
<1> QED BY <1>5, <1>6

-----------------------------------------------------------------------------
(* The context builder.                                                      *)

\* A nonempty set of naturals has a least member; the lemmas on build take the
\* least round that fails them.
LEMMA LeastNat ==
    ASSUME NEW T \in SUBSET Nat, T # {}
    PROVE  \E x \in T : \A y \in T : x <= y
<1>1. PICK x \in T : \A y \in T : ~(<<y, x>> \in OpToRel(<, Nat))
  BY NatLessThanWellFounded, WFMin, Zenon
<1>2. \A y \in T : ~(y < x)
  <2> SUFFICES ASSUME NEW y \in T, y < x PROVE FALSE
    OBVIOUS
  <2>1. <<y, x>> \in OpToRel(<, Nat)
    BY DEF OpToRel
  <2> QED BY <1>1, <2>1, Zenon
<1> QED BY <1>2

\* f tells what has been taken after each of the first k messages.
Rounds(f, messages, budget, k) ==
    f = [n \in 0..k |-> IF n = 0 THEN Nothing ELSE consider(f[n - 1], messages[n], budget)]

\* The loop of build is well defined: its rounds exist, and the last is the result.
LEMMA BuildHasRounds ==
    ASSUME NEW messages \in Seq(Nat), NEW budget
    PROVE  \E f : /\ Rounds(f, messages, budget, Len(messages))
                  /\ build(messages, budget) = f[Len(messages)]
<1> DEFINE Missing == {k \in Nat : ~ \E f : Rounds(f, messages, budget, k)}
<1>1. Missing = {}
  <2> SUFFICES ASSUME Missing # {} PROVE FALSE
    OBVIOUS
  <2>1. PICK k \in Missing : \A j \in Missing : k <= j
    <3>1. Missing \in SUBSET Nat
      OBVIOUS
    <3> HIDE DEF Missing
    <3> QED BY <3>1, LeastNat
  <2>2. k \in Nat /\ ~ \E f : Rounds(f, messages, budget, k)
    BY <2>1
  <2>3. CASE k = 0
    <3> DEFINE f == [n \in 0..0 |-> Nothing]
    <3>1. f = [n \in 0..0 |-> IF n = 0 THEN Nothing ELSE consider(f[n - 1], messages[n], budget)]
      OBVIOUS
    <3> QED BY <2>2, <2>3, <3>1 DEF Rounds
  <2>4. CASE k # 0
    <3>1. k - 1 \in Nat /\ k - 1 \notin Missing
      BY <2>1, <2>2, <2>4
    <3>2. PICK f : Rounds(f, messages, budget, k - 1)
      BY <3>1
    <3> DEFINE g == [n \in 0..k |-> IF n = k THEN consider(f[k - 1], messages[k], budget) ELSE f[n]]
    <3>3. \A n \in 0..(k - 1) :
              f[n] = IF n = 0 THEN Nothing ELSE consider(f[n - 1], messages[n], budget)
      BY <3>2, Zenon DEF Rounds
    <3>4. ASSUME NEW n \in 0..k
          PROVE  g[n] = IF n = 0 THEN Nothing ELSE consider(g[n - 1], messages[n], budget)
      <4>1. CASE n = k
        <5>1. g[n] = consider(f[k - 1], messages[k], budget)
          BY <4>1
        <5>2. g[n - 1] = f[k - 1]
          BY <2>2, <2>4, <4>1
        <5> HIDE DEF g
        <5> QED BY <2>4, <4>1, <5>1, <5>2
      <4>2. CASE n # k
        <5>1. n \in 0..(k - 1) /\ g[n] = f[n]
          BY <2>2, <4>2
        <5>2. n # 0 => g[n - 1] = f[n - 1]
          BY <2>2, <4>2
        <5> HIDE DEF g
        <5> QED BY <3>3, <5>1, <5>2
      <4> QED BY <4>1, <4>2
    <3>5. Rounds(g, messages, budget, k)
      <4>1. DOMAIN g = 0..k /\ g = [n \in 0..k |-> g[n]]
        OBVIOUS
      <4> HIDE DEF g
      <4> QED BY <3>4, <4>1 DEF Rounds
    <3> QED BY <2>2, <3>5
  <2> QED BY <2>3, <2>4
<1>2. Len(messages) \in Nat
  OBVIOUS
<1>3. \E f : Rounds(f, messages, budget, Len(messages))
  BY <1>1, <1>2
<1> DEFINE chosen == CHOOSE f : Rounds(f, messages, budget, Len(messages))
<1>4. Rounds(chosen, messages, budget, Len(messages))
  BY <1>3, Zenon
<1>5. build(messages, budget) = chosen[Len(messages)]
  BY Zenon DEF build, Rounds
<1> QED BY <1>4, <1>5, Zenon

Contexts == [tokens : Nat, items : Seq(Nat), truncated : BOOLEAN]

\* One message more: within the budget, and taken if it is the first that fits.
LEMMA ConsiderFacts ==
    ASSUME NEW t \in Contexts, NEW size \in Nat, NEW budget \in Nat, t.tokens <= budget,
           t.items = <<>> => t.tokens = 0
    PROVE  LET u == consider(t, size, budget) IN
           /\ u \in Contexts /\ u.tokens <= budget
           /\ u.items = <<>> => u.tokens = 0
           /\ u.items = <<>> <=> (t.items = <<>> /\ size > budget)
<1> DEFINE u == consider(t, size, budget)
<1>1. t.tokens \in Nat /\ t.items \in Seq(Nat) /\ t.truncated \in BOOLEAN
  BY DEF Contexts
<1>2. CASE t.tokens + size > budget
  <2>1. u = [t EXCEPT !.truncated = TRUE]
    BY <1>2 DEF consider
  <2>2. u \in Contexts /\ u.tokens = t.tokens /\ u.items = t.items
    BY <2>1 DEF Contexts
  <2>3. t.items = <<>> => size > budget
    BY <1>1, <1>2
  <2> HIDE DEF u
  <2>4. u.tokens <= budget /\ (u.items = <<>> => u.tokens = 0)
    BY <2>2
  <2>5. u.items = <<>> <=> (t.items = <<>> /\ size > budget)
    BY <2>2, <2>3
  <2> QED BY <2>2, <2>4, <2>5 DEF u
<1>3. CASE ~(t.tokens + size > budget)
  <2>1. u = [t EXCEPT !.tokens = @ + size, !.items = Append(@, size)]
    BY <1>3 DEF consider
  <2>2. Append(t.items, size) \in Seq(Nat) /\ Append(t.items, size) # <<>>
    BY <1>1, AppendProperties
  <2>3. u \in Contexts /\ u.tokens = t.tokens + size /\ u.items = Append(t.items, size)
    <3> DEFINE longer == Append(t.items, size)
    <3>1. u = [t EXCEPT !.tokens = @ + size, !.items = longer]
      BY <2>1
    <3>2. longer \in Seq(Nat)
      BY <2>2
    <3> HIDE DEF longer, u
    <3>3. t.tokens + size \in Nat
      BY <1>1
    <3>4. t = [tokens |-> t.tokens, items |-> t.items, truncated |-> t.truncated]
      BY DEF Contexts
    <3>5. u = [tokens |-> t.tokens + size, items |-> longer, truncated |-> t.truncated]
      BY <3>1, <3>4, Zenon
    <3>6. u \in Contexts /\ u.tokens = t.tokens + size /\ u.items = longer
      BY <1>1, <3>2, <3>3, <3>5 DEF Contexts
    <3> QED BY <3>6 DEF longer
  <2>4. u.tokens <= budget /\ ~(t.items = <<>> /\ size > budget)
    BY <1>1, <1>3, <2>3
  <2>5. u.items # <<>>
    BY <2>2, <2>3
  <2> QED BY <2>3, <2>4, <2>5
<1> QED BY <1>2, <1>3

\* Whatever it had to skip, the context is within the budget, and it is empty
\* only if no message fits on its own (ContextBuilder::build).
LEMMA BuildFacts ==
    ASSUME NEW messages \in Seq(Nat), NEW budget \in Nat
    PROVE  /\ build(messages, budget) \in Contexts
           /\ build(messages, budget).tokens <= budget
           /\ build(messages, budget).items = <<>>
                  <=> \A i \in 1..Len(messages) : messages[i] > budget
<1>1. PICK f : /\ Rounds(f, messages, budget, Len(messages))
               /\ build(messages, budget) = f[Len(messages)]
  BY BuildHasRounds
<1>2. \A n \in 0..Len(messages) :
          f[n] = IF n = 0 THEN Nothing ELSE consider(f[n - 1], messages[n], budget)
  BY <1>1, Zenon DEF Rounds
<1> DEFINE Sound(k) == /\ f[k] \in Contexts /\ f[k].tokens <= budget
                       /\ f[k].items = <<>> => f[k].tokens = 0
                       /\ f[k].items = <<>> <=> \A i \in 1..k : messages[i] > budget
           Bad == {k \in 0..Len(messages) : ~Sound(k)}
<1>3. Bad = {}
  <2> SUFFICES ASSUME Bad # {} PROVE FALSE
    OBVIOUS
  <2>1. PICK k \in Bad : \A j \in Bad : k <= j
    <3>1. Bad \in SUBSET Nat
      OBVIOUS
    <3> HIDE DEF Bad
    <3> QED BY <3>1, LeastNat
  <2>2. k \in 0..Len(messages) /\ ~Sound(k)
    BY <2>1
  <2>3. Sound(0)
    <3>1. f[0] = Nothing
      <4>1. 0 \in 0..Len(messages)
        OBVIOUS
      <4> QED BY <1>2, <4>1, Zenon
    <3>2. Nothing \in Contexts /\ Nothing.tokens = 0 /\ Nothing.items = <<>>
      BY DEF Nothing, Contexts
    <3> QED BY <3>1, <3>2
  <2>4. k # 0
    BY <2>2, <2>3
  <2>5. k - 1 \in 0..Len(messages) /\ k - 1 \notin Bad
    BY <2>1, <2>2, <2>4
  <2>6. Sound(k - 1)
    BY <2>5
  <2>7. f[k] = consider(f[k - 1], messages[k], budget) /\ messages[k] \in Nat
    BY <1>2, <2>2, <2>4
  <2>8. /\ f[k] \in Contexts /\ f[k].tokens <= budget
        /\ f[k].items = <<>> => f[k].tokens = 0
        /\ f[k].items = <<>> <=> (f[k - 1].items = <<>> /\ messages[k] > budget)
    <3> DEFINE t == f[k - 1]
    <3>1. t \in Contexts /\ t.tokens <= budget /\ (t.items = <<>> => t.tokens = 0)
      BY <2>6
    <3>2. f[k] = consider(t, messages[k], budget)
      BY <2>7
    <3> HIDE DEF t
    <3>3. /\ consider(t, messages[k], budget) \in Contexts
          /\ consider(t, messages[k], budget).tokens <= budget
          /\ consider(t, messages[k], budget).items = <<>>
                 => consider(t, messages[k], budget).tokens = 0
          /\ consider(t, messages[k], budget).items = <<>>
                 <=> (t.items = <<>> /\ messages[k] > budget)
      <4> HIDE DEF Sound, Bad
      <4> QED BY <2>7, <3>1, ConsiderFacts, Zenon
    <3> QED BY <3>2, <3>3, Zenon DEF t
  <2>9. 1..k = (1..(k - 1)) \cup {k}
    BY <2>2, <2>4
  <2>10. Sound(k)
    BY <2>6, <2>8, <2>9
  <2> QED BY <2>2, <2>10
<1>4. Sound(Len(messages))
  BY <1>3
<1> QED BY <1>1, <1>4

\* The newest messages are among those of a longer window.
LEMMA NewestGrows ==
    ASSUME NEW messages \in Seq(Nat), NEW n \in Nat
    PROVE  /\ newest(messages, n) \in Seq(Nat) /\ newest(messages, n + 1) \in Seq(Nat)
           /\ \A i \in 1..Len(newest(messages, n)) : \E j \in 1..Len(newest(messages, n + 1)) :
                  newest(messages, n + 1)[j] = newest(messages, n)[i]
<1> DEFINE from(k) == IF Len(messages) > k THEN Len(messages) - k + 1 ELSE 1
<1>1. Len(messages) \in Nat /\ from(n) \in 1..(Len(messages) + 1)
        /\ from(n + 1) \in 1..(Len(messages) + 1)
  OBVIOUS
<1>2. ASSUME NEW k \in Nat, from(k) \in 1..(Len(messages) + 1)
      PROVE  /\ newest(messages, k) \in Seq(Nat)
             /\ Len(newest(messages, k)) = Len(messages) - from(k) + 1
             /\ \A i \in 1..Len(newest(messages, k)) :
                    newest(messages, k)[i] = messages[from(k) + i - 1]
  <2>1. newest(messages, k) = SubSeq(messages, from(k), Len(messages))
    BY DEF newest
  <2> HIDE DEF from
  <2>2. \A i \in from(k)..Len(messages) : messages[i] \in Nat
    BY <1>2
  <2>3. from(k) \in Int /\ Len(messages) \in Int
    BY <1>1, <1>2
  <2>4. /\ newest(messages, k) \in Seq(Nat)
        /\ Len(newest(messages, k)) = IF from(k) <= Len(messages) THEN Len(messages) - from(k) + 1
                                      ELSE 0
        /\ \A i \in 1..(Len(messages) - from(k) + 1) :
               newest(messages, k)[i] = messages[from(k) + i - 1]
    BY <2>1, <2>2, <2>3, SubSeqProperties
  <2>5. Len(newest(messages, k)) = Len(messages) - from(k) + 1
    BY <1>1, <1>2, <2>4
  <2> QED BY <2>4, <2>5
<1>3. from(n + 1) <= from(n)
  BY <1>1
<1>4. ASSUME NEW i \in 1..Len(newest(messages, n))
      PROVE  \E j \in 1..Len(newest(messages, n + 1)) :
                 newest(messages, n + 1)[j] = newest(messages, n)[i]
  <2> DEFINE j == i + from(n) - from(n + 1)
  <2>1. n + 1 \in Nat
    OBVIOUS
  <2> HIDE DEF from
  <2>2. /\ Len(newest(messages, n)) = Len(messages) - from(n) + 1
        /\ Len(newest(messages, n + 1)) = Len(messages) - from(n + 1) + 1
    BY <1>1, <1>2, <2>1
  <2>3. j \in 1..Len(newest(messages, n + 1)) /\ from(n + 1) + j - 1 = from(n) + i - 1
    <3> DEFINE a == from(n)
               b == from(n + 1)
    <3>1. a \in Nat /\ b \in Nat /\ b <= a
      BY <1>1, <1>3
    <3>2. i \in 1..(Len(messages) - a + 1)
      BY <2>2
    <3> HIDE DEF a, b
    <3>3. i + a - b \in 1..(Len(messages) - b + 1) /\ b + (i + a - b) - 1 = a + i - 1
      BY <1>1, <3>1, <3>2
    <3> QED BY <2>2, <3>3 DEF a, b
  <2>4. newest(messages, n)[i] = messages[from(n) + i - 1]
    BY <1>1, <1>2
  <2>5. newest(messages, n + 1)[j] = messages[from(n + 1) + j - 1]
    BY <1>1, <1>2, <2>1, <2>3
  <2> QED BY <2>3, <2>4, <2>5
<1> QED BY <1>1, <1>2, <1>4

\* The contexts of a chat and of its preview, for the settings in force.
LEMMA SettingsFacts ==
    ASSUME TypeOK
    PROVE  settings.budget \in Nat
<1>1. settings \in Settings
  BY ConstantsAssumption DEF TypeOK
<1>2. settings.budget \in MinBudget..MaxBudget
  BY <1>1 DEF Settings
<1>3. MinBudget \in Nat /\ MaxBudget \in Nat
  BY DEF MinBudget, MaxBudget
<1> QED BY <1>2, <1>3

LEMMA ContextsFit ==
    ASSUME TypeOK, NEW conversation \in Conversations
    PROVE  ChatContext(conversation).tokens <= settings.budget
<1>1. settings.budget \in Nat
  BY SettingsFacts
<1>2. conversation \in Seq(Nat) /\ Window - 1 \in Nat
  BY ConstantsAssumption
<1>3. CASE settings.personal
  <2>1. ChatContext(conversation) = build(newest(conversation, Window - 1), settings.budget)
    BY <1>3 DEF ChatContext
  <2>2. newest(conversation, Window - 1) \in Seq(Nat)
    BY <1>2, NewestGrows
  <2> QED BY <1>1, <2>1, <2>2, BuildFacts
<1>4. CASE ~settings.personal
  <2>1. ChatContext(conversation) = Nothing
    BY <1>4 DEF ChatContext
  <2> QED BY <1>1, <2>1 DEF Nothing
<1> QED BY <1>3, <1>4

-----------------------------------------------------------------------------
(* Data.                                                                     *)

\* No key is one of the marks that stand for its absence.
LEMMA KeysAreKeys == \A k \in Secrets : k # NoSecret /\ k # Absent /\ k # Unknown
BY ConstantsAssumption

LEMMA MarksDiffer == NoSecret # Absent /\ NoSecret # Unknown /\ Absent # Unknown
BY DEF NoSecret, Absent, Unknown

LEMMA CommandFacts ==
    \A r \in Commands : /\ r # None /\ r.provider \in Ids
                        /\ r.kind \in {"key", "keep", "clear", "remove"}
                        /\ r.kind = "key" => r.key \in Secrets
<1>1. None \notin Commands
  BY ConstantsAssumption
<1> QED BY <1>1 DEF Commands

LEMMA OperationFacts ==
    \A o \in Operations : /\ o # None /\ o.request \in Commands /\ o.request # None
                          /\ o.request.provider \in Ids
                          /\ o.input \in Inputs \cup {None}
                          /\ o.step \in {"mutate", "write", "restore"}
                          /\ o.before \in Secrets \cup {NoSecret}
<1>1. None \notin Operations
  BY ConstantsAssumption
<1>2. \A o \in Operations : /\ o.request \in Commands /\ o.input \in Inputs \cup {None}
                            /\ o.step \in {"mutate", "write", "restore"}
                            /\ o.before \in Secrets \cup {NoSecret}
  BY DEF Operations
<1> QED BY <1>1, <1>2, CommandFacts

\* Moving an operation on keeps the rest of it.
LEMMA OperationMoves ==
    ASSUME NEW o \in Operations, NEW step \in {"write", "restore"}
    PROVE  LET n == [o EXCEPT !.step = step] IN
           /\ n \in Operations /\ n.step = step
           /\ n.request = o.request /\ n.input = o.input /\ n.before = o.before
BY DEF Operations

\* The row a save writes.
LEMMA NewRowFacts ==
    ASSUME NEW request, NEW input \in Inputs
    PROVE  /\ NewRow(request, input) \in Row
           /\ NewRow(request, input).status # "Connected"
           /\ NewRow(request, input).cred =
                  (request.kind = "key" \/ (request.kind = "keep" /\ HasCredential(request.provider)))
<1> DEFINE status == IF validate_provider(input.kind, input.privacy, input.url) = "Unsupported"
                     THEN "Unsupported" ELSE "Configured"
           cred == request.kind = "key" \/ (request.kind = "keep" /\ HasCredential(request.provider))
<1>1. status \in Statuses /\ status # "Connected"
  BY DEF Statuses
<1>2. cred \in BOOLEAN
  OBVIOUS
<1>3. NewRow(request, input) =
          [kind |-> input.kind, privacy |-> input.privacy, url |-> input.url,
           enabled |-> input.enabled, cred |-> cred, status |-> status]
  BY DEF NewRow
<1>4. /\ input.kind \in Kinds /\ input.privacy \in Privacies /\ input.url \in Endpoints
      /\ input.enabled \in BOOLEAN
  BY DEF Inputs
<1> HIDE DEF status, cred
<1>5. NewRow(request, input) \in Row
  BY <1>1, <1>2, <1>3, <1>4 DEF Row
<1>6. NewRow(request, input).status = status /\ NewRow(request, input).cred = cred
  BY <1>3
<1> QED BY <1>1, <1>5, <1>6 DEF cred

-----------------------------------------------------------------------------
(* Type correctness and the command under way.                               *)

\* Deleting and adding rows keeps the tables' schema.
LEMMA WriteKeepsTables ==
    ASSUME TypeOK, CommandInv, Write
    PROVE  /\ DOMAIN rows' \subseteq Ids /\ \A p \in DOMAIN rows' : rows'[p] \in Row
           /\ DOMAIN models' \subseteq ModelIds /\ \A m \in DOMAIN models' : models'[m] \in ModelRow
<1> DEFINE q == op.request.provider
<1>1. op \in Operations /\ op # None
  BY DEF TypeOK, Write
<1>2. q \in Ids /\ op.input \in Inputs \cup {None}
  BY <1>1, OperationFacts
<1>3. DOMAIN rows \subseteq Ids /\ \A p \in DOMAIN rows : rows[p] \in Row
  BY DEF TypeOK
<1>4. DOMAIN models \subseteq ModelIds /\ \A m \in DOMAIN models : models[m] \in ModelRow
  BY DEF TypeOK
<1>5. CASE op.request.kind = "remove"
  <2>1. /\ rows' = Drop(rows, {q})
        /\ models' = Drop(models, {m \in DOMAIN models : models[m].provider = q})
    BY <1>5 DEF Write
  <2>2. DOMAIN rows' = DOMAIN rows \ {q} /\ \A p \in DOMAIN rows' : rows'[p] = rows[p]
    BY <2>1 DEF Drop
  <2>3. /\ DOMAIN models' \subseteq DOMAIN models
        /\ \A m \in DOMAIN models' : models'[m] = models[m]
    BY <2>1 DEF Drop
  <2> QED BY <1>3, <1>4, <2>2, <2>3
<1>6. CASE op.request.kind # "remove"
  <2>1. rows' = Put(rows, q, NewRow(op.request, op.input)) /\ models' = models
    BY <1>6 DEF Write
  <2>2. op.input \in Inputs
    BY <1>1, <1>2, <1>6 DEF CommandInv
  <2>3. NewRow(op.request, op.input) \in Row
    BY <2>2, NewRowFacts
  <2>4. /\ DOMAIN rows' = DOMAIN rows \cup {q} /\ rows'[q] = NewRow(op.request, op.input)
        /\ \A p \in DOMAIN rows : p # q => rows'[p] = rows[p]
    BY <2>1 DEF Put
  <2> QED BY <1>2, <1>3, <1>4, <2>1, <2>3, <2>4
<1> QED BY <1>5, <1>6

LEMMA ModelsKeepTheirTable ==
    ASSUME TypeOK, NEW m \in ModelIds, NEW input \in ModelInputs[m], upsert_model(m, input)
    PROVE  DOMAIN models' \subseteq ModelIds /\ \A n \in DOMAIN models' : models'[n] \in ModelRow
<1> DEFINE flag(n) == models[n].default /\ ~(input.default /\ models[n].provider = input.provider)
           others == [n \in DOMAIN models |-> [models[n] EXCEPT !.default = flag(n)]]
<1>1. DOMAIN models \subseteq ModelIds /\ \A n \in DOMAIN models : models[n] \in ModelRow
  BY DEF TypeOK
<1>2. input \in ModelRow
  BY ConstantsAssumption
<1>3. \A x \in ModelRow, b \in BOOLEAN : [x EXCEPT !.default = b] \in ModelRow
  BY DEF ModelRow
<1>4. \A n \in DOMAIN models : flag(n) \in BOOLEAN
  OBVIOUS
<1>5. models' = Put(others, m, input)
  BY DEF upsert_model
<1> HIDE DEF flag
<1>6. DOMAIN others = DOMAIN models /\ \A n \in DOMAIN models : others[n] \in ModelRow
  BY <1>1, <1>3, <1>4
<1> HIDE DEF others
<1>7. /\ DOMAIN models' = DOMAIN models \cup {m} /\ models'[m] = input
      /\ \A n \in DOMAIN models : n # m => models'[n] = others[n]
  BY <1>5, <1>6 DEF Put
<1> QED BY <1>1, <1>2, <1>6, <1>7

\* A command is taken from its inputs and has touched nothing.
LEMMA StartFacts ==
    ASSUME TypeOK, NEW request \in Commands, NEW input \in Inputs \cup {None},
           Start(request, input)
    PROVE  /\ op = None /\ op' \in Operations /\ op' # None
           /\ op'.request = request /\ op'.input = input
           /\ op'.before = keyring[request.provider]
           /\ op'.step = IF Touches(request) THEN "mutate" ELSE "write"
           /\ UNCHANGED <<rows, keyring, models, settings, torn, tested>>
           /\ reply' = "none" /\ sent' = None
<1>1. keyring[request.provider] \in Secrets \cup {NoSecret}
  BY CommandFacts DEF TypeOK
<1>2. op' = [request |-> request, input |-> input,
             step |-> IF Touches(request) THEN "mutate" ELSE "write",
             before |-> keyring[request.provider]]
  BY DEF Start
<1>3. op' \in Operations
  BY <1>1, <1>2 DEF Operations
<1>4. op' # None
  BY <1>3, OperationFacts
<1>5. /\ op'.request = request /\ op'.input = input
      /\ op'.before = keyring[request.provider]
      /\ op'.step = IF Touches(request) THEN "mutate" ELSE "write"
  BY <1>2
<1> QED BY <1>3, <1>4, <1>5 DEF Start, stores

\* The two ways a command starts.
LEMMA StartsAreStarts ==
    /\ \A request \in Commands : \A input \in ProviderInputs[request.provider] :
           upsert_provider(request, input) =>
               input \in Inputs /\ request.kind # "remove" /\ Start(request, input)
    /\ \A request \in Commands :
           remove_provider(request) => request.kind = "remove" /\ Start(request, None)
<1>1. \A request \in Commands : ProviderInputs[request.provider] \subseteq Inputs
  BY CommandFacts, ConstantsAssumption
<1> QED BY <1>1 DEF upsert_provider, remove_provider

LEMMA TypeStep ==
    ASSUME TypeOK, CommandInv, [Next]_vars
    PROVE  TypeOK'
<1>1. ASSUME NEW request \in Commands, NEW input \in Inputs \cup {None}, Start(request, input)
      PROVE  TypeOK'
  BY <1>1, StartFacts DEF TypeOK
<1>2. ASSUME NEW request \in Commands, NEW input \in ProviderInputs[request.provider],
             upsert_provider(request, input)
      PROVE  TypeOK'
  BY <1>1, <1>2, StartsAreStarts
<1>3. ASSUME NEW request \in Commands, remove_provider(request)
      PROVE  TypeOK'
  BY <1>1, <1>3, StartsAreStarts
<1>4. CASE RefuseCommand \/ MutateFails
  BY <1>4 DEF RefuseCommand, MutateFails, End, stores, TypeOK
<1>5. CASE Mutate
  <2>1. op \in Operations
    BY <1>5 DEF Mutate, TypeOK
  <2>2. op' \in Operations
    BY <1>5, <2>1, OperationMoves DEF Mutate
  <2>3. /\ op.request.kind = "key" => op.request.key \in Secrets
        /\ op.request.provider \in Ids
    BY <2>1, OperationFacts, CommandFacts
  <2>4. keyring' \in [Ids -> Secrets \cup {NoSecret}]
    BY <1>5, <2>3 DEF Mutate, TypeOK
  <2> QED BY <1>5, <2>2, <2>4 DEF Mutate, TypeOK
<1>6. CASE Write
  <2>1. op.request.provider \in Ids
    BY <1>6, OperationFacts DEF Write, TypeOK
  <2>2. tested' \in [Ids -> Secrets \cup {NoSecret, None}]
    BY <1>6, <2>1 DEF Write, TypeOK
  <2>3. torn' \subseteq Ids
    BY <1>6 DEF Write, TypeOK
  <2>4. keyring' = keyring /\ settings' = settings /\ op' = None /\ reply' = "ok"
    BY <1>6 DEF Write, End
  <2> QED BY <1>6, <2>2, <2>3, <2>4, WriteKeepsTables DEF TypeOK
<1>7. CASE WriteFails
  <2>1. op \in Operations
    BY <1>7 DEF WriteFails, TypeOK
  <2>2. [op EXCEPT !.step = "restore"] \in Operations
    BY <2>1, OperationMoves
  <2>3. op' \in Operations \cup {None} /\ reply' \in {"none", "ok", "error", "lost"}
    BY <1>7, <2>2 DEF WriteFails, End, TypeOK
  <2> QED BY <1>7, <2>3 DEF WriteFails, stores, TypeOK
<1>8. CASE Restore
  <2>1. op.before \in Secrets \cup {NoSecret} /\ op.request.provider \in Ids
    BY <1>8, OperationFacts DEF Restore, TypeOK
  <2>2. keyring' \in [Ids -> Secrets \cup {NoSecret}]
    BY <1>8, <2>1 DEF Restore, TypeOK
  <2> QED BY <1>8, <2>2 DEF Restore, End, TypeOK
<1>9. CASE RestoreFails \/ Crash
  <2>1. op.request.provider \in Ids
    BY <1>9, OperationFacts DEF RestoreFails, Crash, TypeOK
  <2>2. torn' \subseteq Ids
    BY <1>9, <2>1 DEF RestoreFails, Crash, TypeOK
  <2> QED BY <1>9, <2>2 DEF RestoreFails, Crash, End, stores, TypeOK
<1>10. ASSUME NEW p \in Ids, NEW result \in TestResults, test_provider(p, result)
       PROVE  TypeOK'
  <2>1. test(rows[p], result) \in Statuses
    BY ConstantsAssumption DEF test, Statuses
  <2>2. p \in DOMAIN rows /\ rows[p] \in Row
    BY <1>10 DEF test_provider, TypeOK
  <2>3. \A x \in Row, t \in Statuses : [x EXCEPT !.status = t] \in Row
    BY DEF Row
  <2>4. DOMAIN rows' \subseteq Ids /\ \A q \in DOMAIN rows' : rows'[q] \in Row
    BY <1>10, <2>1, <2>2, <2>3 DEF test_provider, TypeOK
  <2>5. Credential(p) \in Secrets \cup {NoSecret, None}
    BY DEF Credential, TypeOK
  <2>6. tested' \in [Ids -> Secrets \cup {NoSecret, None}]
    BY <1>10, <2>5 DEF test_provider, TypeOK
  <2> QED BY <1>10, <2>4, <2>6 DEF test_provider, TypeOK
<1>11. ASSUME NEW m \in ModelIds, NEW input \in ModelInputs[m], upsert_model(m, input)
       PROVE  TypeOK'
  <2>1. UNCHANGED <<rows, keyring, settings, op, torn, tested>> /\ reply' = "none"
    BY <1>11 DEF upsert_model
  <2> QED BY <1>11, <2>1, ModelsKeepTheirTable DEF TypeOK
<1>12. ASSUME NEW chosen \in SettingsInputs, update_application_settings(chosen)
       PROVE  TypeOK'
  BY <1>12 DEF update_application_settings, TypeOK
<1>13. ASSUME NEW selection, NEW conversation, ai_fallback(selection, conversation)
       PROVE  TypeOK'
  BY <1>13 DEF ai_fallback, stores, TypeOK
<1>14. CASE UNCHANGED vars
  BY <1>14 DEF vars, TypeOK
<1> QED BY <1>2, <1>3, <1>4, <1>5, <1>6, <1>7, <1>8, <1>9, <1>10, <1>11, <1>12, <1>13, <1>14 DEF Next

LEMMA CommandStep ==
    ASSUME TypeOK, CommandInv, [Next]_vars
    PROVE  CommandInv'
<1>1. ASSUME NEW request \in Commands, NEW input \in Inputs \cup {None}, Start(request, input),
             request.kind = "remove" <=> input = None
      PROVE  CommandInv'
  <2>1. Touches(op.request)' <=> Touches(request)
    BY <1>1, StartFacts DEF Touches, HasCredential
  <2> QED BY <1>1, <2>1, StartFacts DEF CommandInv
<1>2. ASSUME NEW request \in Commands, NEW input \in ProviderInputs[request.provider],
             upsert_provider(request, input)
      PROVE  CommandInv'
  <2>1. input # None
    BY <1>2, StartsAreStarts, ConstantsAssumption
  <2> QED BY <1>1, <1>2, <2>1, StartsAreStarts
<1>3. ASSUME NEW request \in Commands, remove_provider(request)
      PROVE  CommandInv'
  BY <1>1, <1>3, StartsAreStarts
<1>4. ASSUME op' = None PROVE CommandInv'
  BY <1>4 DEF CommandInv
<1>5. CASE Mutate
  <2>1. /\ op \in Operations /\ op # None /\ op.step = "mutate" /\ sent' = sent /\ rows' = rows
        /\ op' = [op EXCEPT !.step = "write"]
        /\ keyring' = [keyring EXCEPT ![op.request.provider] =
                          IF op.request.kind = "key" THEN op.request.key ELSE NoSecret]
    BY <1>5 DEF Mutate, TypeOK
  <2>2. op'.request = op.request /\ op'.input = op.input /\ op'.step = "write"
    BY <2>1, OperationMoves
  <2>3. op.request.provider \in Ids
    BY <2>1, OperationFacts
  <2>4. keyring'[op.request.provider] = IF op.request.kind = "key" THEN op.request.key ELSE NoSecret
    BY <2>1, <2>3 DEF TypeOK
  <2> QED BY <2>1, <2>2, <2>4 DEF CommandInv
<1>6. CASE WriteFails
  <2>1. CASE Touches(op.request)
    <3>1. /\ op \in Operations /\ op # None /\ sent' = sent /\ rows' = rows
          /\ op' = [op EXCEPT !.step = "restore"]
      BY <1>6, <2>1 DEF WriteFails, stores, TypeOK
    <3>2. op'.request = op.request /\ op'.input = op.input /\ op'.step = "restore"
      BY <3>1, OperationMoves
    <3>3. Touches(op.request)'
      BY <2>1, <3>1, <3>2 DEF Touches, HasCredential
    <3> QED BY <3>1, <3>2, <3>3 DEF CommandInv
  <2>2. CASE ~Touches(op.request)
    BY <1>4, <1>6, <2>2 DEF WriteFails, End
  <2> QED BY <2>1, <2>2
<1>7. CASE RefuseCommand \/ MutateFails \/ Write \/ Restore \/ RestoreFails \/ Crash
  BY <1>4, <1>7 DEF RefuseCommand, MutateFails, Write, Restore, RestoreFails, Crash, End
<1>8. ASSUME NEW p \in Ids, NEW result \in TestResults, test_provider(p, result)
      PROVE  CommandInv'
  BY <1>4, <1>8 DEF test_provider
<1>9. ASSUME NEW m \in ModelIds, NEW input \in ModelInputs[m], upsert_model(m, input)
      PROVE  CommandInv'
  BY <1>4, <1>9 DEF upsert_model
<1>10. ASSUME NEW chosen \in SettingsInputs, update_application_settings(chosen)
       PROVE  CommandInv'
  BY <1>4, <1>10 DEF update_application_settings
<1>11. ASSUME NEW selection, NEW conversation, ai_fallback(selection, conversation)
       PROVE  CommandInv'
  BY <1>4, <1>11 DEF ai_fallback
<1>12. CASE UNCHANGED vars
  BY <1>12 DEF vars, CommandInv, Touches, HasCredential
<1> QED BY <1>2, <1>3, <1>5, <1>6, <1>7, <1>8, <1>9, <1>10, <1>11, <1>12 DEF Next

-----------------------------------------------------------------------------
(* What each step does to the key a provider holds.                          *)

\* The steps a provider's key survives: the command has not taken effect, or
\* is taken back.
Keeping == \/ \E request \in Commands, input \in Inputs \cup {None} : Start(request, input)
           \/ Mutate \/ MutateFails \/ WriteFails \/ Restore
           \/ op = None /\ op' = None /\ keyring' = keyring

LEMMA KeyIsKept ==
    ASSUME TypeOK, CommandInv, Keeping, NEW p \in Ids
    PROVE  KeyOf(p)' = KeyOf(p)
<1>1. ASSUME NEW request \in Commands, NEW input \in Inputs \cup {None}, Start(request, input)
      PROVE  KeyOf(p)' = KeyOf(p)
  <2>1. Touches(op.request)' <=> Touches(request)
    BY <1>1, StartFacts DEF Touches, HasCredential
  <2> QED BY <1>1, <2>1, StartFacts DEF KeyOf
<1>2. ASSUME op # None, op' = None, keyring' = keyring, op.step = "mutate" \/ ~Touches(op.request)
      PROVE  KeyOf(p)' = KeyOf(p)
  BY <1>2 DEF KeyOf
<1>3. CASE Mutate
  <2>1. /\ op \in Operations /\ op # None /\ op.step = "mutate" /\ rows' = rows
        /\ op' = [op EXCEPT !.step = "write"]
        /\ \A q \in Ids : q # op.request.provider => keyring'[q] = keyring[q]
    BY <1>3 DEF Mutate, TypeOK
  <2>2. /\ op'.request = op.request /\ op'.before = op.before /\ op'.step = "write"
        /\ op' # None
    BY <2>1, OperationMoves, OperationFacts
  <2>3. Touches(op.request) /\ op.before = keyring[op.request.provider]
    BY <2>1 DEF CommandInv
  <2>4. Touches(op.request)'
    BY <2>1, <2>2, <2>3 DEF Touches, HasCredential
  <2> QED BY <2>1, <2>2, <2>3, <2>4 DEF KeyOf
<1>4. CASE MutateFails
  BY <1>2, <1>4 DEF MutateFails, End, stores
<1>5. CASE WriteFails
  <2>1. CASE Touches(op.request)
    <3>1. /\ op \in Operations /\ op # None /\ op.step = "write" /\ rows' = rows /\ keyring' = keyring
          /\ op' = [op EXCEPT !.step = "restore"]
      BY <1>5, <2>1 DEF WriteFails, stores, TypeOK
    <3>2. /\ op'.request = op.request /\ op'.before = op.before /\ op'.step = "restore"
          /\ op' # None
      BY <3>1, OperationMoves, OperationFacts
    <3>3. Touches(op.request)'
      BY <2>1, <3>1, <3>2 DEF Touches, HasCredential
    <3> QED BY <2>1, <3>1, <3>2, <3>3 DEF KeyOf
  <2>2. CASE ~Touches(op.request)
    BY <1>2, <1>5, <2>2 DEF WriteFails, End, stores
  <2> QED BY <2>1, <2>2
<1>6. CASE Restore
  <2>1. /\ op \in Operations /\ op # None /\ op.step = "restore" /\ op' = None
        /\ keyring' = [keyring EXCEPT ![op.request.provider] = op.before]
    BY <1>6 DEF Restore, End, TypeOK
  <2>2. Touches(op.request) /\ op.request.provider \in Ids
    BY <2>1, OperationFacts DEF CommandInv
  <2>3. /\ keyring'[op.request.provider] = op.before
        /\ \A q \in Ids : q # op.request.provider => keyring'[q] = keyring[q]
    BY <2>1, <2>2 DEF TypeOK
  <2> QED BY <2>1, <2>2, <2>3 DEF KeyOf
<1>7. CASE op = None /\ op' = None /\ keyring' = keyring
  BY <1>7 DEF KeyOf
<1> QED BY <1>1, <1>3, <1>4, <1>5, <1>6, <1>7 DEF Keeping

\* The step a command takes effect in, for the provider it names.
LEMMA WriteEffect ==
    ASSUME TypeOK, CommandInv, Write, NEW q, q = op.request.provider
    PROVE  /\ op \in Operations /\ op # None /\ op.step = "write" /\ op' = None
           /\ keyring' = keyring /\ q \in Ids
           /\ torn' = IF Touches(op.request) THEN torn \ {q} ELSE torn
           /\ q \in DOMAIN rows' <=> op.request.kind # "remove"
           /\ q \in DOMAIN rows' => rows'[q].status # "Connected"
           /\ HasCredential(q)' <=>
                  (op.request.kind = "key" \/ (op.request.kind = "keep" /\ HasCredential(q)))
<1>1. /\ op \in Operations /\ op # None /\ op.step = "write" /\ op' = None /\ keyring' = keyring
      /\ torn' = IF Touches(op.request) THEN torn \ {q} ELSE torn
  BY DEF Write, End, TypeOK
<1>2. q \in Ids /\ op.input \in Inputs \cup {None}
  BY <1>1, OperationFacts
<1>3. CASE op.request.kind = "remove"
  <2>1. rows' = Drop(rows, {q})
    BY <1>3 DEF Write
  <2>2. q \notin DOMAIN rows'
    BY <2>1 DEF Drop
  <2> QED BY <1>1, <1>2, <1>3, <2>2 DEF HasCredential
<1>4. CASE op.request.kind # "remove"
  <2>1. rows' = Put(rows, q, NewRow(op.request, op.input))
    BY <1>4 DEF Write
  <2>2. q \in DOMAIN rows' /\ rows'[q] = NewRow(op.request, op.input)
    BY <2>1 DEF Put
  <2>3. op.input \in Inputs
    BY <1>1, <1>2, <1>4 DEF CommandInv
  <2>4. rows'[q].status # "Connected"
    BY <2>2, <2>3, NewRowFacts
  <2>5. rows'[q].cred = (\/ op.request.kind = "key"
                         \/ op.request.kind = "keep" /\ HasCredential(q))
    BY <2>2, <2>3, NewRowFacts
  <2>6. HasCredential(q)' <=>
          (op.request.kind = "key" \/ (op.request.kind = "keep" /\ HasCredential(q)))
    BY <2>2, <2>5 DEF HasCredential
  <2> QED BY <1>1, <1>2, <1>4, <2>2, <2>4, <2>6
<1> QED BY <1>3, <1>4

\* What it leaves alone: the other providers.
LEMMA WriteLeavesOthers ==
    ASSUME TypeOK, CommandInv, Write, NEW p \in Ids, p # op.request.provider
    PROVE  /\ p \in DOMAIN rows' <=> p \in DOMAIN rows
           /\ p \in DOMAIN rows => rows'[p] = rows[p]
           /\ p \in torn' <=> p \in torn
           /\ tested'[p] = tested[p]
           /\ KeyOf(p)' = KeyOf(p)
<1> DEFINE q == op.request.provider
<1>1. /\ op # None /\ op' = None /\ keyring' = keyring
      /\ torn' = IF Touches(op.request) THEN torn \ {q} ELSE torn
      /\ tested' = [tested EXCEPT ![q] = None]
  BY DEF Write, End
<1>2. (p \in torn' <=> p \in torn) /\ tested'[p] = tested[p]
  BY <1>1 DEF TypeOK
<1>3. KeyOf(p)' = KeyOf(p)
  BY <1>1 DEF KeyOf
<1>4. CASE op.request.kind = "remove"
  <2>1. rows' = Drop(rows, {q})
    BY <1>4 DEF Write
  <2>2. DOMAIN rows' = DOMAIN rows \ {q} /\ \A r \in DOMAIN rows' : rows'[r] = rows[r]
    BY <2>1 DEF Drop
  <2> QED BY <1>2, <1>3, <2>2
<1>5. CASE op.request.kind # "remove"
  <2>1. rows' = Put(rows, q, NewRow(op.request, op.input))
    BY <1>5 DEF Write
  <2>2. /\ DOMAIN rows' = DOMAIN rows \cup {q}
        /\ \A r \in DOMAIN rows : r # q => rows'[r] = rows[r]
    BY <2>1 DEF Put
  <2> QED BY <1>2, <1>3, <2>2
<1> QED BY <1>4, <1>5

\* Where a written command left the two stores of its provider.
LEMMA WriteSettles ==
    ASSUME TypeOK, CommandInv, StoresAgree, Write, NEW q, q = op.request.provider, q \notin torn'
    PROVE  (KeyOf(q)' # NoSecret) <=> HasCredential(q)'
<1>1. /\ op # None /\ op.step = "write" /\ op.request \in Commands /\ q \in Ids /\ op' = None
      /\ keyring' = keyring
      /\ torn' = IF Touches(op.request) THEN torn \ {q} ELSE torn
      /\ HasCredential(q)' <=>
          (op.request.kind = "key" \/ (op.request.kind = "keep" /\ HasCredential(q)))
  BY WriteEffect, OperationFacts
<1>2. /\ op.request.kind \in {"key", "keep", "clear", "remove"}
      /\ op.request.kind = "key" => op.request.key \in Secrets
  BY <1>1, CommandFacts
<1>3. KeyOf(q)' = keyring[q]
  BY <1>1 DEF KeyOf
<1>4. CASE Touches(op.request)
  <2>1. keyring[q] = IF op.request.kind = "key" THEN op.request.key ELSE NoSecret
    BY <1>1, <1>4 DEF CommandInv
  <2>2. op.request.kind # "keep"
    BY <1>4 DEF Touches
  <2> QED BY <1>1, <1>2, <1>3, <2>1, <2>2, KeysAreKeys
<1>5. CASE ~Touches(op.request)
  <2>1. KeyOf(q) = keyring[q] /\ q \notin torn
    BY <1>1, <1>5 DEF KeyOf
  <2>2. (keyring[q] # NoSecret) <=> HasCredential(q)
    BY <1>1, <2>1 DEF StoresAgree
  <2>3. op.request.kind # "key" /\ (op.request.kind \in {"clear", "remove"} => ~HasCredential(q))
    BY <1>5 DEF Touches
  <2> QED BY <1>1, <1>2, <1>3, <2>2, <2>3
<1> QED BY <1>4, <1>5

\* A compensation that fails, or a crash, parts at most the provider of the
\* command.
LEMMA TearEffect ==
    ASSUME TypeOK, CommandInv, RestoreFails \/ Crash, NEW p \in Ids, p \notin torn'
    PROVE  KeyOf(p)' = KeyOf(p) /\ p \notin torn
<1>1. op # None /\ op' = None /\ keyring' = keyring /\ torn \subseteq torn'
  BY DEF RestoreFails, Crash, End, stores
<1>2. CASE p # op.request.provider
  BY <1>1, <1>2 DEF KeyOf
<1>3. CASE p = op.request.provider
  <2>1. op.step = "mutate" \/ ~Touches(op.request)
    BY <1>3 DEF RestoreFails, Crash
  <2> QED BY <1>1, <1>3, <2>1 DEF KeyOf
<1> QED BY <1>2, <1>3

\* The remaining steps change neither key nor credential.
Elsewhere ==
    \/ RefuseCommand
    \/ \E p \in Ids, result \in TestResults : test_provider(p, result)
    \/ \E m \in ModelIds : \E input \in ModelInputs[m] : upsert_model(m, input)
    \/ \E chosen \in SettingsInputs : update_application_settings(chosen)
    \/ \E selection \in ModelIds \cup {"auto"}, conversation \in Conversations :
           ai_fallback(selection, conversation)

LEMMA ElsewhereFacts ==
    ASSUME TypeOK, Elsewhere
    PROVE  /\ Keeping /\ op = None /\ op' = None /\ torn' = torn /\ keyring' = keyring
           /\ DOMAIN rows' = DOMAIN rows
           /\ \A p \in DOMAIN rows : rows'[p].cred = rows[p].cred
<1>1. /\ op = None /\ op' = None /\ torn' = torn /\ keyring' = keyring
  BY DEF Elsewhere, RefuseCommand, test_provider, upsert_model, update_application_settings,
         ai_fallback, End, stores
<1>2. ASSUME NEW p \in Ids, NEW result \in TestResults, test_provider(p, result)
      PROVE  /\ DOMAIN rows' = DOMAIN rows
             /\ \A q \in DOMAIN rows : rows'[q].cred = rows[q].cred
  <2>1. rows' = [rows EXCEPT ![p].status = test(rows[p], result)] /\ p \in DOMAIN rows
    BY <1>2 DEF test_provider
  <2>2. \A x \in Row : \A t : [x EXCEPT !.status = t].cred = x.cred
    BY DEF Row
  <2>3. \A q \in DOMAIN rows : rows[q] \in Row
    BY DEF TypeOK
  <2> QED BY <2>1, <2>2, <2>3
<1>3. CASE rows' = rows
  BY <1>1, <1>3 DEF Keeping
<1> QED BY <1>1, <1>2, <1>3 DEF Keeping, Elsewhere, RefuseCommand, upsert_model,
            update_application_settings, ai_fallback, stores

\* Every step is one of these.
LEMMA StepCases ==
    ASSUME [Next]_vars
    PROVE  \/ /\ Keeping
              /\ UNCHANGED <<rows, torn, tested>>
           \/ Write \/ RestoreFails \/ Crash \/ Elsewhere \/ UNCHANGED vars
<1>1. ASSUME NEW request \in Commands, NEW input \in Inputs \cup {None}, Start(request, input)
      PROVE  Keeping /\ UNCHANGED <<rows, torn, tested>>
  BY <1>1 DEF Keeping, Start, stores
<1>2. CASE Mutate \/ MutateFails \/ WriteFails \/ Restore
  BY <1>2 DEF Keeping, Mutate, MutateFails, WriteFails, Restore, stores
<1> QED BY <1>1, <1>2, StartsAreStarts DEF Next, Elsewhere

-----------------------------------------------------------------------------
(* The safety invariants.                                                    *)

LEMMA StoresStep ==
    ASSUME TypeOK, CommandInv, StoresAgree, [Next]_vars
    PROVE  StoresAgree'
<1> SUFFICES ASSUME NEW p \in Ids, p \notin torn'
             PROVE  (KeyOf(p)' # NoSecret) <=> HasCredential(p)'
  BY DEF StoresAgree
<1>0. ASSUME p \notin torn, KeyOf(p)' = KeyOf(p), HasCredential(p)' <=> HasCredential(p)
      PROVE  (KeyOf(p)' # NoSecret) <=> HasCredential(p)'
  BY <1>0 DEF StoresAgree
<1>1. CASE Keeping /\ UNCHANGED <<rows, torn, tested>>
  <2>1. HasCredential(p)' <=> HasCredential(p)
    BY <1>1 DEF HasCredential
  <2> QED BY <1>0, <1>1, <2>1, KeyIsKept
<1>2. CASE Elsewhere
  <2>1. HasCredential(p)' <=> HasCredential(p)
    BY <1>2, ElsewhereFacts DEF HasCredential
  <2> QED BY <1>0, <1>2, <2>1, ElsewhereFacts, KeyIsKept
<1>3. CASE Write
  <2>1. CASE p = op.request.provider
    BY <1>3, <2>1, WriteSettles
  <2>2. CASE p # op.request.provider
    <3>1. HasCredential(p)' <=> HasCredential(p)
      BY <1>3, <2>2, WriteLeavesOthers DEF HasCredential
    <3> QED BY <1>0, <1>3, <2>2, <3>1, WriteLeavesOthers
  <2> QED BY <2>1, <2>2
<1>4. CASE RestoreFails \/ Crash
  <2>1. HasCredential(p)' <=> HasCredential(p)
    BY <1>4 DEF RestoreFails, Crash, stores, HasCredential
  <2> QED BY <1>0, <1>4, <2>1, TearEffect
<1>5. CASE UNCHANGED vars
  <2>1. HasCredential(p)' <=> HasCredential(p)
    BY <1>5 DEF vars, HasCredential
  <2>2. KeyOf(p)' = KeyOf(p)
    BY <1>5 DEF vars, KeyOf, Touches, HasCredential
  <2> QED BY <1>0, <1>5, <2>1, <2>2 DEF vars
<1> QED BY <1>1, <1>2, <1>3, <1>4, <1>5, StepCases

LEMMA ConnectedStep ==
    ASSUME TypeOK, CommandInv, ConnectedIsCurrent, [Next]_vars
    PROVE  ConnectedIsCurrent'
<1> SUFFICES ASSUME NEW p \in DOMAIN rows', p \notin torn', rows'[p].status = "Connected"
             PROVE  tested'[p] = IF rows'[p].cred THEN KeyOf(p)' ELSE NoSecret
  BY DEF ConnectedIsCurrent
<1>0. ASSUME p \in DOMAIN rows, p \notin torn, KeyOf(p)' = KeyOf(p), rows'[p] = rows[p],
             tested'[p] = tested[p]
      PROVE  tested'[p] = IF rows'[p].cred THEN KeyOf(p)' ELSE NoSecret
  BY <1>0 DEF ConnectedIsCurrent
<1>1. CASE Keeping /\ UNCHANGED <<rows, torn, tested>>
  <2>1. p \in Ids
    BY <1>1 DEF TypeOK
  <2> QED BY <1>0, <1>1, <2>1, KeyIsKept
<1>2. CASE Elsewhere
  <2>1. /\ Keeping /\ op = None /\ op' = None /\ torn' = torn /\ keyring' = keyring
        /\ p \in DOMAIN rows /\ p \in Ids
    BY <1>2, ElsewhereFacts DEF TypeOK
  <2>2. KeyOf(p)' = KeyOf(p) /\ KeyOf(p)' = keyring[p]
    BY <2>1, KeyIsKept DEF KeyOf
  <2>3. CASE rows'[p] = rows[p] /\ tested'[p] = tested[p]
    BY <1>0, <2>1, <2>2, <2>3
  <2>4. ASSUME NEW q \in Ids, NEW result \in TestResults, test_provider(q, result)
        PROVE  tested'[p] = IF rows'[p].cred THEN KeyOf(p)' ELSE NoSecret
    <3>1. CASE p # q
      BY <2>3, <2>4, <3>1 DEF test_provider, TypeOK
    <3>2. CASE p = q
      <4>1. tested'[p] = Credential(p)
        BY <2>4, <3>2 DEF test_provider, TypeOK
      <4>2. rows'[p].cred = rows[p].cred
        BY <1>2, <2>1, ElsewhereFacts
      <4> QED BY <2>2, <4>1, <4>2 DEF Credential
    <3> QED BY <3>1, <3>2
  <2> QED BY <1>2, <2>3, <2>4 DEF Elsewhere, RefuseCommand, upsert_model,
             update_application_settings, ai_fallback, stores
<1>3. CASE Write
  <2>1. p \in Ids
    BY <1>3, WriteKeepsTables
  <2>2. p # op.request.provider
    BY <1>3, WriteEffect
  <2> QED BY <1>0, <1>3, <2>1, <2>2, WriteLeavesOthers
<1>4. CASE RestoreFails \/ Crash
  <2>1. rows' = rows /\ tested' = tested
    BY <1>4 DEF RestoreFails, Crash, stores
  <2>2. p \in Ids
    BY <2>1 DEF TypeOK
  <2> QED BY <1>0, <1>4, <2>1, <2>2, TearEffect
<1>5. CASE UNCHANGED vars
  <2>1. KeyOf(p)' = KeyOf(p)
    BY <1>5 DEF vars, KeyOf, Touches, HasCredential
  <2> QED BY <1>0, <1>5, <2>1 DEF vars
<1> QED BY <1>1, <1>2, <1>3, <1>4, <1>5, StepCases

\* What a model call sends and where to, by the route it took.
LEMMA CallsRespectPrivacy ==
    ASSUME TypeOK, NEW selection, NEW conversation, ai_fallback(selection, conversation)
    PROVE  PrivacyPolicyHolds'
<1> DEFINE m == ChatRoute(selection).model
           p == models[m].provider
           context == ChatContext(conversation)
<1>1. /\ UNCHANGED <<rows, keyring, models, settings>> /\ CredentialAvailable(p)
      /\ sent' = [provider |-> p, key |-> Credential(p), model |-> m, context |-> context]
      /\ select(settings, rows, models, selection, settings.personal) # NoRoute
  BY DEF ai_fallback, complete, stores, ChatRoute
<1>2. m \in DOMAIN models /\ eligible(settings, rows, models[m], settings.personal)
  BY <1>1, RouteIsEligible DEF ChatRoute
<1>3. /\ p \in DOMAIN rows /\ configured(rows[p]) /\ rows[p].privacy = models[m].privacy
      /\ privacy_allowed(settings, rows[p].privacy, settings.personal)
  BY <1>2 DEF eligible
<1>4. context.items # <<>> => settings.personal
  BY DEF ChatContext, Nothing
<1>5. rows[p].privacy = "Cloud" => /\ settings.cloud /\ rows[p].cred /\ Credential(p) # NoSecret
  BY <1>1, <1>3 DEF privacy_allowed, configured, CredentialAvailable, Credential
<1>6. rows[p].privacy = "Local" => settings.local
  BY <1>3 DEF privacy_allowed
<1>7. sent'.provider = p /\ sent'.key = Credential(p) /\ sent'.model = m /\ sent'.context = context
  BY <1>1
<1> HIDE DEF m, p, context
<1> QED BY <1>1, <1>3, <1>4, <1>5, <1>6, <1>7 DEF PrivacyPolicyHolds

LEMMA PrivacyStep ==
    ASSUME TypeOK, CommandInv, PrivacyPolicyHolds, [Next]_vars
    PROVE  PrivacyPolicyHolds'
<1>1. ASSUME sent' = None PROVE PrivacyPolicyHolds'
  BY <1>1 DEF PrivacyPolicyHolds
<1>2. ASSUME NEW request \in Commands, NEW input \in Inputs \cup {None}, Start(request, input)
      PROVE  PrivacyPolicyHolds'
  BY <1>1, <1>2 DEF Start
<1>3. CASE Mutate \/ WriteFails
  BY <1>1, <1>3 DEF Mutate, WriteFails, End, CommandInv
<1>4. CASE MutateFails \/ Restore \/ Write \/ RestoreFails \/ Crash \/ RefuseCommand
  BY <1>1, <1>4 DEF MutateFails, Restore, Write, RestoreFails, Crash, RefuseCommand, End
<1>5. ASSUME NEW p \in Ids, NEW result \in TestResults, test_provider(p, result)
      PROVE  PrivacyPolicyHolds'
  BY <1>1, <1>5 DEF test_provider
<1>6. ASSUME NEW m \in ModelIds, NEW input \in ModelInputs[m], upsert_model(m, input)
      PROVE  PrivacyPolicyHolds'
  BY <1>1, <1>6 DEF upsert_model
<1>7. ASSUME NEW chosen \in SettingsInputs, update_application_settings(chosen)
      PROVE  PrivacyPolicyHolds'
  BY <1>1, <1>7 DEF update_application_settings
<1>8. CASE UNCHANGED vars
  BY <1>8 DEF vars, PrivacyPolicyHolds
<1> QED BY <1>2, <1>3, <1>4, <1>5, <1>6, <1>7, <1>8, StartsAreStarts, CallsRespectPrivacy DEF Next

\* A step that calls a model sends a context built for the settings in force.
LEMMA BudgetStep ==
    ASSUME TypeOK, CommandInv, ContextFitsBudget, [Next]_vars
    PROVE  ContextFitsBudget'
<1>1. ASSUME sent' = None PROVE ContextFitsBudget'
  BY <1>1 DEF ContextFitsBudget
<1>2. ASSUME NEW request \in Commands, NEW input \in Inputs \cup {None}, Start(request, input)
      PROVE  ContextFitsBudget'
  BY <1>1, <1>2 DEF Start
<1>3. CASE Mutate \/ WriteFails
  BY <1>1, <1>3 DEF Mutate, WriteFails, End, CommandInv
<1>4. CASE MutateFails \/ Restore \/ Write \/ RestoreFails \/ Crash \/ RefuseCommand
  BY <1>1, <1>4 DEF MutateFails, Restore, Write, RestoreFails, Crash, RefuseCommand, End
<1>5. ASSUME NEW p \in Ids, NEW result \in TestResults, test_provider(p, result)
      PROVE  ContextFitsBudget'
  BY <1>1, <1>5 DEF test_provider
<1>6. ASSUME NEW m \in ModelIds, NEW input \in ModelInputs[m], upsert_model(m, input)
      PROVE  ContextFitsBudget'
  BY <1>1, <1>6 DEF upsert_model
<1>7. ASSUME NEW chosen \in SettingsInputs, update_application_settings(chosen)
      PROVE  ContextFitsBudget'
  BY <1>1, <1>7 DEF update_application_settings
<1>8. CASE UNCHANGED vars
  BY <1>8 DEF vars, ContextFitsBudget
<1>9. ASSUME NEW selection \in ModelIds \cup {"auto"}, NEW conversation \in Conversations,
             ai_fallback(selection, conversation)
      PROVE  ContextFitsBudget'
  <2>1. sent'.context = ChatContext(conversation) /\ settings' = settings
    BY <1>9 DEF ai_fallback, complete, stores
  <2>2. ChatContext(conversation).tokens <= settings.budget
    BY ContextsFit
  <2> QED BY <2>1, <2>2 DEF ContextFitsBudget
<1> QED BY <1>2, <1>3, <1>4, <1>5, <1>6, <1>7, <1>8, <1>9, StartsAreStarts DEF Next

LEMMA InvInit == Init => ProvidersInv
<1> SUFFICES ASSUME Init PROVE ProvidersInv
  OBVIOUS
<1>1. DOMAIN rows = {} /\ DOMAIN models = {}
  BY DEF Init
<1>2. op = None /\ sent = None /\ keyring = [p \in Ids |-> NoSecret] /\ torn = {}
  BY DEF Init
<1>3. TypeOK
  BY <1>1, <1>2, ConstantsAssumption DEF Init, TypeOK
<1>4. CommandInv /\ PrivacyPolicyHolds
  BY <1>2 DEF CommandInv, PrivacyPolicyHolds
<1>5. StoresAgree
  BY <1>1, <1>2 DEF StoresAgree, KeyOf, HasCredential
<1>6. ConnectedIsCurrent
  BY <1>1 DEF ConnectedIsCurrent
<1> QED BY <1>3, <1>4, <1>5, <1>6 DEF ProvidersInv

\* The inductive invariant of the provider commands.
THEOREM InvariantHolds == Spec => []ProvidersInv
<1>1. ProvidersInv /\ [Next]_vars => ProvidersInv'
  BY TypeStep, CommandStep, StoresStep, ConnectedStep, PrivacyStep DEF ProvidersInv
<1> QED BY <1>1, InvInit, PTL DEF Spec

\* Rows, keyring, models and the command under way keep their types, whatever
\* fails and wherever the daemon crashes.
THEOREM TypeCorrect == Spec => []TypeOK
<1>1. ProvidersInv => TypeOK
  BY DEF ProvidersInv
<1> QED BY <1>1, InvariantHolds, PTL

\* A row refers to a key exactly when the keyring has one, for every provider
\* that no crash or failed compensation parted.
THEOREM StoresStayTogether == Spec => []StoresAgree
<1>1. ProvidersInv => StoresAgree
  BY DEF ProvidersInv
<1> QED BY <1>1, InvariantHolds, PTL

\* A provider shown as Connected was tested with the key it has now.
THEOREM ConnectedStaysCurrent == Spec => []ConnectedIsCurrent
<1>1. ProvidersInv => ConnectedIsCurrent
  BY DEF ProvidersInv
<1> QED BY <1>1, InvariantHolds, PTL

\* No model call leaves against the privacy settings, however its model was
\* selected and whatever changed since.
THEOREM CallsStayPrivate == Spec => []PrivacyPolicyHolds
<1>1. ProvidersInv => PrivacyPolicyHolds
  BY DEF ProvidersInv
<1> QED BY <1>1, InvariantHolds, PTL

\* However many messages there are and whichever were too long, what is sent of
\* a conversation is within the budget in force (context.rs build).
THEOREM ContextsStayInBudget == Spec => []ContextFitsBudget
<1>1. Init => ContextFitsBudget
  BY DEF Init, ContextFitsBudget
<1>2. ProvidersInv /\ ContextFitsBudget /\ [Next]_vars => ContextFitsBudget'
  BY BudgetStep DEF ProvidersInv
<1> QED BY <1>1, <1>2, InvariantHolds, PTL DEF Spec

\* A personal context never leaves against the settings, so that it makes no
\* difference to the route whether one is asked for with or without.
LEMMA RouteIgnoresSession ==
    ASSUME TypeOK, NEW selection, NEW session \in BOOLEAN
    PROVE  PreviewRoute(selection, session) = ChatRoute(selection)
<1> DEFINE personal == settings.personal /\ session
<1>1. \A privacy : privacy_allowed(settings, privacy, personal)
                       <=> privacy_allowed(settings, privacy, settings.personal)
  BY DEF privacy_allowed
<1>2. \A model : eligible(settings, rows, model, personal)
                     <=> eligible(settings, rows, model, settings.personal)
  BY <1>1 DEF eligible
<1>3. fit(settings, rows, models, personal) = fit(settings, rows, models, settings.personal)
  BY <1>2 DEF fit
<1>4. last(settings, rows, models, personal) = last(settings, rows, models, settings.personal)
  BY <1>3 DEF last
<1>5. select(settings, rows, models, selection, personal)
          = select(settings, rows, models, selection, settings.personal)
  BY <1>3, <1>4, Zenon DEF select
<1> QED BY <1>5 DEF PreviewRoute, ChatRoute

\* What preview_ai_request shows is what the chat does: the same route with a
\* session or without, and some conversation whenever some is sent.
THEOREM PreviewsAreHonest == Spec => []PreviewIsHonest
<1>1. TypeOK => PreviewIsHonest
  <2> SUFFICES ASSUME TypeOK, NEW selection \in ModelIds \cup {"auto"}, NEW session \in BOOLEAN
               PROVE  /\ PreviewRoute(selection, session) = ChatRoute(selection)
                      /\ \A conversation \in Conversations :
                             Len(ChatContext(conversation).items) > 0
                                 => Len(PreviewContext(conversation, TRUE).items) > 0
    BY DEF PreviewIsHonest
  <2>1. ASSUME NEW conversation \in Conversations, Len(ChatContext(conversation).items) > 0
        PROVE  Len(PreviewContext(conversation, TRUE).items) > 0
    <3> DEFINE shorter == newest(conversation, Window - 1)
               longer == newest(conversation, Window)
               budget == settings.budget
    <3>1. conversation \in Seq(Nat) /\ Window - 1 \in Nat /\ (Window - 1) + 1 = Window
      BY ConstantsAssumption
    <3>2. budget \in Nat
      BY SettingsFacts
    <3>3. settings.personal
      BY <2>1 DEF ChatContext, Nothing
    <3>4. ChatContext(conversation) = build(shorter, budget)
      BY <3>3 DEF ChatContext
    <3>5. PreviewContext(conversation, TRUE) = build(longer, budget)
      BY <3>3 DEF PreviewContext
    <3>6. /\ shorter \in Seq(Nat) /\ longer \in Seq(Nat)
          /\ \A i \in 1..Len(shorter) : \E j \in 1..Len(longer) : longer[j] = shorter[i]
      <4>1. longer = newest(conversation, (Window - 1) + 1)
        BY <3>1
      <4> HIDE DEF shorter, longer
      <4> QED BY <3>1, <4>1, NewestGrows DEF shorter
    <3> HIDE DEF shorter, longer, budget
    <3>7. build(shorter, budget).items # <<>>
      BY <2>1, <3>4
    <3>8. PICK i \in 1..Len(shorter) : ~(shorter[i] > budget)
      <4>1. build(shorter, budget).items = <<>> <=> \A i \in 1..Len(shorter) : shorter[i] > budget
        BY <3>2, <3>6, BuildFacts
      <4> QED BY <3>7, <4>1, Zenon
    <3>9. PICK j \in 1..Len(longer) : longer[j] = shorter[i]
      BY <3>6
    <3>10. build(longer, budget).items # <<>> /\ build(longer, budget).items \in Seq(Nat)
      <4>1. /\ build(longer, budget) \in Contexts
            /\ build(longer, budget).items = <<>> <=> \A k \in 1..Len(longer) : longer[k] > budget
        BY <3>2, <3>6, BuildFacts
      <4> QED BY <3>8, <3>9, <4>1 DEF Contexts
    <3>11. \A s \in Seq(Nat) : s # <<>> => Len(s) > 0
      BY EmptySeq
    <3> QED BY <3>5, <3>10, <3>11
  <2> QED BY <2>1, RouteIgnoresSession
<1> QED BY <1>1, TypeCorrect, PTL

\* Under the prefer-local presets only a priority more than 900 higher takes
\* the automatic route away from a local model.
THEOREM LocalStaysPreferred == Spec => []LocalIsPreferred
<1>1. TypeOK => LocalIsPreferred
  <2> DEFINE m == ChatRoute("auto").model
  <2> SUFFICES ASSUME TypeOK, settings.preset \in {"MinimizeAiUsage", "PreferLocal"},
                      ChatRoute("auto") # NoRoute, NEW n \in DOMAIN models,
                      eligible(settings, rows, models[n], settings.personal),
                      models[n].privacy = "Local", models[m].privacy = "Cloud"
               PROVE  models[m].priority - models[n].priority > 900
    BY DEF LocalIsPreferred
  <2>1. m \in last(settings, rows, models, settings.personal) /\ m \in DOMAIN models
    BY RouteIsEligible DEF ChatRoute
  <2>2. n \in fit(settings, rows, models, settings.personal)
    BY DEF fit
  <2>3. ~sorted_after(settings.preset, models[n], models[m])
    BY <2>1, <2>2 DEF last
  <2>4. models[n] \in ModelRow /\ models[m] \in ModelRow
    BY <2>1 DEF TypeOK
  <2> HIDE DEF m
  <2> QED BY <2>3, <2>4, LocalBonus
<1> QED BY <1>1, TypeCorrect, PTL

-----------------------------------------------------------------------------
(* Providers implements Vault.                                               *)

\* The abstract state as a function of the concrete one.
Held == [p \in Ids |-> HeldBy(p)]
Asked == IF op = None THEN None ELSE op.request
SentKey == IF sent = None THEN None ELSE [provider |-> sent.provider, key |-> sent.key]

LEMMA HeldIsKept ==
    ASSUME NEW p \in Ids, KeyOf(p)' = KeyOf(p), p \in torn' <=> p \in torn,
           p \in DOMAIN rows' <=> p \in DOMAIN rows,
           p \in DOMAIN rows => rows'[p].cred = rows[p].cred
    PROVE  HeldBy(p)' = HeldBy(p)
BY DEF HeldBy

\* What the acknowledged command leaves is one of the outcomes Vault allows.
LEMMA WriteOutcome ==
    ASSUME TypeOK, CommandInv, Write, NEW q, q = op.request.provider
    PROVE  HeldBy(q)' \in V!Outcomes(HeldBy(q), op.request)
<1>1. /\ op # None /\ op.step = "write" /\ op.request \in Commands /\ q \in Ids /\ op' = None
      /\ keyring' = keyring
      /\ torn' = IF Touches(op.request) THEN torn \ {q} ELSE torn
      /\ q \in DOMAIN rows' <=> op.request.kind # "remove"
      /\ HasCredential(q)' <=>
          (op.request.kind = "key" \/ (op.request.kind = "keep" /\ HasCredential(q)))
  BY WriteEffect, OperationFacts
<1>2. /\ op.request.kind \in {"key", "keep", "clear", "remove"}
      /\ op.request.kind = "key" => op.request.key \in Secrets
  BY <1>1, CommandFacts
<1>3. KeyOf(q)' = keyring[q]
  BY <1>1 DEF KeyOf
<1>4. Touches(op.request) => keyring[q] = IF op.request.kind = "key" THEN op.request.key ELSE NoSecret
  BY <1>1 DEF CommandInv
<1>5. ~Touches(op.request) => KeyOf(q) = keyring[q]
  BY <1>1 DEF KeyOf
<1>6. CASE op.request.kind = "key"
  <2>1. Touches(op.request)
    BY <1>6 DEF Touches
  <2>2. q \notin torn' /\ q \in DOMAIN rows' /\ rows'[q].cred
    BY <1>1, <1>6, <2>1 DEF HasCredential
  <2>3. HeldBy(q)' = op.request.key
    BY <1>3, <1>4, <1>6, <2>1, <2>2 DEF HeldBy
  <2> QED BY <1>6, <2>3 DEF V!Outcomes
<1>7. CASE op.request.kind = "keep"
  <2>1. ~Touches(op.request) /\ torn' = torn /\ q \in DOMAIN rows'
    BY <1>1, <1>7 DEF Touches
  <2>2. rows'[q].cred <=> HasCredential(q)
    BY <1>1, <1>7, <2>1 DEF HasCredential
  <2>3. CASE q \in torn
    BY <1>7, <2>1, <2>3, MarksDiffer DEF HeldBy, V!Outcomes
  <2>4. CASE q \notin torn /\ q \notin DOMAIN rows
    <3>1. HeldBy(q) = Absent /\ HeldBy(q)' = NoSecret
      BY <2>1, <2>2, <2>4 DEF HeldBy, HasCredential
    <3> QED BY <1>7, <3>1 DEF V!Outcomes
  <2>5. CASE q \notin torn /\ q \in DOMAIN rows
    <3>1. HeldBy(q)' = HeldBy(q)
      BY <1>3, <1>5, <2>1, <2>2, <2>5 DEF HeldBy, HasCredential
    <3>2. keyring[q] # Absent
      BY <1>1, KeysAreKeys, MarksDiffer DEF TypeOK
    <3>3. HeldBy(q) # Absent
      BY <1>5, <2>1, <2>5, <3>2, MarksDiffer DEF HeldBy
    <3> QED BY <1>7, <3>1, <3>3 DEF V!Outcomes
  <2> QED BY <2>3, <2>4, <2>5
<1>8. CASE op.request.kind = "clear"
  <2>1. q \in DOMAIN rows' /\ ~rows'[q].cred
    BY <1>1, <1>8 DEF HasCredential
  <2>2. CASE q \in torn'
    <3>1. HeldBy(q)' = Unknown /\ HeldBy(q) = Unknown
      BY <1>1, <2>2 DEF HeldBy
    <3> QED BY <1>8, <3>1 DEF V!Outcomes
  <2>3. CASE q \notin torn'
    <3>1. HeldBy(q)' = NoSecret
      BY <2>1, <2>3 DEF HeldBy
    <3> QED BY <1>8, <3>1 DEF V!Outcomes
  <2> QED BY <2>2, <2>3
<1>9. CASE op.request.kind = "remove"
  <2>1. q \notin DOMAIN rows'
    BY <1>1, <1>9
  <2>2. CASE q \in torn'
    <3>1. HeldBy(q)' = Unknown /\ HeldBy(q) = Unknown
      BY <1>1, <2>2 DEF HeldBy
    <3> QED BY <1>9, <3>1 DEF V!Outcomes
  <2>3. CASE q \notin torn'
    <3>1. HeldBy(q)' = Absent
      BY <2>1, <2>3 DEF HeldBy
    <3> QED BY <1>9, <3>1 DEF V!Outcomes
  <2> QED BY <2>2, <2>3
<1> QED BY <1>2, <1>6, <1>7, <1>8, <1>9

LEMMA AskedCommand ==
    ASSUME TypeOK, op # None
    PROVE  /\ Asked = op.request /\ Asked \in Commands /\ Asked # None
           /\ Asked.provider \in Ids
BY OperationFacts, CommandFacts DEF Asked, TypeOK

\* The steps that change no row, key or mark as Vault sees them.
LEMMA KeepingKeepsHeld ==
    ASSUME TypeOK, CommandInv, Keeping, UNCHANGED <<rows, torn>>
    PROVE  Held' = Held
<1>1. \A p \in Ids : HeldBy(p)' = HeldBy(p)
  BY KeyIsKept, HeldIsKept
<1> QED BY <1>1 DEF Held

LEMMA ElsewhereKeepsHeld ==
    ASSUME TypeOK, CommandInv, Elsewhere
    PROVE  Held' = Held
<1>1. \A p \in Ids : HeldBy(p)' = HeldBy(p)
  BY ElsewhereFacts, KeyIsKept, HeldIsKept
<1> QED BY <1>1 DEF Held

\* Starting a command is Ask.
LEMMA StartIsAsk ==
    ASSUME TypeOK, CommandInv, NEW request \in Commands, NEW input \in Inputs \cup {None},
           Start(request, input)
    PROVE  V!Next
<1>1. Keeping /\ UNCHANGED <<rows, torn>>
  BY DEF Keeping, Start, stores
<1>2. Held' = Held
  BY <1>1, KeepingKeepsHeld
<1>3. Asked = None /\ Asked' = request /\ SentKey' = None /\ reply' = "none"
  BY StartFacts DEF Asked, SentKey
<1>4. V!Ask(request)
  BY <1>2, <1>3 DEF V!Ask, Held, Asked, SentKey
<1>5. request \in V!Commands
  BY DEF V!Commands, Commands
<1> QED BY <1>4, <1>5 DEF V!Next

\* A command that ends without effect is Refuse.
LEMMA KeepingEndIsRefuse ==
    ASSUME TypeOK, CommandInv, Keeping, UNCHANGED <<rows, torn>>, op # None, op' = None,
           reply' \in {"error", "lost"}, sent' = None
    PROVE  V!Next
<1>1. Held' = Held /\ Asked # None /\ Asked' = None /\ SentKey' = None
  BY KeepingKeepsHeld, AskedCommand DEF Asked, SentKey
<1>2. V!Refuse
  BY <1>1 DEF V!Refuse, Held, Asked, SentKey
<1> QED BY <1>2 DEF V!Next

\* Changing the keyring, or turning to the compensation, cannot be seen.
LEMMA KeepingStutters ==
    ASSUME TypeOK, CommandInv, Keeping, UNCHANGED <<rows, torn, reply, sent>>,
           op # None, op' # None, op'.request = op.request
    PROVE  UNCHANGED V!vars
<1>1. Held' = Held /\ Asked' = Asked /\ SentKey' = SentKey
  BY KeepingKeepsHeld DEF Asked, SentKey
<1> QED BY <1>1 DEF V!vars, Held, Asked, SentKey

LEMMA WriteIsAcknowledge ==
    ASSUME TypeOK, CommandInv, Write
    PROVE  V!Next
<1>1. op # None /\ op' = None /\ reply' = "ok" /\ sent' = None
  BY DEF Write, End
<1>2. /\ Asked = op.request /\ Asked # None /\ Asked.provider \in Ids
      /\ Asked' = None /\ SentKey' = None
  BY <1>1, AskedCommand DEF Asked, SentKey
<1>3. PICK q \in Ids : q = op.request.provider
  BY <1>2
<1>4. HeldBy(q)' \in V!Outcomes(HeldBy(q), op.request)
  BY <1>3, WriteOutcome
<1>5. \A p \in Ids : p # q => HeldBy(p)' = HeldBy(p)
  BY <1>3, WriteLeavesOthers, HeldIsKept
<1>6. Held' = [Held EXCEPT ![q] = HeldBy(q)'] /\ Held[q] = HeldBy(q)
  BY <1>3, <1>5 DEF Held
<1>7. \E held \in V!Outcomes(Held[Asked.provider], Asked) :
          Held' = [Held EXCEPT ![Asked.provider] = held]
  BY <1>2, <1>3, <1>4, <1>6
<1>8. V!Acknowledge
  BY <1>1, <1>2, <1>7 DEF V!Acknowledge, Held, Asked, SentKey
<1> QED BY <1>8 DEF V!Next

LEMMA TearIsTear ==
    ASSUME TypeOK, CommandInv,
           \/ RestoreFails
           \/ Crash /\ op.step # "mutate" /\ Touches(op.request)
    PROVE  V!Next
<1>1. /\ op # None /\ op' = None /\ reply' \in {"error", "lost"} /\ sent' = None
      /\ torn' = torn \cup {op.request.provider} /\ UNCHANGED <<rows, keyring>>
  BY DEF RestoreFails, Crash, End, stores
<1>2. /\ Asked = op.request /\ Asked # None /\ Asked.provider \in Ids
      /\ Asked' = None /\ SentKey' = None
  BY <1>1, AskedCommand DEF Asked, SentKey
<1>3. PICK q \in Ids : q = op.request.provider
  BY <1>2
<1>4. HeldBy(q)' = Unknown
  BY <1>1, <1>3 DEF HeldBy
<1>5. ASSUME NEW p \in Ids, p # q
      PROVE  HeldBy(p)' = HeldBy(p)
  <2>1. KeyOf(p)' = KeyOf(p)
    BY <1>1, <1>3, <1>5 DEF KeyOf
  <2> QED BY <1>1, <1>3, <1>5, <2>1, HeldIsKept
<1>6. Held' = [Held EXCEPT ![Asked.provider] = Unknown]
  BY <1>2, <1>3, <1>4, <1>5 DEF Held
<1>7. V!Tear
  BY <1>1, <1>2, <1>6 DEF V!Tear, Held, Asked, SentKey
<1> QED BY <1>7 DEF V!Next

\* A crash with nothing changed yet is a Refuse whose answer is lost.
LEMMA EarlyCrashIsRefuse ==
    ASSUME TypeOK, CommandInv, Crash, op.step = "mutate" \/ ~Touches(op.request)
    PROVE  V!Next
<1>1. /\ op # None /\ op' = None /\ reply' \in {"error", "lost"} /\ sent' = None
      /\ UNCHANGED <<rows, keyring, torn>>
  BY DEF Crash, End, stores
<1>2. \A p \in Ids : KeyOf(p)' = KeyOf(p)
  BY <1>1 DEF KeyOf
<1>3. \A p \in Ids : HeldBy(p)' = HeldBy(p)
  BY <1>1, <1>2, HeldIsKept
<1>4. Held' = Held /\ Asked # None /\ Asked' = None /\ SentKey' = None
  BY <1>1, <1>3, AskedCommand DEF Held, Asked, SentKey
<1>5. V!Refuse
  BY <1>1, <1>4 DEF V!Refuse, Held, Asked, SentKey
<1> QED BY <1>5 DEF V!Next

\* A model call is sent the key its provider holds.
LEMMA CallIsSend ==
    ASSUME TypeOK, CommandInv, Elsewhere, NEW selection, NEW conversation,
           ai_fallback(selection, conversation)
    PROVE  V!Next
<1> DEFINE m == ChatRoute(selection).model
           p == models[m].provider
<1>1. /\ op = None /\ UNCHANGED op /\ reply' = "none"
      /\ sent'.provider = p /\ sent'.key = Credential(p)
      /\ select(settings, rows, models, selection, settings.personal) # NoRoute
  BY DEF ai_fallback, complete, stores, ChatRoute
<1>2. p \in DOMAIN rows
  BY <1>1, RouteIsEligible DEF ChatRoute, eligible
<1>3. p \in Ids /\ Credential(p) \in Secrets \cup {NoSecret}
  BY <1>2 DEF TypeOK, Credential
<1>4. HeldBy(p) \in {Credential(p), Unknown} /\ HeldBy(p) # Absent
  BY <1>1, <1>2, <1>3, KeysAreKeys, MarksDiffer DEF HeldBy, KeyOf, Credential
<1>5. Held' = Held /\ Asked = None /\ Asked' = None
  BY <1>1, ElsewhereKeepsHeld DEF Asked
<1>6. CASE sent' = None
  <2>1. V!Other
    BY <1>1, <1>5, <1>6 DEF V!Other, Held, Asked
  <2> QED BY <2>1 DEF V!Next
<1>7. CASE sent' # None
  <2>1. SentKey' = [provider |-> p, key |-> Credential(p)]
    BY <1>1, <1>7 DEF SentKey
  <2>2. Held[p] \in {Credential(p), Unknown} /\ Held[p] # Absent
    BY <1>3, <1>4 DEF Held
  <2> HIDE DEF p, m
  <2>3. V!Send(p)
    BY <1>1, <1>3, <1>5, <2>1, <2>2 DEF V!Send, Held, Asked, SentKey
  <2> QED BY <1>3, <2>3 DEF V!Next
<1> QED BY <1>6, <1>7

LEMMA ElsewhereRefines ==
    ASSUME TypeOK, CommandInv, Elsewhere
    PROVE  V!Next
<1>1. ASSUME reply' \in {"none", "error"}, sent' = None PROVE V!Next
  <2>1. Held' = Held /\ Asked' = Asked /\ SentKey' = None
    BY <1>1, ElsewhereKeepsHeld, ElsewhereFacts DEF Asked, SentKey
  <2>2. V!Other
    BY <1>1, <2>1 DEF V!Other, Held, Asked, SentKey
  <2> QED BY <2>2 DEF V!Next
<1> QED BY <1>1, CallIsSend DEF Elsewhere, RefuseCommand, test_provider, upsert_model,
            update_application_settings, End

\* Every step of Providers is a step of Vault or invisible there.
LEMMA StepRefines ==
    ASSUME TypeOK, CommandInv, [Next]_vars
    PROVE  [V!Next]_V!vars
<1>1. CASE Mutate \/ (WriteFails /\ Touches(op.request))
  <2>1. /\ op \in Operations /\ op # None /\ UNCHANGED <<rows, torn, reply, sent>>
        /\ \E step \in {"write", "restore"} : op' = [op EXCEPT !.step = step]
    BY <1>1 DEF Mutate, WriteFails, stores, TypeOK
  <2>2. op' # None /\ op'.request = op.request
    <3>1. PICK step \in {"write", "restore"} : op' = [op EXCEPT !.step = step]
      BY <2>1
    <3>2. op' \in Operations /\ op'.request = op.request
      BY <2>1, <3>1, OperationMoves
    <3> QED BY <3>2, OperationFacts
  <2> QED BY <1>1, <2>1, <2>2, KeepingStutters DEF Keeping
<1>2. CASE MutateFails \/ Restore \/ (WriteFails /\ ~Touches(op.request))
  <2>1. /\ Keeping /\ UNCHANGED <<rows, torn>> /\ op # None /\ op' = None
        /\ reply' = "error" /\ sent' = None
    BY <1>2 DEF Keeping, MutateFails, Restore, WriteFails, End, stores
  <2> QED BY <2>1, KeepingEndIsRefuse
<1>3. CASE Write
  BY <1>3, WriteIsAcknowledge
<1>4. CASE RestoreFails \/ Crash
  BY <1>4, TearIsTear, EarlyCrashIsRefuse
<1>5. CASE Elsewhere
  BY <1>5, ElsewhereRefines
<1>6. CASE UNCHANGED vars
  BY <1>6 DEF vars, V!vars, HeldBy, KeyOf, Touches, HasCredential
<1> QED BY <1>1, <1>2, <1>3, <1>4, <1>5, <1>6, StartIsAsk, StartsAreStarts DEF Next, Elsewhere

\* The row in SQLite and the key in the keyring behave as the one store of
\* Vault: every acknowledged command took effect, every refused one did not,
\* every call carries the key its provider holds, and only a crash or a failed
\* compensation leaves a provider Unknown.
THEOREM ProvidersImplementVault == Spec => ActsAsOneStore
<1>1. Init => V!Init
  <2> SUFFICES ASSUME Init PROVE V!Init
    OBVIOUS
  <2>1. DOMAIN rows = {}
    <3>1. rows = <<>>
      BY DEF Init
    <3> QED BY <3>1
  <2>2. torn = {}
    BY DEF Init
  <2>3. \A p \in Ids : HeldBy(p) = Absent
    BY <2>1, <2>2 DEF HeldBy
  <2> QED BY <2>3 DEF Init, V!Init
<1>2. ProvidersInv /\ [Next]_vars => [V!Next]_V!vars
  BY StepRefines DEF ProvidersInv
<1> QED BY <1>1, <1>2, InvariantHolds, PTL DEF Spec, ActsAsOneStore, V!Spec
=============================================================================
