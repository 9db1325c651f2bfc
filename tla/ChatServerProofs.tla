-------------------------- MODULE ChatServerProofs --------------------------
(***************************************************************************)
(* Proofs about ChatServer, for any number of connections and request ids.   *)
(***************************************************************************)
EXTENDS ChatServer, TLAPS

\* The fields of a row other than the ones in fs are as in another.
SameBut(fs, new, old) ==
    /\ "stage" \notin fs => new.stage = old.stage
    /\ "kind" \notin fs => new.kind = old.kind
    /\ "id" \notin fs => new.id = old.id
    /\ "signal" \notin fs => new.signal = old.signal
    /\ "provider" \notin fs => new.provider = old.provider
    /\ "outcome" \notin fs => new.outcome = old.outcome

\* The update of one field of a connection's row.
LEMMA SetField ==
    ASSUME NEW row \in ConnRow
    PROVE  /\ \A v \in Stages :
                 /\ [row EXCEPT !.stage = v] \in ConnRow
                 /\ [row EXCEPT !.stage = v].stage = v
                 /\ SameBut({"stage"}, [row EXCEPT !.stage = v], row)
           /\ \A v \in Kinds \cup {"none"} :
                 /\ [row EXCEPT !.kind = v] \in ConnRow
                 /\ [row EXCEPT !.kind = v].kind = v
                 /\ SameBut({"kind"}, [row EXCEPT !.kind = v], row)
           /\ \A v \in Ids \cup {"none"} :
                 /\ [row EXCEPT !.id = v] \in ConnRow
                 /\ [row EXCEPT !.id = v].id = v
                 /\ SameBut({"id"}, [row EXCEPT !.id = v], row)
           /\ \A v \in BOOLEAN :
                 /\ [row EXCEPT !.signal = v] \in ConnRow
                 /\ [row EXCEPT !.signal = v].signal = v
                 /\ SameBut({"signal"}, [row EXCEPT !.signal = v], row)
           /\ \A v \in {"none", "pending", "ready"} :
                 /\ [row EXCEPT !.provider = v] \in ConnRow
                 /\ [row EXCEPT !.provider = v].provider = v
                 /\ SameBut({"provider"}, [row EXCEPT !.provider = v], row)
           /\ \A v \in {"none", "answer", "cancelled"} :
                 /\ [row EXCEPT !.outcome = v] \in ConnRow
                 /\ [row EXCEPT !.outcome = v].outcome = v
                 /\ SameBut({"outcome"}, [row EXCEPT !.outcome = v], row)
<1>1. \A v \in Stages :
        /\ [row EXCEPT !.stage = v] \in ConnRow
        /\ [row EXCEPT !.stage = v].stage = v
        /\ SameBut({"stage"}, [row EXCEPT !.stage = v], row)
  BY DEF ConnRow, SameBut
<1>2. \A v \in Kinds \cup {"none"} :
        /\ [row EXCEPT !.kind = v] \in ConnRow
        /\ [row EXCEPT !.kind = v].kind = v
        /\ SameBut({"kind"}, [row EXCEPT !.kind = v], row)
  BY DEF ConnRow, SameBut
<1>3. \A v \in Ids \cup {"none"} :
        /\ [row EXCEPT !.id = v] \in ConnRow
        /\ [row EXCEPT !.id = v].id = v
        /\ SameBut({"id"}, [row EXCEPT !.id = v], row)
  BY DEF ConnRow, SameBut
<1>4. \A v \in BOOLEAN :
        /\ [row EXCEPT !.signal = v] \in ConnRow
        /\ [row EXCEPT !.signal = v].signal = v
        /\ SameBut({"signal"}, [row EXCEPT !.signal = v], row)
  BY DEF ConnRow, SameBut
<1>5. \A v \in {"none", "pending", "ready"} :
        /\ [row EXCEPT !.provider = v] \in ConnRow
        /\ [row EXCEPT !.provider = v].provider = v
        /\ SameBut({"provider"}, [row EXCEPT !.provider = v], row)
  BY DEF ConnRow, SameBut
<1>6. \A v \in {"none", "answer", "cancelled"} :
        /\ [row EXCEPT !.outcome = v] \in ConnRow
        /\ [row EXCEPT !.outcome = v].outcome = v
        /\ SameBut({"outcome"}, [row EXCEPT !.outcome = v], row)
  BY DEF ConnRow, SameBut
<1> QED BY <1>1, <1>2, <1>3, <1>4, <1>5, <1>6

HandlerStages == {"handling", "calling", "committed"}
LiveStages == {"registered", "queued", "cleanup"} \cup HandlerStages

\* A request just read carries no signal of an earlier one in its slot, and only
\* a signal makes an outcome cancelled.
RowOK(row) ==
    /\ row.stage \in {"accepted", "free"} => ~row.signal /\ row.outcome = "none"
    /\ row.outcome = "cancelled" => row.signal

\* The registry's entry under id is for row.
EntryOK(id, row) ==
    row.stage \in LiveStages /\ row.kind = "chat" /\ row.id = id /\ ~row.signal

\* OneHandlerAtATime needs that the mutex has one holder; RegistryIsExact that a
\* task without a chat is never registered and that rows start without a signal.
ServerInv ==
    /\ TypeOK
    /\ OneHandlerAtATime
    /\ \A a, b \in holder : a = b
    /\ \A c \in Slots : RowOK(conn[c])
    /\ \A id \in DOMAIN registry : EntryOK(id, conn[registry[id]])

\* A step of one connection that keeps its own row, the mutex and the registry
\* in agreement keeps ServerInv.
LEMMA ConnectionStep ==
    ASSUME ServerInv, NEW c \in Slots, NEW row \in ConnRow,
           conn' = [conn EXCEPT ![c] = row],
           RowOK(row),
           \/ holder' = holder /\ (row.stage \in HandlerStages <=> InHandler(c))
           \/ holder = {} /\ holder' = {c} /\ row.stage \in HandlerStages
           \/ InHandler(c) /\ holder' = {} /\ row.stage \notin HandlerStages,
           registry' \in [DOMAIN registry' -> Slots], DOMAIN registry' \subseteq Ids,
           \A id \in DOMAIN registry' :
              IF registry'[id] = c THEN EntryOK(id, row)
              ELSE id \in DOMAIN registry /\ registry'[id] = registry[id],
           queue' \in Seq(Slots \cup {Main}), mode' \in {"serving", "stopping", "down"}
    PROVE  ServerInv'
<1>1. /\ conn' \in [Slots -> ConnRow]
      /\ \A t \in Slots : conn'[t] = IF t = c THEN row ELSE conn[t]
  BY DEF ServerInv, TypeOK
<1>2. holder \subseteq Slots /\ \A t \in Slots : t \in holder <=> conn[t].stage \in HandlerStages
  BY DEF ServerInv, TypeOK, OneHandlerAtATime, InHandler, HandlerStages
<1>3. /\ holder' \subseteq Slots /\ \A a, b \in holder' : a = b
      /\ \A t \in Slots : t \in holder' <=> conn'[t].stage \in HandlerStages
  BY <1>1, <1>2 DEF ServerInv, InHandler, HandlerStages
<1>4. OneHandlerAtATime'
  BY <1>3 DEF OneHandlerAtATime, InHandler, HandlerStages
<1>5. TypeOK'
  BY <1>1, <1>3 DEF TypeOK
<1>6. \A t \in Slots : RowOK(conn'[t])
  BY <1>1 DEF ServerInv
<1>7. \A id \in DOMAIN registry' : EntryOK(id, conn'[registry'[id]])
  BY <1>1 DEF ServerInv
<1> QED BY <1>3, <1>4, <1>5, <1>6, <1>7 DEF ServerInv

\* What the invariant says of the task c and the entries that point at it.
LEMMA OwnEntries ==
    ASSUME ServerInv, NEW c \in Slots
    PROVE  /\ conn[c] \in ConnRow /\ RowOK(conn[c])
           /\ registry \in [DOMAIN registry -> Slots] /\ DOMAIN registry \subseteq Ids
           /\ \A id \in DOMAIN registry : registry[id] = c => EntryOK(id, conn[c])
           /\ queue \in Seq(Slots \cup {Main}) /\ mode \in {"serving", "stopping", "down"}
  BY DEF ServerInv, TypeOK

LEMMA IdleRow == Idle \in ConnRow /\ RowOK(Idle) /\ Idle.stage = "free"
  BY DEF Idle, ConnRow, Stages, RowOK

\* A step that gives c's row a new stage, kind or provider state, registry
\* untouched.
LEMMA StageStep ==
    ASSUME ServerInv, NEW c \in Slots, NEW row \in ConnRow,
           conn' = [conn EXCEPT ![c] = row],
           row.signal = conn[c].signal, row.id = conn[c].id, row.outcome = conn[c].outcome,
           row.kind = conn[c].kind, row.stage \in LiveStages,
           \/ holder' = holder /\ (row.stage \in HandlerStages <=> InHandler(c))
           \/ holder = {} /\ holder' = {c} /\ row.stage \in HandlerStages,
           UNCHANGED registry,
           queue' \in Seq(Slots \cup {Main}), mode' \in {"serving", "stopping", "down"}
    PROVE  ServerInv'
<1>1. RowOK(row)
  BY OwnEntries DEF RowOK, LiveStages, HandlerStages
<1>2. \A id \in DOMAIN registry :
         IF registry[id] = c THEN EntryOK(id, row) ELSE TRUE
  BY OwnEntries DEF EntryOK
<1>3. registry \in [DOMAIN registry -> Slots] /\ DOMAIN registry \subseteq Ids
  BY OwnEntries
<1> QED BY <1>1, <1>2, <1>3, ConnectionStep

\* The handler of c returns.
LEMMA ReturnStep ==
    ASSUME ServerInv, NEW c \in Slots, NEW o \in {"none", "answer", "cancelled"},
           InHandler(c), Return(c, o), o = "cancelled" => conn[c].signal
    PROVE  ServerInv'
<1>1. /\ conn[c] \in ConnRow /\ RowOK(conn[c])
      /\ registry \in [DOMAIN registry -> Slots] /\ DOMAIN registry \subseteq Ids
      /\ \A id \in DOMAIN registry : registry[id] = c => EntryOK(id, conn[c])
      /\ queue \in Seq(Slots \cup {Main}) /\ mode \in {"serving", "stopping", "down"}
  BY OwnEntries
<1>2. holder' = {} /\ UNCHANGED <<registry, queue, mode>>
  BY DEF Return
<1>3. CASE Chat(c)
  <2> DEFINE row == [conn[c] EXCEPT !.stage = "cleanup", !.provider = "none", !.outcome = o]
  <2>1. conn' = [conn EXCEPT ![c] = row]
    BY <1>3 DEF Return
  <2>2. /\ row \in ConnRow /\ row.stage = "cleanup" /\ row.outcome = o
        /\ SameBut({"stage", "provider", "outcome"}, row, conn[c])
    <3> DEFINE r1 == [conn[c] EXCEPT !.stage = "cleanup"]
    <3>1. r1 \in ConnRow /\ r1.stage = "cleanup" /\ SameBut({"stage"}, r1, conn[c])
      BY <1>1, SetField DEF Stages
    <3> HIDE DEF r1
    <3> DEFINE r2 == [r1 EXCEPT !.provider = "none"]
    <3>2. r2 \in ConnRow /\ r2.stage = "cleanup" /\ r2.provider = "none" /\ SameBut({"stage", "provider"}, r2, conn[c])
      BY <3>1 DEF ConnRow, SameBut
    <3> HIDE DEF r2
    <3> DEFINE r3 == [r2 EXCEPT !.outcome = o]
    <3>3. r3 \in ConnRow /\ r3.stage = "cleanup" /\ r3.provider = "none" /\ r3.outcome = o /\ SameBut({"stage", "provider", "outcome"}, r3, conn[c])
      BY <3>2 DEF ConnRow, SameBut
    <3> QED BY <3>3, Zenon DEF r1, r2, r3
  <2> HIDE DEF row
  <2>3. RowOK(row)
    BY <2>2 DEF RowOK, SameBut
  <2>4. \A id \in DOMAIN registry : registry[id] = c => EntryOK(id, row)
    BY <1>1, <2>2 DEF EntryOK, SameBut, LiveStages
  <2>5. row.stage \notin HandlerStages
    BY <2>2 DEF HandlerStages
  <2> QED BY <1>1, <1>2, <2>1, <2>2, <2>3, <2>4, <2>5, ConnectionStep
<1>4. CASE ~Chat(c)
  <2>1. conn' = [conn EXCEPT ![c] = Idle]
    BY <1>4 DEF Return
  <2>2. \A id \in DOMAIN registry : registry[id] # c
    BY <1>1, <1>4 DEF EntryOK, Chat
  <2>3. Idle.stage \notin HandlerStages
    BY IdleRow DEF HandlerStages
  <2> QED BY <1>1, <1>2, <2>1, <2>2, <2>3, IdleRow, ConnectionStep
<1> QED BY <1>3, <1>4

\* A connection that has not registered anything leaves or moves on.
LEMMA UnregisteredStep ==
    ASSUME ServerInv, NEW c \in Slots, conn[c].stage \in {"free", "accepted"},
           NEW row \in ConnRow, conn' = [conn EXCEPT ![c] = row], RowOK(row),
           row.stage \notin HandlerStages,
           UNCHANGED <<registry, holder, mode>>, queue' \in Seq(Slots \cup {Main})
    PROVE  ServerInv'
<1>1. /\ registry \in [DOMAIN registry -> Slots] /\ DOMAIN registry \subseteq Ids
      /\ mode \in {"serving", "stopping", "down"}
      /\ \A id \in DOMAIN registry : registry[id] # c
  BY OwnEntries DEF EntryOK, LiveStages, HandlerStages
<1>2. ~InHandler(c)
  BY DEF InHandler
<1> QED BY <1>1, <1>2, ConnectionStep

\* Every step of a task that has its request keeps ServerInv (dispatch_request,
\* handle_with_cancellation, ai_fallback).
LEMMA TaskStepKeeps ==
    ASSUME ServerInv, NEW c \in Slots, TaskStep(c)
    PROVE  ServerInv'
<1>1. /\ conn[c] \in ConnRow /\ RowOK(conn[c]) /\ conn \in [Slots -> ConnRow]
      /\ registry \in [DOMAIN registry -> Slots] /\ DOMAIN registry \subseteq Ids
      /\ \A id \in DOMAIN registry : registry[id] = c => EntryOK(id, conn[c])
      /\ queue \in Seq(Slots \cup {Main}) /\ mode \in {"serving", "stopping", "down"}
  BY OwnEntries DEF ServerInv, TypeOK
<1>2. CASE AskForLock(c)
  <2> DEFINE row == [conn[c] EXCEPT !.stage = "queued"]
  <2>1. conn' = [conn EXCEPT ![c] = row] /\ conn[c].stage = "registered"
        /\ queue' = Append(queue, c) /\ UNCHANGED <<registry, holder, mode>>
    BY <1>1, <1>2 DEF AskForLock
  <2>2. row \in ConnRow /\ row.stage = "queued" /\ SameBut({"stage"}, row, conn[c])
    BY <1>1, SetField DEF Stages
  <2> HIDE DEF row
  <2>3. queue' \in Seq(Slots \cup {Main})
    BY <1>1, <2>1
  <2> QED BY <1>1, <2>1, <2>2, <2>3, StageStep DEF SameBut, LiveStages, HandlerStages, InHandler
<1>3. CASE TakeLock(c)
  <2> DEFINE row == [conn[c] EXCEPT !.stage = "handling"]
  <2>1. conn' = [conn EXCEPT ![c] = row] /\ holder = {} /\ holder' = {c}
        /\ queue # <<>> /\ queue' = Tail(queue) /\ UNCHANGED <<registry, mode>>
    BY <1>1, <1>3 DEF TakeLock
  <2>2. row \in ConnRow /\ row.stage = "handling" /\ SameBut({"stage"}, row, conn[c])
    BY <1>1, SetField DEF Stages
  <2> HIDE DEF row
  <2>3. queue' \in Seq(Slots \cup {Main})
    BY <1>1, <2>1
  <2> QED BY <1>1, <2>1, <2>2, <2>3, StageStep DEF SameBut, LiveStages, HandlerStages
<1>4. CASE HandleLocally(c)
  BY <1>4, ReturnStep DEF HandleLocally, InHandler
<1>5. CASE CallProvider(c)
  <2> DEFINE row == [conn[c] EXCEPT !.stage = "calling", !.provider = "pending"]
  <2>1. CASE conn[c].signal
    BY <1>5, <2>1, ReturnStep DEF CallProvider, InHandler
  <2>2. CASE ~conn[c].signal
    <3>1. conn' = [conn EXCEPT ![c] = row] /\ conn[c].stage = "handling"
          /\ UNCHANGED <<registry, queue, holder, mode>>
      BY <1>5, <2>2 DEF CallProvider
    <3>2. row \in ConnRow /\ row.stage = "calling" /\ SameBut({"stage", "provider"}, row, conn[c])
      <4> DEFINE r1 == [conn[c] EXCEPT !.stage = "calling"]
      <4>1. r1 \in ConnRow /\ r1.stage = "calling" /\ SameBut({"stage"}, r1, conn[c])
        BY <1>1, SetField DEF Stages
      <4> HIDE DEF r1
      <4> DEFINE r2 == [r1 EXCEPT !.provider = "pending"]
      <4>2. r2 \in ConnRow /\ r2.stage = "calling" /\ r2.provider = "pending" /\ SameBut({"stage", "provider"}, r2, conn[c])
        BY <4>1 DEF ConnRow, SameBut
      <4> QED BY <4>2, Zenon DEF r1, r2
    <3> HIDE DEF row
    <3> QED BY <1>1, <3>1, <3>2, StageStep DEF SameBut, LiveStages, HandlerStages, InHandler
  <2> QED BY <2>1, <2>2
<1>6. CASE UseAnswer(c)
  BY <1>6, ReturnStep DEF UseAnswer, InHandler
<1>7. CASE SeeSignal(c)
  <2> DEFINE row == [conn[c] EXCEPT !.stage = "committed"]
  <2>1. CASE conn[c].signal /\ Return(c, "cancelled")
    BY <1>7, <2>1, ReturnStep DEF SeeSignal, InHandler
  <2>2. CASE /\ conn' = [conn EXCEPT ![c].stage = "committed"]
             /\ UNCHANGED <<registry, queue, holder, mode>>
    <3>1. conn' = [conn EXCEPT ![c] = row] /\ conn[c].stage = "calling"
      BY <1>1, <1>7, <2>2 DEF SeeSignal
    <3>2. row \in ConnRow /\ row.stage = "committed" /\ SameBut({"stage"}, row, conn[c])
      BY <1>1, SetField DEF Stages
    <3> HIDE DEF row
    <3> QED BY <1>1, <2>2, <3>1, <3>2, StageStep DEF SameBut, LiveStages, HandlerStages, InHandler
  <2> QED BY <1>7, <2>1, <2>2 DEF SeeSignal
<1>8. CASE Cleanup(c)
  <2>1. /\ conn' = [conn EXCEPT ![c] = Idle] /\ conn[c].stage = "cleanup"
        /\ registry' = Remove(conn[c].id) /\ UNCHANGED <<queue, holder, mode>>
    BY <1>8 DEF Cleanup
  <2>2. /\ registry' \in [DOMAIN registry' -> Slots] /\ DOMAIN registry' \subseteq Ids
        /\ \A id \in DOMAIN registry' :
              registry'[id] # c /\ id \in DOMAIN registry /\ registry'[id] = registry[id]
    BY <1>1, <2>1 DEF Remove, EntryOK
  <2>3. Idle.stage \notin HandlerStages /\ ~InHandler(c)
    BY <2>1, IdleRow DEF HandlerStages, InHandler
  <2> QED BY <1>1, <2>1, <2>2, <2>3, IdleRow, ConnectionStep
<1> QED BY <1>2, <1>3, <1>4, <1>5, <1>6, <1>7, <1>8 DEF TaskStep

\* A CancelChat request of c takes the entry under id and signals its task.
LEMMA CancelStep ==
    ASSUME ServerInv, NEW c \in Slots, NEW i \in Ids, ReceiveCancel(c, i)
    PROVE  ServerInv'
<1>1. /\ conn \in [Slots -> ConnRow] /\ conn[c].stage = "accepted"
      /\ registry \in [DOMAIN registry -> Slots] /\ DOMAIN registry \subseteq Ids
      /\ \A t \in Slots : RowOK(conn[t])
      /\ \A id \in DOMAIN registry : EntryOK(id, conn[registry[id]])
      /\ UNCHANGED <<queue, holder, mode>> /\ registry' = Remove(i)
  BY DEF ReceiveCancel, ServerInv, TypeOK
<1> DEFINE hit == {t \in Slots : i \in DOMAIN registry /\ registry[i] = t /\ ReceiverAlive(t)}
<1>2. conn' = [t \in Slots |-> IF t = c THEN Idle
                              ELSE IF t \in hit THEN [conn[t] EXCEPT !.signal = TRUE]
                              ELSE conn[t]]
  BY DEF ReceiveCancel
<1>3. \A t \in Slots : /\ [conn[t] EXCEPT !.signal = TRUE] \in ConnRow
                       /\ [conn[t] EXCEPT !.signal = TRUE].signal = TRUE
                       /\ SameBut({"signal"}, [conn[t] EXCEPT !.signal = TRUE], conn[t])
  BY <1>1, SetField, Zenon
<1>4. /\ DOMAIN registry' = DOMAIN registry \ {i}
      /\ \A id \in DOMAIN registry' : registry'[id] = registry[id]
      /\ registry' \in [DOMAIN registry' -> Slots]
  BY <1>1 DEF Remove
<1>5. conn' \in [Slots -> ConnRow]
  BY <1>1, <1>2, <1>3, IdleRow
<1>6. c \notin hit
  BY <1>1 DEF EntryOK, LiveStages, HandlerStages
<1>7. \A t \in hit : conn[t].stage \in LiveStages
  BY <1>1 DEF EntryOK
<1>8. conn'[c] = Idle /\ \A t \in Slots \ {c} :
         IF t \in hit THEN conn'[t] = [conn[t] EXCEPT !.signal = TRUE] ELSE conn'[t] = conn[t]
  BY <1>2
<1>9. \A t \in Slots : RowOK(conn'[t])
  <2> SUFFICES ASSUME NEW t \in Slots PROVE RowOK(conn'[t])
    OBVIOUS
  <2>1. CASE t \in hit
    <3>1. conn'[t].signal = TRUE /\ conn'[t].stage \in LiveStages
      <4>1. conn'[t] = [conn[t] EXCEPT !.signal = TRUE] /\ conn[t].stage \in LiveStages
        BY <1>6, <1>7, <1>8, <2>1
      <4>2. SameBut({"signal"}, conn'[t], conn[t]) /\ conn'[t].signal = TRUE
        BY <1>3, <4>1, Zenon
      <4> QED BY <4>1, <4>2 DEF SameBut
    <3> QED BY <3>1 DEF RowOK, LiveStages, HandlerStages
  <2>2. CASE t \notin hit
    BY <1>1, <1>8, <2>2, IdleRow
  <2> QED BY <2>1, <2>2
<1>10. \A t \in Slots : conn'[t].stage \in HandlerStages <=> conn[t].stage \in HandlerStages
  BY <1>1, <1>3, <1>8, IdleRow DEF SameBut, HandlerStages
<1>11. \A id \in DOMAIN registry' : EntryOK(id, conn'[registry'[id]])
  <2> SUFFICES ASSUME NEW id \in DOMAIN registry' PROVE EntryOK(id, conn'[registry[id]])
    BY <1>4
  <2>1. id \in DOMAIN registry /\ id # i /\ EntryOK(id, conn[registry[id]]) /\ registry[id] \in Slots
    BY <1>1, <1>4
  <2>2. registry[id] \notin hit /\ registry[id] # c
    BY <1>1, <2>1 DEF EntryOK, LiveStages, HandlerStages
  <2> QED BY <1>8, <2>1, <2>2
<1>12. TypeOK'
  BY <1>1, <1>4, <1>5 DEF ServerInv, TypeOK
<1>13. OneHandlerAtATime'
  BY <1>1, <1>10 DEF ServerInv, OneHandlerAtATime, InHandler, HandlerStages
<1> QED BY <1>1, <1>9, <1>11, <1>12, <1>13 DEF ServerInv

\* Nothing is left of a daemon that went down.
LEMMA ExitStep == ASSUME Exit PROVE ServerInv'
<1>1. TypeOK'
  BY IdleRow DEF Exit, TypeOK, EmptyRegistry
<1>2. \A c \in Slots : conn'[c] = Idle
  BY DEF Exit
<1>3. OneHandlerAtATime' /\ \A a, b \in holder' : a = b
  BY <1>2, IdleRow DEF Exit, OneHandlerAtATime, InHandler
<1>4. DOMAIN registry' = {}
  BY DEF Exit, EmptyRegistry
<1> QED BY <1>1, <1>2, <1>3, <1>4, IdleRow DEF ServerInv

\* The server's invariant, for any number of connections (ipc.rs).
THEOREM ServerInvariant == Spec => []ServerInv
<1> USE ServerAssumption
<1>1. Init => ServerInv
  <2> SUFFICES ASSUME Init PROVE ServerInv
    OBVIOUS
  <2>1. TypeOK
    BY IdleRow DEF Init, TypeOK, EmptyRegistry
  <2>2. \A c \in Slots : conn[c] = Idle
    BY DEF Init
  <2>3. OneHandlerAtATime /\ \A a, b \in holder : a = b
    BY <2>2, IdleRow DEF Init, OneHandlerAtATime, InHandler
  <2>4. DOMAIN registry = {}
    BY DEF Init, EmptyRegistry
  <2> QED BY <2>1, <2>2, <2>3, <2>4, IdleRow DEF ServerInv
<1>2. ServerInv /\ [Next]_vars => ServerInv'
  <2> SUFFICES ASSUME ServerInv, [Next]_vars PROVE ServerInv'
    OBVIOUS
  <2>0. /\ conn \in [Slots -> ConnRow] /\ queue \in Seq(Slots \cup {Main})
        /\ registry \in [DOMAIN registry -> Slots] /\ DOMAIN registry \subseteq Ids
        /\ mode \in {"serving", "stopping", "down"}
    BY DEF ServerInv, TypeOK
  <2>1. ASSUME NEW c \in Slots, Accept(c) PROVE ServerInv'
    <3> DEFINE row == [Idle EXCEPT !.stage = "accepted"]
    <3>1. row \in ConnRow /\ row.stage = "accepted" /\ SameBut({"stage"}, row, Idle)
      BY IdleRow, SetField DEF Stages
    <3>2. RowOK(row) /\ row.stage \notin HandlerStages
      BY <3>1, IdleRow DEF RowOK, SameBut, HandlerStages
    <3>3. conn' = [conn EXCEPT ![c] = row] /\ conn[c].stage = "free"
          /\ UNCHANGED <<registry, queue, holder, mode>>
      BY <2>1 DEF Accept
    <3> HIDE DEF row
    <3> QED BY <2>0, <3>1, <3>2, <3>3, UnregisteredStep
  <2>2. ASSUME NEW c \in Slots, FrameFails(c) PROVE ServerInv'
    <3>1. Idle.stage \notin HandlerStages
      BY IdleRow DEF HandlerStages
    <3> QED BY <2>0, <2>2, <3>1, IdleRow, UnregisteredStep DEF FrameFails
  <2>3. ASSUME NEW c \in Slots, NEW i \in Ids, ReceiveChat(c, i) PROVE ServerInv'
    <3>1. conn[c].stage = "accepted" /\ "chat" \in Kinds /\ UNCHANGED <<queue, holder, mode>>
      BY <2>3 DEF ReceiveChat
    <3>2. CASE i \in DOMAIN registry
      <4>1. conn' = [conn EXCEPT ![c] = Idle] /\ UNCHANGED registry
        BY <2>3, <3>2 DEF ReceiveChat
      <4>2. Idle.stage \notin HandlerStages
        BY IdleRow DEF HandlerStages
      <4> QED BY <2>0, <3>1, <4>1, <4>2, IdleRow, UnregisteredStep
    <3>3. CASE i \notin DOMAIN registry
      <4> DEFINE row == [conn[c] EXCEPT !.stage = "registered", !.kind = "chat", !.id = i]
      <4>1. conn' = [conn EXCEPT ![c] = row] /\ registry' = Insert(i, c)
        BY <2>3, <3>3 DEF ReceiveChat
      <4>3. /\ row \in ConnRow /\ row.stage = "registered" /\ row.kind = "chat" /\ row.id = i
            /\ SameBut({"stage", "kind", "id"}, row, conn[c])
        <5> DEFINE r1 == [conn[c] EXCEPT !.stage = "registered"]
        <5>1. r1 \in ConnRow /\ r1.stage = "registered" /\ SameBut({"stage"}, r1, conn[c])
          BY <2>0, SetField DEF Stages
        <5> HIDE DEF r1
        <5> DEFINE r2 == [r1 EXCEPT !.kind = "chat"]
        <5>2. r2 \in ConnRow /\ r2.stage = "registered" /\ r2.kind = "chat" /\ SameBut({"stage", "kind"}, r2, conn[c])
          BY <5>1, <3>1 DEF ConnRow, SameBut
        <5> HIDE DEF r2
        <5> DEFINE r3 == [r2 EXCEPT !.id = i]
        <5>3. r3 \in ConnRow /\ r3.stage = "registered" /\ r3.kind = "chat" /\ r3.id = i /\ SameBut({"stage", "kind", "id"}, r3, conn[c])
          BY <5>2, <3>1 DEF ConnRow, SameBut
        <5> QED BY <5>3, Zenon DEF r1, r2, r3
      <4> HIDE DEF row
      <4>4. RowOK(conn[c]) /\ \A id \in DOMAIN registry : registry[id] # c
        BY <3>1, OwnEntries DEF EntryOK, LiveStages, HandlerStages
      <4>5. RowOK(row) /\ EntryOK(i, row) /\ row.stage \notin HandlerStages /\ ~InHandler(c)
        BY <3>1, <4>3, <4>4 DEF RowOK, EntryOK, SameBut, LiveStages, HandlerStages, InHandler
      <4>6. /\ registry' \in [DOMAIN registry' -> Slots] /\ DOMAIN registry' \subseteq Ids
            /\ \A id \in DOMAIN registry' :
                 IF registry'[id] = c THEN id = i
                 ELSE id \in DOMAIN registry /\ registry'[id] = registry[id]
        BY <2>0, <4>1, <4>4 DEF Insert
      <4> QED BY <2>0, <3>1, <4>1, <4>3, <4>5, <4>6, ConnectionStep
    <3> QED BY <3>2, <3>3
  <2>4. ASSUME NEW c \in Slots, ReceiveOther(c) PROVE ServerInv'
    <3> DEFINE row == [conn[c] EXCEPT !.stage = "queued", !.kind = "other"]
    <3>1. /\ conn[c].stage = "accepted" /\ "other" \in Kinds /\ UNCHANGED <<registry, holder, mode>>
          /\ conn' = [conn EXCEPT ![c] = row] /\ queue' = Append(queue, c)
      BY <2>4 DEF ReceiveOther
    <3>3. /\ row \in ConnRow /\ row.stage = "queued" /\ SameBut({"stage", "kind"}, row, conn[c])
      <4> DEFINE r1 == [conn[c] EXCEPT !.stage = "queued"]
      <4>1. r1 \in ConnRow /\ r1.stage = "queued" /\ SameBut({"stage"}, r1, conn[c])
        BY <2>0, SetField DEF Stages
      <4> HIDE DEF r1
      <4> DEFINE r2 == [r1 EXCEPT !.kind = "other"]
      <4>2. r2 \in ConnRow /\ r2.stage = "queued" /\ r2.kind = "other" /\ SameBut({"stage", "kind"}, r2, conn[c])
        BY <4>1, <3>1 DEF ConnRow, SameBut
      <4> QED BY <4>2, Zenon DEF r1, r2
    <3> HIDE DEF row
    <3>4. RowOK(row) /\ row.stage \notin HandlerStages
      BY <3>1, <3>3, OwnEntries DEF RowOK, SameBut, HandlerStages
    <3>5. queue' \in Seq(Slots \cup {Main})
      BY <2>0, <3>1
    <3> QED BY <3>1, <3>3, <3>4, <3>5, UnregisteredStep
  <2>5. ASSUME NEW c \in Slots, NEW i \in Ids, ReceiveCancel(c, i) PROVE ServerInv'
    BY <2>5, CancelStep
  <2>6. ASSUME NEW c \in Slots, TaskStep(c) PROVE ServerInv'
    BY <2>6, TaskStepKeeps
  <2>7. ASSUME NEW c \in Slots, ProviderAnswers(c) PROVE ServerInv'
    <3> DEFINE row == [conn[c] EXCEPT !.provider = "ready"]
    <3>1. conn' = [conn EXCEPT ![c] = row] /\ UNCHANGED <<registry, queue, holder, mode>>
      BY <2>0, <2>7 DEF ProviderAnswers
    <3>2. row \in ConnRow /\ SameBut({"provider"}, row, conn[c])
      BY <2>0, SetField, Zenon
    <3> HIDE DEF row
    <3>3. RowOK(row) /\ \A id \in DOMAIN registry : registry[id] = c => EntryOK(id, row)
      BY <3>2, OwnEntries DEF RowOK, EntryOK, SameBut
    <3>4. row.stage \in HandlerStages <=> InHandler(c)
      BY <3>2 DEF SameBut, InHandler, HandlerStages
    <3> QED BY <2>0, <3>1, <3>2, <3>3, <3>4, ConnectionStep
  <2>8. ASSUME UNCHANGED <<conn, registry, holder>>, queue' \in Seq(Slots \cup {Main}),
               mode' \in {"serving", "stopping", "down"}
        PROVE  ServerInv'
    <3>1. TypeOK' /\ OneHandlerAtATime'
      BY <2>8 DEF ServerInv, TypeOK, OneHandlerAtATime, InHandler
    <3> QED BY <2>8, <3>1 DEF ServerInv
  <2>9. CASE Stop
    <3>1. queue' \in Seq(Slots \cup {Main})
      BY <2>0, <2>9 DEF Stop
    <3> QED BY <2>8, <2>9, <3>1 DEF Stop
  <2>10. CASE StopTakesLock
    BY <2>10, ExitStep DEF StopTakesLock
  <2>11. CASE Crash
    BY <2>11, ExitStep DEF Crash
  <2>12. CASE Start
    BY <2>0, <2>8, <2>12 DEF Start
  <2>13. CASE UNCHANGED vars
    BY <2>0, <2>8, <2>13 DEF vars
  <2> QED BY <2>1, <2>2, <2>3, <2>4, <2>5, <2>6, <2>7, <2>9, <2>10, <2>11, <2>12, <2>13 DEF Next
<1> QED
  BY <1>1, <1>2, PTL DEF Spec

\* Connections, registry, queue and mutex keep their types (ipc.rs).
THEOREM TypeCorrect == Spec => []TypeOK
<1>1. ServerInv => TypeOK
  BY DEF ServerInv
<1> QED BY <1>1, ServerInvariant, PTL

\* No two handlers run at once, for any number of connections, cancels and
\* restarts (dispatch_request holds the mutex guard across its awaits).
THEOREM HandlersExclude == Spec => []OneHandlerAtATime
<1>1. ServerInv => OneHandlerAtATime
  BY DEF ServerInv
<1> QED BY <1>1, ServerInvariant, PTL

\* The registry never names a request that is gone or another's, although ids
\* are reused and entries are removed by id (dispatch_request).
THEOREM RegistryStaysExact == Spec => []RegistryIsExact
<1>1. ServerInv => RegistryIsExact
  BY DEF ServerInv, RegistryIsExact, EntryOK, LiveStages, HandlerStages, InHandler
<1> QED BY <1>1, ServerInvariant, PTL

\* Only an acknowledged cancel of its own makes a chat end as cancelled
\* (ai_fallback).
THEOREM CancelsAreTheUsers == Spec => []OnlyCancelsCancel
<1>1. ServerInv => OnlyCancelsCancel
  BY DEF ServerInv, OnlyCancelsCancel, RowOK
<1> QED BY <1>1, ServerInvariant, PTL
=============================================================================
