-------------------------- MODULE ServerQueueProofs --------------------------
(* Proofs about the messages of ServerFsm: that the queue of a local server *)
(* does not overflow, and that answers belong to the messages taken.        *)
EXTENDS ServerFsmProofs

USE SizesAssumption, QueueAssumption DEF Octet, Rows, BroadcastSlot, ReservedSlots, ServerId

(* The server's own slots are those below every client's, no text is the    *)
(* error value, and the neighbouring network has the same own slots.        *)
SlotsReserved  == ReservedSlots <= StartingSlots /\ NoWrap
NothingRefused == BadLength \notin Bodies /\ \A c \in ForeignIds : c > ReservedSlots

-----------------------------------------------------------------------------
(* Senders.                                                                 *)

(* The ids that may send, and those of the queued messages of this network, *)
(* are not the server's.                                                    *)
SenderInv == /\ \A c \in heard : c > ReservedSlots
             /\ \A k \in 0 .. (queuePos - 1) : queue[k].own => queue[k].src > ReservedSlots

(* What a frame leaves in the queue. *)
LEMMA StoreQueue ==
  ASSUME ServerTypeOK, NEW f, Store(f)
  PROVE  /\ fsm' = fsm
         /\ \/ /\ queuePos < QueueSlots /\ queuePos' = queuePos + 1
               /\ queue' = [queue EXCEPT ![queuePos] = f] /\ overrun' = overrun
            \/ queuePos >= QueueSlots /\ queuePos' = queuePos /\ queue' = queue
BY DEF Store, RxUnchanged, fsmVars, queueVars

(* A stored frame of a client keeps the senders. *)
LEMMA StoreSenders ==
  ASSUME ServerTypeOK, SenderInv, NEW f, Store(f), f.own => f.src > ReservedSlots,
         heard' \subseteq heard
  PROVE  SenderInv'
<1>1. queue \in [0 .. (QueueSlots - 1) -> Status \cup {NoStatus}] /\ queuePos \in 0 .. QueueSlots
  BY DEF ServerTypeOK
<1>2. CASE queuePos < QueueSlots /\ queuePos' = queuePos + 1
           /\ queue' = [queue EXCEPT ![queuePos] = f]
  <2>1. queue'[queuePos] = f BY <1>1, <1>2
  <2>2. \A k \in 0 .. (queuePos - 1) : queue'[k] = queue[k] BY <1>1, <1>2
  <2>3. \A k \in 0 .. (queuePos' - 1) : k \in 0 .. (queuePos - 1) \/ k = queuePos
    BY <1>1, <1>2
  <2>4. QED BY <2>1, <2>2, <2>3 DEF SenderInv
<1>3. CASE UNCHANGED queueVars BY <1>3 DEF SenderInv, queueVars
<1>4. QED BY <1>2, <1>3, StoreQueue DEF queueVars

(* Every step keeps the senders: SYNC asks the clients of the table, whose  *)
(* ids lie above the server's slots.                                        *)
LEMMA SenderStep ==
  ASSUME SlotsReserved, ServerTypeOK, UniqueSlots, SenderInv, [ServerNext]_vars
  PROVE  SenderInv'
<1>1. ASSUME NEW c \in heard, NEW d \in Targets, NEW b \in Bodies, RxStatus(c, d, b)
      PROVE  SenderInv'
  BY <1>1, StoreSenders DEF RxStatus, SenderInv
<1>2. ASSUME NEW c \in ForeignIds, NEW d \in Targets, NEW b \in Bodies, RxForeign(c, d, b)
      PROVE  SenderInv'
  BY <1>2, StoreSenders DEF RxForeign
<1>3. CASE Sync
  <2>1. heard' = MemberIds /\ queue' = queue /\ queuePos' = queuePos
    BY <1>3 DEF Sync, queueVars
  <2>2. \A i \in Registered : table[i].id \in Octet BY RowTypes DEF ServerTypeOK, Registered
  <2>3. \A c \in MemberIds : c > ReservedSlots
    BY <2>2 DEF MemberIds, UniqueSlots, SlotsReserved
  <2>4. QED BY <2>1, <2>3 DEF SenderInv
<1>4. CASE StatusMsg
  <2>1. /\ heard' = heard /\ queuePos > 0 /\ queuePos' = queuePos - 1
        /\ queue' = [queue EXCEPT ![queuePos - 1] = NoStatus]
    BY <1>4 DEF StatusMsg, StatusLocal, StatusForward, StatusOffline, StatusDrop, TakeStatus,
                envVars
  <2>2. queue \in [0 .. (QueueSlots - 1) -> Status \cup {NoStatus}]
        /\ queuePos \in 0 .. QueueSlots
    BY DEF ServerTypeOK
  <2>3. \A k \in 0 .. (queuePos' - 1) : k \in 0 .. (queuePos - 1) /\ queue'[k] = queue[k]
    BY <2>1, <2>2
  <2>4. QED BY <2>1, <2>3 DEF SenderInv
<1>5. CASE UNCHANGED <<queue, queuePos, heard>>
  BY <1>5 DEF SenderInv
<1>6. ASSUME NEW m \in Macs, RxHead(m) \/ RxOther(m) PROVE UNCHANGED <<queue, queuePos, heard>>
  BY <1>6 DEF RxHead, RxOther, queueVars, envVars
<1>7. ASSUME NEW m \in Devices, NEW r \in Requests, NEW v \in BOOLEAN, RxJoinReq(m, r, v)
      PROVE  UNCHANGED <<queue, queuePos, heard>>
  BY <1>7 DEF RxJoinReq, queueVars, envVars
<1>8. CASE PressButton \/ GatewayApp \/ Start \/ MsgRead \/ JoinRequest \/ JoinResponse
           \/ ControlLocal \/ ControlGateway \/ UNCHANGED vars
  BY <1>5, <1>8
  DEF PressButton, GatewayApp, Start, MsgRead, JoinRequest, JoinResponse, ControlLocal,
      ControlGateway, ControlDone, vars, queueVars, envVars
<1>9. QED
  BY <1>1, <1>2, <1>3, <1>4, <1>5, <1>6, <1>7, <1>8 DEF ServerNext, Tick, Receive

(* Nobody may send in the beginning. *)
LEMMA SenderInit == ServerInit => SenderInv
BY DEF ServerInit, SenderInv

(* All of the server's state that the proofs below rest on.                 *)
MessagesInv == ServerInv /\ UniqueSlots /\ SenderInv

(* It holds in every state. *)
LEMMA MessagesInvariant == SlotsReserved => (ServerSpec => []MessagesInv)
<1> SUFFICES ASSUME SlotsReserved PROVE ServerSpec => []MessagesInv OBVIOUS
<1>1. NoWrap BY DEF SlotsReserved
<1>2. ServerSpec => []UniqueSlots BY <1>1, ServerSlotsAreUnique
<1>3. ServerInv /\ UniqueSlots /\ SenderInv /\ [ServerNext]_vars => SenderInv'
  BY SenderStep DEF ServerInv
<1>4. ServerInv /\ UniqueSlots /\ SenderInv <=> MessagesInv BY DEF MessagesInv
<1>5. QED BY <1>2, <1>3, <1>4, SenderInit, ServerInvariant, PTL DEF ServerSpec

-----------------------------------------------------------------------------
(* Answers.                                                                 *)

(* Between the timer interrupt that takes a message and the one that sends  *)
(* the CONTRL frame, the ids and the text kept aside are the message's.     *)
HandlingInv ==
  (fsm = "CONTROLMSG" /\ handling.own) =>
    /\ handling.src > ReservedSlots
    /\ source = handling.src
    /\ ServerMode = "LOCAL" =>
         /\ payload = handling.body
         /\ destination = IF Known(handling.dst) THEN handling.dst ELSE 0

(* An entry of the queue that was never written is no frame of this network. *)
LEMMA NobodysFrame == ~NoStatus.own
<1>1. NoStatus.own = FALSE BY DEF NoStatus
<1>2. QED BY <1>1, Zenon

(* They are set together, and nothing enters the table in between.          *)
LEMMA HandlingStep ==
  ASSUME MessagesInv, HandlingInv, [ServerNext]_vars PROVE HandlingInv'
<1> SUFFICES ASSUME fsm' = "CONTROLMSG", handling'.own
             PROVE  /\ handling'.src > ReservedSlots
                    /\ source' = handling'.src
                    /\ ServerMode = "LOCAL" =>
                         /\ payload' = handling'.body
                         /\ destination' = IF Known(handling.dst)' THEN handling'.dst ELSE 0
  BY DEF HandlingInv
<1>1. CASE UNCHANGED <<fsm, handling, source, destination, payload, table>>
  <2>1. Known(handling.dst)' <=> Known(handling.dst) BY <1>1 DEF Known, RowsWithId
  <2>2. QED BY <1>1, <2>1 DEF HandlingInv
<1>2. CASE Receive
  BY <1>1, <1>2
  DEF Receive, RxHead, RxOther, RxJoinReq, RxStatus, RxForeign, Store, RxUnchanged, fsmVars,
      statusVars, tableVars
<1>3. CASE PressButton \/ GatewayApp \/ UNCHANGED vars
  BY <1>1, <1>3 DEF PressButton, GatewayApp, vars, fsmVars, statusVars, tableVars
<1>4. CASE Start \/ Sync \/ JoinRequest \/ JoinResponse \/ ControlLocal \/ ControlGateway
  BY <1>4
  DEF Start, Sync, JoinRequest, JoinResponse, ControlLocal, ControlGateway, ControlDone,
      AfterQueue
<1>5. CASE MsgRead BY <1>5 DEF MsgRead, MessagesInv, ServerInv, ServerTypeOK, Flags
<1>6. CASE StatusMsg
  <2> DEFINE f == queue[queuePos - 1]
  <2>1. /\ queuePos - 1 \in 0 .. (queuePos - 1)
        /\ TakeStatus(f)
        /\ StatusLocal(f) \/ StatusForward(f) \/ StatusOffline(f) \/ StatusDrop(f)
    BY <1>6
    DEF StatusMsg, StatusLocal, StatusForward, StatusOffline, StatusDrop, MessagesInv,
        ServerInv, ServerTypeOK
  <2>2. f.own => f.src > ReservedSlots BY <2>1 DEF MessagesInv, SenderInv
  <2> HIDE DEF f
  <2>3. /\ handling' = f /\ table' = table
        /\ source' = ReadSource(f) /\ payload' = ReadPayload(f)
    BY <2>1 DEF TakeStatus, Refresh
  <2>4. f.own /\ ReadSource(f) = f.src
    BY <2>2, <2>3 DEF ReadSource
  <2>5. ASSUME ServerMode = "LOCAL"
        PROVE  /\ payload' = f.body
               /\ destination' = IF Known(f.dst) THEN f.dst ELSE 0
    <3>1. f.own /\ ~(f.src <= ReservedSlots)
      <4>1. f = NoStatus \/ f \in Status
        BY <2>1 DEF f, MessagesInv, ServerInv, ServerTypeOK
      <4>2. f \in Status BY <2>4, <4>1, NobodysFrame, Zenon
      <4>3. f.src \in Octet BY <4>2 DEF Status
      <4>4. QED BY <2>2, <2>4, <4>3
    <3>2. StatusLocal(f) BY <2>1, <2>5 DEF StatusForward, StatusOffline, StatusDrop
    <3>3. QED BY <2>3, <3>1, <3>2 DEF StatusLocal, ReadDestination, ReadPayload
  <2>6. Known(handling.dst)' <=> Known(f.dst) BY <2>3 DEF Known, RowsWithId
  <2>7. QED BY <2>2, <2>3, <2>4, <2>5, <2>6
<1>7. QED BY <1>2, <1>3, <1>4, <1>5, <1>6 DEF ServerNext, Tick

(* No message is being handled in the beginning. *)
LEMMA HandlingInit == ServerInit => HandlingInv
BY DEF ServerInit, HandlingInv

(* Both invariants hold in every state. *)
LEMMA HandlingInvariant == SlotsReserved => (ServerSpec => [](MessagesInv /\ HandlingInv))
<1> SUFFICES ASSUME SlotsReserved PROVE ServerSpec => [](MessagesInv /\ HandlingInv) OBVIOUS
<1>1. ServerSpec => []MessagesInv BY MessagesInvariant
<1>2. MessagesInv /\ HandlingInv /\ [ServerNext]_vars => HandlingInv' BY HandlingStep
<1>3. QED BY <1>1, <1>2, HandlingInit, PTL DEF ServerSpec

(* The control state is left by sending the frame. *)
LEMMA LeavesControl ==
  ASSUME MessagesInv, [ServerNext]_vars, fsm = "CONTROLMSG", fsm' # fsm
  PROVE  ControlLocal \/ ControlGateway
BY DEF ServerNext, Tick, Receive, RxHead, RxOther, RxJoinReq, RxStatus, RxForeign, Store,
       RxUnchanged, PressButton, GatewayApp, Start, MsgRead, Sync, JoinRequest, JoinResponse,
       StatusMsg, StatusLocal, StatusForward, StatusOffline, StatusDrop, At, vars, fsmVars

(* A client of the table is known, and so is nobody else but the id 0.      *)
LEMMA KnownMembers ==
  ASSUME TypeOK, NEW id \in Octet
  PROVE  id \in MemberIds <=> Known(id) /\ id # 0
BY DEF MemberIds, Registered, Known, RowsWithId

(* A local server's CONTRL frame is the answer to the message it took.      *)
LEMMA AnswerIsRight ==
  ASSUME MessagesInv, HandlingInv, UniqueSlots, SlotsReserved, ServerMode = "LOCAL",
         [ServerNext]_vars, fsm = "CONTROLMSG", handling.own, fsm' # fsm
  PROVE  /\ sent'.kind = "CONTRL"
         /\ IF handling.dst \in MemberIds
            THEN sent'.dst = handling.dst /\ sent'.body = handling.body
            ELSE /\ sent'.dst = handling.src
                 /\ handling.dst # ServerId => sent'.status = "NOT_FOUND"
<1> DEFINE src == handling.src
           dst == handling.dst
<1>1. handling \in Status
  <2>1. handling \in Status \cup {NoStatus} BY DEF MessagesInv, ServerInv, ServerTypeOK
  <2>2. QED BY <2>1, NobodysFrame, Zenon
<1>2. src \in Octet /\ dst \in Octet BY <1>1 DEF Status
<1>3. /\ src > ReservedSlots /\ source = src /\ payload = handling.body
      /\ destination = IF Known(dst) THEN dst ELSE 0
  BY DEF HandlingInv
<1>4. sent' = Control(source, destination, payload)
  BY LeavesControl DEF ControlLocal, ControlGateway, Send
<1>5. dst \in MemberIds <=> Known(dst) /\ dst # 0
  BY <1>2, KnownMembers DEF MessagesInv, ServerInv, ServerTypeOK
<1>6. CASE dst \in MemberIds
  <2>1. dst > ReservedSlots
    <3>1. PICK i \in Registered : dst = table[i].id BY <1>6 DEF MemberIds
    <3>2. StartingSlots < table[i].id BY <3>1 DEF UniqueSlots
    <3>3. QED BY <1>2, <3>1, <3>2 DEF SlotsReserved
  <2>2. destination = dst BY <1>3, <1>5, <1>6
  <2> HIDE DEF src, dst
  <2>3. sent'.kind = "CONTRL" /\ sent'.dst = dst /\ sent'.body = payload
    BY <1>2, <1>3, <1>4, <2>1, <2>2 DEF Control
  <2>4. QED BY <1>3, <1>6, <2>3 DEF dst
<1>7. CASE dst \notin MemberIds
  <2>1. destination = 0 BY <1>3, <1>5, <1>7
  <2> HIDE DEF src, dst
  <2>2. sent'.kind = "CONTRL" /\ sent'.dst = src /\ sent'.status = "NOT_FOUND"
    BY <1>2, <1>3, <1>4, <2>1 DEF Control
  <2>3. QED BY <1>7, <2>2 DEF dst, src
<1>8. QED BY <1>6, <1>7

(* The answer of a local server reaches the addressee of the message it     *)
(* took a period before, with its text, or returns to the sender if nobody  *)
(* has that id, whoever joins and whatever arrives in between.              *)
THEOREM LocalServerAnswers ==
  ServerMode = "LOCAL" /\ SlotsReserved => (ServerSpec => ControlAnswersStatus)
<1> SUFFICES ASSUME ServerMode = "LOCAL", SlotsReserved PROVE ServerSpec => ControlAnswersStatus
  OBVIOUS
<1>1. ServerSpec => [](MessagesInv /\ HandlingInv) BY HandlingInvariant
<1>2. MessagesInv /\ HandlingInv /\ [ServerNext]_vars =>
        [ (fsm = "CONTROLMSG" /\ handling.own /\ fsm' # fsm) =>
            /\ sent'.kind = "CONTRL"
            /\ IF handling.dst \in MemberIds
               THEN sent'.dst = handling.dst /\ sent'.body = handling.body
               ELSE /\ sent'.dst = handling.src
                    /\ handling.dst # ServerId => sent'.status = "NOT_FOUND" ]_vars
  BY AnswerIsRight DEF MessagesInv
<1>3. QED BY <1>1, <1>2, PTL DEF ServerSpec, ControlAnswersStatus

(* The notice of a gateway goes to the sender of the message it took.       *)
LEMMA NoticeIsRight ==
  ASSUME MessagesInv, HandlingInv, ServerMode = "GATEWAY", [ServerNext]_vars,
         fsm = "CONTROLMSG", handling.own, sent' # NoFrame, fsm' # fsm
  PROVE  sent'.src = ServerId /\ sent'.dst = handling.src
<1>1. source = handling.src /\ source > ReservedSlots /\ source \in Octet
  BY DEF HandlingInv, MessagesInv, ServerInv, ServerTypeOK
<1>2. sent' = Control(ServerId, source, Offline)
  BY LeavesControl DEF ControlLocal, ControlGateway, Send
<1>3. QED BY <1>1, <1>2 DEF Control

(* A gateway that is not connected when it answers tells the client that    *)
(* sent the message, although the ids were kept aside for a period.         *)
THEOREM GatewayTellsSender ==
  ServerMode = "GATEWAY" /\ SlotsReserved => (ServerSpec => OfflineToSender)
<1> SUFFICES ASSUME ServerMode = "GATEWAY", SlotsReserved PROVE ServerSpec => OfflineToSender
  OBVIOUS
<1>1. ServerSpec => [](MessagesInv /\ HandlingInv) BY HandlingInvariant
<1>2. MessagesInv /\ HandlingInv /\ [ServerNext]_vars =>
        [ (fsm = "CONTROLMSG" /\ handling.own /\ sent' # NoFrame /\ fsm' # fsm) =>
            sent'.src = ServerId /\ sent'.dst = handling.src ]_vars
  BY NoticeIsRight
<1>3. QED BY <1>1, <1>2, PTL DEF ServerSpec, OfflineToSender

-----------------------------------------------------------------------------
(* The limit of the queue.                                                  *)

(* The states in which the machine is on its way to an empty queue; in the  *)
(* others it has found the queue empty since the last SYNC.                 *)
Draining == {"MSG_READ", "STATUSMSG", "CONTROLMSG"}

(* Messages that are in the queue or may still come before the next SYNC.   *)
Expected == queuePos + Cardinality(heard) + foreignLeft

(* With m clients, messages of one SYNC are m at most; those of two SYNCs   *)
(* meet only while the queue is being emptied.                              *)
RoomWith(m) ==
  /\ IsFiniteSet(heard) /\ Cardinality(heard) <= m
  /\ Expected <= (IF fsm \in Draining THEN 2 * m ELSE m) + MaxForeign
  /\ \A k \in 0 .. (queuePos - 1) : queue[k].src > ReservedSlots
  /\ payload # BadLength
  /\ ~overrun

(* The clients in the table now.                                            *)
Members == Cardinality(MemberIds)

(* The queue has two entries for each client that has joined so far, and    *)
(* one for each frame of a neighbour: with the four entries of the code,    *)
(* and no neighbour, as long as one or two clients have joined.             *)
RoomFor == 2 * Members + MaxForeign <= QueueSlots

(* A table has finitely many ids. *)
LEMMA FinitelyMany ==
  ASSUME NEW t PROVE IsFiniteSet({t[i].id : i \in {j \in Rows : t[j].id # 0}})
<1> DEFINE used == {j \in Rows : t[j].id # 0}
           idOf == [i \in used |-> t[i].id]
<1>1. idOf \in Surjection(used, {t[i].id : i \in used}) BY DEF Surjection
<1>2. IsFiniteSet(0 .. (TableSize - 1)) BY FS_Interval
<1>3. used \in SUBSET (0 .. (TableSize - 1)) OBVIOUS
<1>4. IsFiniteSet(used) BY <1>2, <1>3, FS_Subset
<1> HIDE DEF idOf, used
<1>5. IsFiniteSet({t[i].id : i \in used}) BY <1>1, <1>4, FS_Surjection
<1>6. QED BY <1>5 DEF used

(* Clients join and never leave. *)
LEMMA MembersGrow ==
  ASSUME NEW g \in 1 .. (Width - 1), TableInv(g), TableInv(g)', [Next]_tableVars
  PROVE  /\ IsFiniteSet(MemberIds)
         /\ Members \in Nat /\ Members' \in Nat /\ Members <= Members'
<1>1. IsFiniteSet(MemberIds) BY FinitelyMany DEF MemberIds, Registered
<1>2. IsFiniteSet(MemberIds')
  <2>1. IsFiniteSet({table'[i].id : i \in {j \in Rows : table'[j].id # 0}}) BY FinitelyMany
  <2>2. QED BY <2>1 DEF MemberIds, Registered
<1>3. MemberIds \subseteq MemberIds'
  <2>1. \A i \in Registered : table'[i] = table[i] BY RowsAreKept
  <2>2. QED BY <2>1 DEF MemberIds, Registered
<1>4. Cardinality(MemberIds) <= Cardinality(MemberIds') BY <1>2, <1>3, FS_Subset
<1>5. QED BY <1>1, <1>2, <1>4, FS_CardinalityType DEF Members

(* What comes into the queue is expected no more. *)
LEMMA SameBalance ==
  ASSUME NEW q \in Nat, NEW a \in Nat, NEW b \in Nat, NEW c \in Nat, NEW d \in Nat,
         c + d = a + b - 1
  PROVE  (q + 1) + c + d = q + a + b
OBVIOUS

(* So it is with all that is expected. *)
LEMMA SameExpected ==
  ASSUME queuePos \in Nat, queuePos' = queuePos + 1,
         Cardinality(heard) \in Nat, Cardinality(heard') \in Nat,
         foreignLeft \in Nat, foreignLeft' \in Nat,
         Cardinality(heard') + foreignLeft' = Cardinality(heard) + foreignLeft - 1
  PROVE  Expected' = Expected
<1>1. Expected' = queuePos' + Cardinality(heard') + foreignLeft' BY DEF Expected
<1>2. queuePos' + Cardinality(heard') + foreignLeft'
        = queuePos + Cardinality(heard) + foreignLeft
  BY SameBalance
<1>3. QED BY <1>1, <1>2 DEF Expected

(* The empty text is not the error value. *)
LEMMA EmptyIsNoError == NoBody # BadLength
BY DEF NoBody, BadLength

(* A message that was expected finds room. *)
LEMMA StoreRoom ==
  ASSUME NEW m \in Nat, NEW n \in Nat, m <= n, 2 * m + MaxForeign <= QueueSlots,
         ServerTypeOK, RoomWith(m), NEW f, f.src > ReservedSlots, Store(f),
         IsFiniteSet(heard'), Cardinality(heard') <= n, foreignLeft' \in Nat,
         Cardinality(heard') + foreignLeft' = Cardinality(heard) + foreignLeft - 1
  PROVE  RoomWith(n)'
<1>1. /\ Cardinality(heard) \in Nat /\ Cardinality(heard') \in Nat
      /\ queuePos \in 0 .. QueueSlots /\ foreignLeft \in Nat
      /\ queue \in [0 .. (QueueSlots - 1) -> Status \cup {NoStatus}]
  BY FS_CardinalityType DEF RoomWith, ServerTypeOK
<1>2. Expected <= 2 * m + MaxForeign BY <1>1 DEF RoomWith, Expected
<1>3. queuePos < QueueSlots BY <1>1, <1>2 DEF Expected
<1>4. /\ fsm' = fsm /\ queuePos' = queuePos + 1
      /\ queue' = [queue EXCEPT ![queuePos] = f] /\ overrun' = overrun
  BY <1>1, <1>3, StoreQueue
<1>5. Expected' = Expected BY <1>1, <1>4, SameExpected
<1>6. \A k \in 0 .. (queuePos' - 1) : queue'[k].src > ReservedSlots
  <2>1. queue'[queuePos] = f BY <1>1, <1>3, <1>4
  <2>2. \A k \in 0 .. (queuePos - 1) : queue'[k] = queue[k] BY <1>1, <1>4
  <2>3. \A k \in 0 .. (queuePos' - 1) : k \in 0 .. (queuePos - 1) \/ k = queuePos
    BY <1>1, <1>4
  <2>4. QED BY <2>1, <2>2, <2>3 DEF RoomWith
<1>7. payload' = payload BY DEF Store, RxUnchanged, statusVars
<1>8. Expected' <= (IF fsm' \in Draining THEN 2 * n ELSE n) + MaxForeign
  <2>1. Expected \in Nat BY <1>1 DEF Expected
  <2>2. fsm' = fsm BY <1>4
  <2>3. CASE fsm \in Draining
    <3>1. Expected <= 2 * m + MaxForeign BY <2>3 DEF RoomWith
    <3>2. QED BY <1>5, <2>1, <2>2, <2>3, <3>1
  <2>4. CASE fsm \notin Draining
    <3>1. Expected <= m + MaxForeign BY <2>4 DEF RoomWith
    <3>2. QED BY <1>5, <2>1, <2>2, <2>4, <3>1
  <2>5. QED BY <2>3, <2>4
<1>9. QED BY <1>4, <1>6, <1>7, <1>8 DEF RoomWith

(* Each step of a local server leaves room for the messages to come.        *)
LEMMA RoomStep ==
  ASSUME NEW m \in Nat, NEW n \in Nat, m <= n, 2 * m + MaxForeign <= QueueSlots,
         IsFiniteSet(MemberIds), Cardinality(MemberIds) <= m,
         ServerMode = "LOCAL", SlotsReserved, NothingRefused, MessagesInv, RoomWith(m),
         [ServerNext]_vars
  PROVE  RoomWith(n)'
<1>0. /\ ~overrun /\ ServerTypeOK /\ flag \in Flags /\ queuePos \in 0 .. QueueSlots
      /\ heard \subseteq Octet /\ foreignLeft \in Nat
      /\ IsFiniteSet(heard) /\ Cardinality(heard) \in Nat /\ Cardinality(heard) <= n
  BY FS_CardinalityType DEF RoomWith, MessagesInv, ServerInv, ServerTypeOK
<1>1. ASSUME UNCHANGED <<queuePos, queue, heard, foreignLeft, payload>>, ~overrun',
             fsm' = fsm \/ fsm' \in Draining \/ fsm \notin Draining \/ queuePos = 0
      PROVE  RoomWith(n)'
  <2>1. Expected' = Expected BY <1>1 DEF Expected
  <2>2. Expected <= (IF fsm' \in Draining THEN 2 * n ELSE n) + MaxForeign
    <3>1. Expected \in Nat BY <1>0 DEF Expected
    <3>2. CASE queuePos = 0
      <4>1. Expected <= m + MaxForeign
        BY <1>0, <3>2 DEF RoomWith, Expected, MessagesInv, ServerInv, ServerTypeOK
      <4>2. QED BY <3>1, <4>1
    <3>3. CASE fsm' \in Draining BY <3>1, <3>3 DEF RoomWith
    <3>4. CASE fsm \notin Draining BY <3>1, <3>4 DEF RoomWith
    <3>5. QED BY <1>1, <3>2, <3>3, <3>4 DEF RoomWith
  <2>3. QED BY <1>0, <1>1, <2>1, <2>2 DEF RoomWith
<1>2. ASSUME NEW c \in heard, NEW d \in Targets, NEW b \in Bodies, RxStatus(c, d, b)
      PROVE  RoomWith(n)'
  <2> DEFINE f == [src |-> c, dst |-> d, own |-> TRUE, body |-> b]
  <2>1. f.src > ReservedSlots BY DEF MessagesInv, SenderInv
  <2>2. Store(f) /\ heard' = heard \ {c} /\ foreignLeft' = foreignLeft BY <1>2 DEF RxStatus
  <2>3. IsFiniteSet(heard') /\ Cardinality(heard') = Cardinality(heard) - 1
    BY <1>0, <2>2, FS_RemoveElement
  <2> HIDE DEF f
  <2>4. Cardinality(heard') <= n BY <1>0, <2>3 DEF RoomWith
  <2>5. foreignLeft' \in Nat
        /\ Cardinality(heard') + foreignLeft' = Cardinality(heard) + foreignLeft - 1
    BY <1>0, <2>2, <2>3
  <2>6. QED BY <1>0, <2>1, <2>2, <2>3, <2>4, <2>5, StoreRoom
<1>3. ASSUME NEW c \in ForeignIds, NEW d \in Targets, NEW b \in Bodies, RxForeign(c, d, b)
      PROVE  RoomWith(n)'
  <2> DEFINE f == [src |-> c, dst |-> d, own |-> FALSE, body |-> b]
  <2>1. f.src > ReservedSlots BY DEF NothingRefused
  <2>2. /\ Store(f) /\ heard' = heard /\ foreignLeft > 0 /\ foreignLeft' = foreignLeft - 1
    BY <1>3 DEF RxForeign
  <2> HIDE DEF f
  <2>3. IsFiniteSet(heard') /\ Cardinality(heard') <= n BY <1>0, <2>2 DEF RoomWith
  <2>4. QED BY <1>0, <2>1, <2>2, <2>3, StoreRoom
<1>4. ASSUME NEW a \in Macs, RxHead(a) \/ RxOther(a) PROVE RoomWith(n)'
  BY <1>0, <1>1, <1>4 DEF RxHead, RxOther, RxUnchanged, fsmVars, statusVars, queueVars, envVars
<1>5. ASSUME NEW a \in Devices, NEW r \in Requests, NEW v \in BOOLEAN, RxJoinReq(a, r, v)
      PROVE  RoomWith(n)'
  BY <1>0, <1>1, <1>5 DEF RxJoinReq, RxUnchanged, fsmVars, statusVars, queueVars, envVars
<1>6. CASE PressButton \/ GatewayApp \/ UNCHANGED vars
  BY <1>0, <1>1, <1>6 DEF PressButton, GatewayApp, vars, fsmVars, statusVars, queueVars, envVars
<1>7. CASE Start \/ JoinRequest \/ JoinResponse
  BY <1>0, <1>1, <1>7 DEF Start, JoinRequest, JoinResponse, At, statusVars, queueVars, envVars,
                    Draining
<1>8. CASE MsgRead
  <2>1. CASE queuePos = 0
    BY <1>0, <1>1, <1>8, <2>1 DEF MsgRead, statusVars, queueVars, envVars
  <2>2. CASE queuePos # 0
    BY <1>0, <1>1, <1>8, <2>2 DEF MsgRead, statusVars, queueVars, envVars, Draining
  <2>3. QED BY <2>1, <2>2
<1>9. CASE Sync
  <2>1. /\ heard' = MemberIds /\ fsm = "SYNC" /\ fsm' = "MSG_READ"
        /\ UNCHANGED <<queuePos, queue, foreignLeft, payload, overrun>>
    BY <1>9 DEF Sync, At, queueVars, statusVars
  <2>2. IsFiniteSet(heard') /\ Cardinality(heard') <= m BY <2>1
  <2>3. Cardinality(heard') \in Nat BY <2>2, FS_CardinalityType
  <2>4. Expected <= m + MaxForeign BY <2>1 DEF RoomWith, Draining
  <2>5. Expected' <= 2 * n + MaxForeign
    BY <1>0, <2>1, <2>2, <2>3, <2>4 DEF Expected
  <2>6. Cardinality(heard') <= n BY <2>2, <2>3
  <2>7. QED BY <2>1, <2>2, <2>5, <2>6 DEF RoomWith, Draining
<1>10. CASE StatusMsg
  <2> DEFINE f == queue[queuePos - 1]
  <2>1. queuePos > 0 /\ StatusLocal(f) /\ TakeStatus(f)
    BY <1>10 DEF StatusMsg, StatusLocal, StatusForward, StatusOffline, StatusDrop
  <2>2. f.src > ReservedSlots BY <1>0, <2>1 DEF RoomWith
  <2>3. f \in Status \cup {NoStatus} BY <1>0, <2>1 DEF ServerTypeOK
  <2>4. /\ UNCHANGED <<heard, foreignLeft, overrun>> /\ fsm' = "CONTROLMSG"
        /\ queuePos' = queuePos - 1 /\ queue' = [queue EXCEPT ![queuePos - 1] = NoStatus]
        /\ fsm = "STATUSMSG"
    BY <2>1 DEF StatusLocal, TakeStatus, envVars, At
  <2>5. payload' # BadLength
    <3>1. payload' = ReadPayload(f) BY <2>1 DEF TakeStatus
    <3> HIDE DEF f
    <3>2. NoStatus.src = 0 BY DEF NoStatus
    <3>3. f # NoStatus BY <2>2, <3>2
    <3>4. f.body \in Bodies /\ f.src \in Octet BY <2>3, <3>3 DEF Status
    <3>5. ~(f.src <= ReservedSlots) BY <2>2, <3>4
    <3>6. ReadPayload(f) \in {f.body, NoBody} BY <3>5 DEF ReadPayload
    <3>7. QED BY <3>1, <3>4, <3>6, EmptyIsNoError DEF NothingRefused
  <2>6. Expected' <= Expected /\ Expected \in Nat /\ Expected' \in Nat
    BY <1>0, <2>1, <2>4 DEF Expected
  <2>7. \A k \in 0 .. (queuePos' - 1) : k \in 0 .. (queuePos - 1) /\ queue'[k] = queue[k]
    BY <1>0, <2>1, <2>4 DEF ServerTypeOK
  <2> HIDE DEF f
  <2>8. Expected' <= 2 * n + MaxForeign
    <3>1. Expected <= 2 * m + MaxForeign BY <2>4 DEF RoomWith, Draining
    <3>2. QED BY <2>6, <3>1
  <2>9. QED BY <1>0, <2>4, <2>5, <2>7, <2>8 DEF RoomWith, Draining
<1>11. CASE ControlLocal
  <2>1. ~overrun' BY <1>11 DEF ControlLocal, RoomWith
  <2>2. /\ UNCHANGED <<queuePos, queue, heard, foreignLeft, payload>>
        /\ fsm' = AfterQueue(queuePos)
    BY <1>11 DEF ControlLocal, ControlDone, queueVars, envVars
  <2>3. fsm' \in Draining \/ queuePos = 0 BY <1>0, <2>2 DEF AfterQueue, Draining
  <2>4. QED BY <1>1, <2>1, <2>2, <2>3
<1>12. CASE ControlGateway BY <1>12 DEF ControlGateway
<1>13. QED
  BY <1>2, <1>3, <1>4, <1>5, <1>6, <1>7, <1>8, <1>9, <1>10, <1>11, <1>12
  DEF ServerNext, Tick, Receive

(* Nothing is expected in the beginning but the neighbours' frames. *)
LEMMA RoomInit == ServerInit => RoomWith(Members)
<1> SUFFICES ASSUME ServerInit PROVE RoomWith(Members) OBVIOUS
<1>1. IsFiniteSet(heard) /\ Cardinality(heard) = 0 BY FS_EmptySet DEF ServerInit
<1>2. Expected = MaxForeign BY <1>1 DEF ServerInit, Expected
<1>3. Members \in Nat
  <2>1. IsFiniteSet(MemberIds) BY FinitelyMany DEF MemberIds, Registered
  <2>2. QED BY <2>1, FS_CardinalityType DEF Members
<1>4. QED BY <1>1, <1>2, <1>3, EmptyIsNoError DEF ServerInit, RoomWith, Draining

(* While no more clients have joined a local server than half the entries   *)
(* of its queue (two with the code's four entries, in a table of any size), *)
(* it never writes beyond the queue, although the interrupt checks one      *)
(* entry too late and messages of two SYNCs may be waiting; nor does it     *)
(* copy an error value in place of a length.                                *)
THEOREM LocalQueueSuffices ==
  ServerMode = "LOCAL" /\ SlotsReserved /\ NothingRefused
    => (ServerSpec => [](RoomFor => NoOverrun))
<1> SUFFICES ASSUME ServerMode = "LOCAL", SlotsReserved, NothingRefused
             PROVE  ServerSpec => [](RoomFor => NoOverrun)
  OBVIOUS
<1> PICK g \in 1 .. (Width - 1) : GrantBound(g) BY DEF SlotsReserved, NoWrap
<1>1. Spec => []TableInv(g) BY TableInvariant
<1>2. ServerSpec => Spec BY ServerUsesTable
<1>3. ServerSpec => []MessagesInv BY MessagesInvariant
<1>4. TableInv(g) /\ TableInv(g)' /\ MessagesInv /\ (RoomFor => RoomWith(Members)) /\ [ServerNext]_vars
        => (RoomFor => RoomWith(Members))'
  <2> SUFFICES ASSUME TableInv(g), TableInv(g)', MessagesInv, RoomFor => RoomWith(Members),
                      [ServerNext]_vars, RoomFor'
               PROVE  RoomWith(Members)'
    OBVIOUS
  <2>1. [Next]_tableVars BY CallsOnTable DEF MessagesInv, ServerInv
  <2>2. /\ IsFiniteSet(MemberIds)
        /\ Members \in Nat /\ Members' \in Nat /\ Members <= Members'
    BY <2>1, MembersGrow
  <2>3. PICK m \in Nat : m = Members BY <2>2
  <2>4. PICK n \in Nat : n = Members' BY <2>2
  <2>5. m <= n BY <2>2, <2>3, <2>4
  <2>6. 2 * n + MaxForeign <= QueueSlots BY <2>4 DEF RoomFor
  <2>7. 2 * m + MaxForeign <= QueueSlots BY <2>5, <2>6
  <2>8. RoomFor BY <2>3, <2>7 DEF RoomFor
  <2>9. RoomWith(m) BY <2>3, <2>8
  <2>10. IsFiniteSet(MemberIds) /\ Cardinality(MemberIds) <= m BY <2>2, <2>3 DEF Members
  <2>11. RoomWith(n)' BY <2>5, <2>7, <2>9, <2>10, RoomStep
  <2>12. QED BY <2>4, <2>11
<1>5. (RoomFor => RoomWith(Members)) => (RoomFor => NoOverrun) BY DEF RoomWith, NoOverrun
<1>6. ServerInit => (RoomFor => RoomWith(Members)) BY RoomInit
<1>7. QED BY <1>1, <1>2, <1>3, <1>4, <1>5, <1>6, PTL DEF ServerSpec

-----------------------------------------------------------------------------
(* Join requests.                                                           *)

(* The flag of a request is cleared to read it, or for a message.           *)
LEMMA FlagYields ==
  ASSUME ServerInv, [ServerNext]_vars, flag = "JOINREQ", flag' # "JOINREQ"
  PROVE  fsm = "JOINREQ" \/ fsm' = "JOINREQ" \/ queuePos > 0 \/ queuePos' > 0
<1>0. ServerTypeOK /\ queuePos \in 0 .. QueueSlots BY DEF ServerInv, ServerTypeOK
<1>1. ASSUME NEW f, Store(f) PROVE queuePos > 0 \/ queuePos' > 0
  BY <1>0, <1>1, StoreQueue
<1>2. CASE Receive
  BY <1>1, <1>2 DEF Receive, RxHead, RxOther, RxJoinReq, RxStatus, RxForeign
<1>3. CASE MsgRead BY <1>0, <1>3 DEF MsgRead
<1>4. CASE JoinRequest BY <1>4 DEF JoinRequest, At
<1>5. CASE StatusMsg BY <1>5 DEF StatusMsg
<1>6. CASE PressButton \/ GatewayApp \/ Start \/ Sync \/ JoinResponse \/ ControlLocal
           \/ ControlGateway \/ UNCHANGED vars
  BY <1>6 DEF PressButton, GatewayApp, Start, Sync, JoinResponse, ControlLocal,
              ControlGateway, ControlDone, vars
<1>7. QED BY <1>2, <1>3, <1>4, <1>5, <1>6 DEF ServerNext, Tick

(* A join request is read by the state machine unless a message of a client *)
(* comes before it, for any number of clients and in both modes.            *)
THEOREM RequestsYieldToMessages == ServerSpec => JoinRequestYields
<1>1. ServerInv /\ [ServerNext]_vars =>
        [ (flag = "JOINREQ" /\ flag' # "JOINREQ") =>
            fsm = "JOINREQ" \/ fsm' = "JOINREQ" \/ queuePos > 0 \/ queuePos' > 0 ]_vars
  BY FlagYields
<1>2. QED BY <1>1, ServerInvariant, PTL DEF ServerSpec, JoinRequestYields
=============================================================================
