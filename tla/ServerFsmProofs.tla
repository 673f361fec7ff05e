--------------------------- MODULE ServerFsmProofs ---------------------------
(* Proofs about ServerFsm, for every table, every queue and both modes.     *)
EXTENDS ServerFsm, DeviceTableProofs, FiniteSetTheorems

USE SizesAssumption, QueueAssumption DEF Octet, Rows, BroadcastSlot, ReservedSlots, ServerId

-----------------------------------------------------------------------------
(* The device table inside the server.                                      *)

(* A request that reads as valid carries an address and a slot count that a *)
(* frame carried: the buffer is blanked before it is read again, and a half *)
(* received frame writes an address only.                                   *)
ReadMsgOK == /\ readMsg \in JoinReq
             /\ readMsg.valid => readMsg.mac \in Macs /\ readMsg.slots \in Requests

(* Every step of the server is a call on the table or leaves it alone.      *)
LEMMA CallsOnTable ==
  ASSUME ReadMsgOK, [ServerNext]_vars PROVE [Next]_tableVars
<1>1. CASE Receive
  BY <1>1 DEF Receive, RxHead, RxOther, RxJoinReq, RxStatus, RxForeign, Store, RxUnchanged,
              tableVars
<1>2. CASE PressButton BY <1>2 DEF PressButton, tableVars
<1>3. CASE GatewayApp BY <1>3 DEF GatewayApp, tableVars
<1>4. CASE Start BY <1>4 DEF Start, Next
<1>5. CASE MsgRead BY <1>5 DEF MsgRead, Next
<1>6. CASE Sync BY <1>6 DEF Sync, Next
<1>7. CASE JoinRequest
  <2>1. CASE Refresh BY <2>1 DEF Next
  <2>2. CASE readMsg.valid /\ Update(readMsg.mac, readMsg.slots)
    <3>1. readMsg.mac \in Macs /\ readMsg.slots \in Requests BY <2>2 DEF ReadMsgOK
    <3>2. QED BY <2>2, <3>1 DEF Next
  <2>3. QED BY <1>7, <2>1, <2>2 DEF JoinRequest
<1>8. CASE JoinResponse BY <1>8 DEF JoinResponse, Next
<1>9. CASE StatusMsg
  BY <1>9 DEF StatusMsg, StatusLocal, StatusForward, StatusOffline, StatusDrop, TakeStatus, Next
<1>10. CASE ControlLocal BY <1>10 DEF ControlLocal, ControlDone, Next
<1>11. CASE ControlGateway BY <1>11 DEF ControlGateway, ControlDone, Next
<1>12. CASE UNCHANGED vars BY <1>12 DEF vars
<1>13. QED
  BY <1>1, <1>2, <1>3, <1>4, <1>5, <1>6, <1>7, <1>8, <1>9, <1>10, <1>11, <1>12
  DEF ServerNext, Tick

(* The buffer starts blank. *)
LEMMA ReadMsgInit == ServerInit => ReadMsgOK
BY DEF ServerInit, ReadMsgOK, Blank, JoinReq

(* Every write to the buffer keeps a valid request whole. *)
LEMMA ReadMsgStep == ASSUME ReadMsgOK, [ServerNext]_vars PROVE ReadMsgOK'
<1> USE DEF ReadMsgOK, JoinReq
<1>0. Blank \in JoinReq /\ ~Blank.valid BY DEF Blank
<1>1. ASSUME NEW m \in Macs, RxHead(m) PROVE ReadMsgOK'
  BY <1>1 DEF RxHead
<1>2. ASSUME NEW m \in Macs, RxOther(m) PROVE ReadMsgOK'
  BY <1>2 DEF RxOther
<1>3. ASSUME NEW m \in Devices, NEW r \in Requests, NEW v \in BOOLEAN, RxJoinReq(m, r, v)
      PROVE  ReadMsgOK'
  BY <1>3, DevicesAssumption DEF RxJoinReq
<1>4. CASE readMsg' = Blank BY <1>0, <1>4
<1>5. CASE readMsg' = readMsg BY <1>5
<1>6. QED
  <2>1. CASE Receive
    BY <1>1, <1>2, <1>3, <1>4, <2>1 DEF Receive, RxStatus, RxForeign, Store
  <2>2. CASE ServerNext /\ ~Receive
    BY <1>4, <1>5, <2>2
    DEF ServerNext, PressButton, GatewayApp, Tick, Start, MsgRead, Sync, JoinRequest,
        JoinResponse, StatusMsg, StatusLocal, StatusForward, StatusOffline, StatusDrop,
        TakeStatus, ControlLocal, ControlGateway, ControlDone
  <2>3. CASE UNCHANGED vars BY <1>5, <2>3 DEF vars
  <2>4. QED BY <2>1, <2>2, <2>3

(* The server is a user of the table that keeps to its calls.               *)
THEOREM ServerUsesTable == ServerSpec => Spec /\ KeepsTable
<1>1. ServerInit => Init BY DEF ServerInit
<1>2. QED
  BY <1>1, ReadMsgInit, ReadMsgStep, CallsOnTable, PTL DEF ServerSpec, Spec, KeepsTable

(* So no two clients of a running server share a transmit slot, whatever    *)
(* its interrupts do and in whatever order.                                 *)
THEOREM ServerSlotsAreUnique == NoWrap => (ServerSpec => []UniqueSlots)
<1> SUFFICES ASSUME NoWrap PROVE ServerSpec => []UniqueSlots OBVIOUS
<1>1. Spec => []UniqueSlots BY SlotsAreUnique
<1>2. QED BY <1>1, ServerUsesTable, PTL

-----------------------------------------------------------------------------
(* The flag and the queue.                                                  *)
QueueInv == /\ queuePos \in 0 .. QueueSlots
            /\ QueueFeedsStatus

(* The queue starts empty, with no flag. *)
LEMMA QueueInit == ServerInit => QueueInv
BY DEF ServerInit, QueueInv, QueueFeedsStatus

(* A flag is set with the message it announces and cleared when one is taken. *)
LEMMA QueueStep == ASSUME QueueInv, [ServerNext]_vars PROVE QueueInv'
<1> USE DEF QueueInv, QueueFeedsStatus
<1>1. ASSUME NEW f, Store(f) PROVE QueueInv'
  BY <1>1 DEF Store, RxUnchanged, queueVars, fsmVars
<1>2. CASE Receive
  BY <1>1, <1>2 DEF Receive, RxHead, RxOther, RxJoinReq, RxStatus, RxForeign, RxUnchanged,
                    queueVars, fsmVars
<1>3. CASE PressButton \/ GatewayApp
  BY <1>3 DEF PressButton, GatewayApp, queueVars, fsmVars
<1>4. CASE Start \/ MsgRead \/ Sync \/ JoinRequest \/ JoinResponse
  BY <1>4 DEF Start, MsgRead, Sync, JoinRequest, JoinResponse, queueVars
<1>5. CASE StatusMsg
  BY <1>5 DEF StatusMsg, StatusLocal, StatusForward, StatusOffline, StatusDrop, TakeStatus,
              AfterQueue
<1>6. CASE ControlLocal \/ ControlGateway
  BY <1>6 DEF ControlLocal, ControlGateway, ControlDone, AfterQueue, queueVars
<1>7. CASE UNCHANGED vars BY <1>7 DEF vars, queueVars, fsmVars
<1>8. QED BY <1>2, <1>3, <1>4, <1>5, <1>6, <1>7 DEF ServerNext, Tick

(* The status state never finds the queue empty: the flag does not outlive  *)
(* the message it announced.                                                *)
THEOREM StatusHasMessage == ServerSpec => []QueueFeedsStatus
<1>1. QueueInv => QueueFeedsStatus BY DEF QueueInv
<1>2. QED BY <1>1, QueueInit, QueueStep, PTL DEF ServerSpec

-----------------------------------------------------------------------------
(* The timer.                                                               *)

(* Lifting the counter twice is lifting it once. *)
LEMMA RefreshKeepsRaised == ASSUME TypeOK, Refresh PROVE RaisedSlots' = RaisedSlots
BY DEF TypeOK, Refresh, RaisedSlots

(* The machine starts in START, of which nothing is asked. *)
LEMMA TimerInit == ServerInit => TimerFollowsState
BY DEF ServerInit, TimerFollowsState

(* Each state sets the timer that the next one needs. *)
LEMMA TimerStep ==
  ASSUME TypeOK, flag \in Flags, TimerFollowsState, [ServerNext]_vars
  PROVE  TimerFollowsState'
<1> USE DEF TimerFollowsState
<1>1. CASE Receive \/ PressButton \/ GatewayApp \/ UNCHANGED vars
  <2>1. UNCHANGED <<fsm, timer, totalSlots>>
    BY <1>1 DEF Receive, RxHead, RxOther, RxJoinReq, RxStatus, RxForeign, Store, RxUnchanged,
                PressButton, GatewayApp, vars, fsmVars, tableVars
  <2>2. QED BY <2>1 DEF RaisedSlots
<1>2. CASE Start \/ JoinResponse
  BY <1>2, RefreshKeepsRaised DEF Start, JoinResponse, SetSyncSlot
<1>3. CASE MsgRead
  <2>1. Refresh /\ timer' = timer /\ fsm = "MSG_READ" BY <1>3 DEF MsgRead, At
  <2>2. fsm' \in {"STATUSMSG", "SYNC", "JOINREQ"} BY <1>3 DEF MsgRead, Flags
  <2>3. QED BY <2>1, <2>2, RefreshKeepsRaised
<1>4. CASE Sync
  BY <1>4, RefreshKeepsRaised DEF Sync, At
<1>5. CASE JoinRequest
  BY <1>5, RefreshKeepsRaised DEF JoinRequest, At, SetBroadcastSlot
<1>6. CASE StatusMsg
  BY <1>6, RefreshKeepsRaised, ModeAssumption
  DEF StatusMsg, StatusLocal, StatusForward, StatusOffline, StatusDrop, TakeStatus, AfterQueue,
      SetBroadcastSlot, At
<1>7. CASE ControlLocal
  BY <1>7, RefreshKeepsRaised DEF ControlLocal, ControlDone, AfterQueue, SetSyncSlot
<1>8. CASE ControlGateway
  BY <1>8 DEF ControlGateway, ControlDone, AfterQueue
<1>9. QED BY <1>1, <1>2, <1>3, <1>4, <1>5, <1>6, <1>7, <1>8 DEF ServerNext, Tick

-----------------------------------------------------------------------------
(* Types.                                                                   *)

(* The part of ServerTypeOK that is not the table's, split by what changes  *)
(* it together.                                                             *)
FsmTypes    == fsm \in States /\ timer \in Octet /\ flag \in Flags
QueueTypes  == /\ queue \in [0 .. (QueueSlots - 1) -> Status \cup {NoStatus}]
               /\ queuePos \in 0 .. QueueSlots
StatusTypes == /\ source \in Octet /\ destination \in Octet
               /\ payload \in Bodies \cup {NoBody, BadLength, Offline}
               /\ handling \in Status \cup {NoStatus}
AppTypes    == /\ joinResponse \in BOOLEAN /\ connected \in BOOLEAN
               /\ netReady \in BOOLEAN /\ netMsg \in Bodies \cup {NoBody}
               /\ overrun \in BOOLEAN
EnvTypes    == heard \subseteq Octet /\ foreignLeft \in 0 .. MaxForeign

(* The parts make up the whole. *)
LEMMA TypeParts ==
  ServerTypeOK <=> /\ TypeOK /\ readMsg \in JoinReq
                   /\ FsmTypes /\ QueueTypes /\ StatusTypes /\ AppTypes /\ EnvTypes
BY DEF ServerTypeOK, FsmTypes, QueueTypes, StatusTypes, AppTypes, EnvTypes

ServerInv == ServerTypeOK /\ ReadMsgOK /\ QueueInv /\ TimerFollowsState

(* The lifted counter is an octet. *)
LEMMA RaisedTypes == ASSUME TypeOK PROVE RaisedSlots \in Octet
BY DEF TypeOK, RaisedSlots

(* The ids of the clients are octets. *)
LEMMA MemberTypes == ASSUME TypeOK PROVE MemberIds \subseteq Octet
BY RowTypes DEF MemberIds, Registered

(* A frame that is stored keeps the types, and the end of the queue in it.  *)
LEMMA StoreTypes ==
  ASSUME ServerTypeOK, NEW f \in Status, Store(f)
  PROVE  FsmTypes' /\ QueueTypes' /\ StatusTypes' /\ AppTypes'
<1> USE TypeParts
<1>1. FsmTypes' BY DEF Store, RxUnchanged, fsmVars, FsmTypes, Flags
<1>2. QueueTypes'
  <2>1. CASE queuePos < QueueSlots
    <3>1. queue' = [queue EXCEPT ![queuePos] = f] /\ queuePos' = queuePos + 1
      BY <2>1 DEF Store, QueueTypes
    <3>2. QED BY <2>1, <3>1 DEF QueueTypes
  <2>2. CASE UNCHANGED queueVars BY <2>2 DEF queueVars, QueueTypes
  <2>3. QED BY <2>1, <2>2 DEF Store, QueueTypes
<1>3. StatusTypes' BY DEF Store, RxUnchanged, statusVars, StatusTypes
<1>4. AppTypes' BY DEF Store, RxUnchanged, appVars, AppTypes
<1>5. QED BY <1>1, <1>2, <1>3, <1>4

(* The receive interrupt keeps the types. *)
LEMMA ReceiveTypes ==
  ASSUME ServerTypeOK, Receive
  PROVE  FsmTypes' /\ QueueTypes' /\ StatusTypes' /\ AppTypes' /\ EnvTypes'
<1> USE TypeParts
<1>1. ASSUME NEW m \in Macs, RxHead(m) \/ RxOther(m)
      PROVE  FsmTypes' /\ QueueTypes' /\ StatusTypes' /\ AppTypes' /\ EnvTypes'
  BY <1>1 DEF RxHead, RxOther, RxUnchanged, fsmVars, queueVars, statusVars, appVars, envVars,
              FsmTypes, QueueTypes, StatusTypes, AppTypes, EnvTypes
<1>2. ASSUME NEW m \in Devices, NEW r \in Requests, NEW v \in BOOLEAN, RxJoinReq(m, r, v)
      PROVE  FsmTypes' /\ QueueTypes' /\ StatusTypes' /\ AppTypes' /\ EnvTypes'
  BY <1>2 DEF RxJoinReq, RxUnchanged, fsmVars, queueVars, statusVars, appVars, envVars,
              FsmTypes, QueueTypes, StatusTypes, AppTypes, EnvTypes, Flags
<1>3. ASSUME NEW c \in heard, NEW d \in Targets, NEW b \in Bodies, RxStatus(c, d, b)
      PROVE  FsmTypes' /\ QueueTypes' /\ StatusTypes' /\ AppTypes' /\ EnvTypes'
  <2>1. [src |-> c, dst |-> d, own |-> TRUE, body |-> b] \in Status BY DEF EnvTypes, Status
  <2>2. EnvTypes' BY <1>3 DEF RxStatus, EnvTypes
  <2>3. QED BY <1>3, <2>1, <2>2, StoreTypes DEF RxStatus
<1>4. ASSUME NEW c \in ForeignIds, NEW d \in Targets, NEW b \in Bodies, RxForeign(c, d, b)
      PROVE  FsmTypes' /\ QueueTypes' /\ StatusTypes' /\ AppTypes' /\ EnvTypes'
  <2>1. [src |-> c, dst |-> d, own |-> FALSE, body |-> b] \in Status BY DEF Status
  <2>2. EnvTypes' BY <1>4 DEF RxForeign, EnvTypes
  <2>3. QED BY <1>4, <2>1, <2>2, StoreTypes DEF RxForeign
<1>5. QED BY <1>1, <1>2, <1>3, <1>4 DEF Receive

(* The frame on the top of the queue, and what is read from it. *)
LEMMA ReadTypes ==
  ASSUME StatusTypes, NEW f \in Status \cup {NoStatus}
  PROVE  /\ ReadSource(f) \in Octet /\ ReadDestination(f) \in Octet
         /\ ReadPayload(f) \in Bodies \cup {NoBody, BadLength, Offline}
         /\ ReadDestination(f) = 1 => ReadPayload(f) \in Bodies \cup {NoBody}
<1>1. CASE f = NoStatus
  <2>1. f.src = 0 BY <1>1 DEF NoStatus
  <2>2. QED BY <2>1 DEF ReadSource, ReadDestination, ReadPayload, StatusTypes
<1>2. CASE f \in Status
  <2>1. f.src \in Octet /\ f.dst \in Octet /\ f.own \in BOOLEAN /\ f.body \in Bodies
    BY <1>2 DEF Status
  <2>2. QED BY <2>1 DEF ReadSource, ReadDestination, ReadPayload, StatusTypes
<1>3. QED BY <1>1, <1>2

(* The status state keeps the types: the frame it takes is one of the queue. *)
LEMMA StatusMsgTypes ==
  ASSUME ServerTypeOK, StatusMsg
  PROVE  FsmTypes' /\ QueueTypes' /\ StatusTypes' /\ AppTypes' /\ EnvTypes'
<1> DEFINE f == queue[queuePos - 1]
<1>1. StatusLocal(f) \/ StatusForward(f) \/ StatusOffline(f) \/ StatusDrop(f)
  BY DEF StatusMsg
<1>2. queuePos \in 1 .. QueueSlots BY TypeParts DEF StatusMsg, QueueTypes
<1>3. f \in Status \cup {NoStatus} BY <1>2, TypeParts DEF QueueTypes
<1> HIDE DEF f
<1>4. TakeStatus(f) BY <1>1 DEF StatusLocal, StatusForward, StatusOffline, StatusDrop
<1>5. QueueTypes' BY <1>2, <1>4, TypeParts DEF TakeStatus, QueueTypes
<1>6. StatusTypes'
  <2>1. destination' \in {0, ReadDestination(f)}
    BY <1>1 DEF StatusLocal, StatusForward, StatusOffline, StatusDrop
  <2>2. QED BY <1>3, <1>4, <2>1, ReadTypes, TypeParts DEF TakeStatus, StatusTypes
<1>7. AppTypes'
  <2>1. UNCHANGED <<joinResponse, connected, overrun>> BY <1>4 DEF TakeStatus
  <2>2. CASE StatusForward(f)
    BY <1>3, <2>1, <2>2, ReadTypes, TypeParts DEF StatusForward, AppTypes
  <2>3. CASE UNCHANGED <<netReady, netMsg>> BY <2>1, <2>3, TypeParts DEF AppTypes
  <2>4. QED BY <1>1, <2>2, <2>3 DEF StatusLocal, StatusOffline, StatusDrop
<1>8. FsmTypes'
  BY <1>1, <1>4, TypeParts
  DEF StatusLocal, StatusForward, StatusOffline, StatusDrop, TakeStatus, AfterQueue,
      SetBroadcastSlot, FsmTypes, States, Flags
<1>9. EnvTypes' BY <1>4, TypeParts DEF TakeStatus, envVars, EnvTypes
<1>10. QED BY <1>5, <1>6, <1>7, <1>8, <1>9

(* The control state keeps the types. *)
LEMMA ControlTypes ==
  ASSUME ServerTypeOK, ControlLocal \/ ControlGateway
  PROVE  FsmTypes' /\ QueueTypes' /\ StatusTypes' /\ AppTypes' /\ EnvTypes'
<1> USE TypeParts
<1>0. ControlDone BY DEF ControlLocal, ControlGateway
<1>1. QueueTypes' /\ EnvTypes'
  BY <1>0 DEF ControlDone, queueVars, envVars, QueueTypes, EnvTypes
<1>2. FsmTypes'
  BY <1>0, RaisedTypes
  DEF ControlDone, ControlLocal, ControlGateway, SetSyncSlot, AfterQueue, FsmTypes, States
<1>3. StatusTypes'
  BY <1>0 DEF ControlDone, ControlLocal, ControlGateway, StatusTypes
<1>4. overrun' \in BOOLEAN BY DEF ControlLocal, ControlGateway, AppTypes
<1>5. AppTypes' BY <1>0, <1>4 DEF ControlDone, appVars, AppTypes
<1>6. QED BY <1>1, <1>2, <1>3, <1>5

(* So do the steps that touch neither the queue nor the ids kept aside. *)
LEMMA QuietTypes ==
  ASSUME ServerTypeOK,
         \/ PressButton \/ GatewayApp \/ Start \/ MsgRead \/ Sync \/ JoinRequest
         \/ JoinResponse \/ UNCHANGED vars
  PROVE  FsmTypes' /\ QueueTypes' /\ StatusTypes' /\ AppTypes' /\ EnvTypes'
<1> USE TypeParts
<1>1. QueueTypes' /\ StatusTypes'
  BY DEF PressButton, GatewayApp, Start, MsgRead, Sync, JoinRequest, JoinResponse, vars,
         queueVars, statusVars, QueueTypes, StatusTypes
<1>2. EnvTypes'
  BY MemberTypes
  DEF PressButton, GatewayApp, Start, MsgRead, Sync, JoinRequest, JoinResponse, vars,
      envVars, EnvTypes
<1>3. AppTypes'
  BY DEF PressButton, GatewayApp, Start, MsgRead, Sync, JoinRequest, JoinResponse, vars,
         appVars, AppTypes
<1>4. FsmTypes'
  <2>1. CASE MsgRead BY <2>1 DEF MsgRead, FsmTypes, States, Flags
  <2>2. CASE JoinRequest
    BY <2>2 DEF JoinRequest, SetBroadcastSlot, FsmTypes, States, Flags
  <2>3. QED
    BY <2>1, <2>2, RaisedTypes
    DEF PressButton, GatewayApp, Start, Sync, JoinResponse, vars, fsmVars, SetSyncSlot,
        FsmTypes, States
<1>5. QED BY <1>1, <1>2, <1>3, <1>4

(* The server starts in the invariant. *)
LEMMA ServerInvInit == ServerInit => ServerInv
<1> SUFFICES ASSUME ServerInit PROVE ServerInv OBVIOUS
<1>1. TypeOK BY TypeInit DEF ServerInit
<1>2. FsmTypes /\ QueueTypes /\ StatusTypes /\ AppTypes /\ EnvTypes
  <2>1. FsmTypes BY DEF ServerInit, FsmTypes, States, Flags
  <2>2. QueueTypes BY DEF ServerInit, QueueTypes
  <2>3. StatusTypes BY DEF ServerInit, StatusTypes
  <2>4. AppTypes BY DEF ServerInit, AppTypes
  <2>5. EnvTypes BY DEF ServerInit, EnvTypes
  <2>6. QED BY <2>1, <2>2, <2>3, <2>4, <2>5
<1>3. ReadMsgOK /\ QueueInv /\ TimerFollowsState BY ReadMsgInit, QueueInit, TimerInit
<1>4. QED BY <1>1, <1>2, <1>3, TypeParts DEF ServerInv, ReadMsgOK

(* The invariant is inductive. *)
LEMMA ServerInvStep == ASSUME ServerInv, [ServerNext]_vars PROVE ServerInv'
<1>1. ServerTypeOK /\ TypeOK /\ flag \in Flags BY DEF ServerInv, ServerTypeOK
<1>2. ReadMsgOK' /\ QueueInv' /\ TimerFollowsState'
  BY <1>1, ReadMsgStep, QueueStep, TimerStep DEF ServerInv
<1>3. TypeOK' BY <1>1, CallsOnTable, TypeStep DEF ServerInv
<1>4. FsmTypes' /\ QueueTypes' /\ StatusTypes' /\ AppTypes' /\ EnvTypes'
  BY <1>1, ReceiveTypes, StatusMsgTypes, ControlTypes, QuietTypes DEF ServerNext, Tick
<1>5. ServerTypeOK' BY <1>2, <1>3, <1>4, TypeParts DEF ReadMsgOK,
        ServerTypeOK, FsmTypes, QueueTypes, StatusTypes, AppTypes, EnvTypes
<1>6. QED BY <1>2, <1>5 DEF ServerInv

(* The invariant holds in every state of the server. *)
LEMMA ServerInvariant == ServerSpec => []ServerInv
BY ServerInvInit, ServerInvStep, PTL DEF ServerSpec

(* All the state of the server keeps its type: the queue position stays     *)
(* within the queue, and the state machine in its states.                   *)
THEOREM ServerTypeCorrect == ServerSpec => []ServerTypeOK
<1>1. ServerInv => ServerTypeOK BY DEF ServerInv
<1>2. QED BY <1>1, ServerInvariant, PTL

(* A JOINRESP or CONTRL frame is always sent after the broadcast slot, and  *)
(* a local server waits as many slots as it has given away before any other *)
(* state.                                                                   *)
THEOREM TimerIsSet == ServerSpec => []TimerFollowsState
<1>1. ServerInv => TimerFollowsState BY DEF ServerInv
<1>2. QED BY <1>1, ServerInvariant, PTL

-----------------------------------------------------------------------------
(* The answer to a join request, sent one timer period after the table was  *)
(* asked, is for the device that asked.                                     *)

(* Addresses without a zero octet, for each of which the table has a row.   *)
Roomy(D) == /\ D \subseteq Macs /\ \A m \in D : Plain(m)
            /\ IsFiniteSet(D) /\ Cardinality(D) <= TableSize

(* The rows of the clients hold addresses of D. *)
RowsOf(D) == \A i \in Registered : table[i].mac \in D

(* Only a registration changes rows, and its address is the caller's. *)
LEMMA RowsOfUpdate ==
  ASSUME NEW g \in 1 .. (Width - 1), TableInv(g), TableInv(g)', NEW D, D \subseteq Macs,
         RowsOf(D), NEW m \in D, NEW r \in Requests, Update(m, r)
  PROVE  RowsOf(D)'
<1>1. ASSUME NEW i \in Rows, Register(i, m, r) PROVE RowsOf(D)'
  <2>1. /\ Registered' \subseteq Registered \cup {i}
        /\ \A j \in Registered : table'[j] = table[j]
        /\ table'[i].mac = m
    BY <1>1, RegisterRows
  <2>2. QED BY <2>1 DEF RowsOf
<1>2. CASE table' = table BY <1>2 DEF RowsOf, Registered
<1>3. QED BY <1>1, <1>2 DEF Update, Refuse, Duplicate, Overflow

(* While there is a row for every address, a device that is not in a full   *)
(* table does not exist: the rows hold different addresses, none of them    *)
(* its own.                                                                 *)
LEMMA NeverFull ==
  ASSUME NEW g \in 1 .. (Width - 1), TableInv(g), NEW D, Roomy(D), RowsOf(D), NEW m \in D,
         \A i \in Rows : i \in Registered /\ ~SameMac(table[i].mac, m)
  PROVE  FALSE
<1> DEFINE macOf == [i \in Rows |-> table[i].mac]
           Others == D \ {m}
<1>1. \A a : SameMac(a, a) BY DEF SameMac
<1>2. \A i \in Rows : table[i].mac \in Others BY <1>1 DEF RowsOf
<1>3. \A i, j \in Rows : table[i].mac = table[j].mac => i = j
  BY <1>1 DEF TableInv, UniqueDevices
<1>4. macOf \in Injection(Rows, Others)
  <2>1. macOf \in [Rows -> Others] BY <1>2
  <2>2. IsInjective(macOf) BY <1>3 DEF IsInjective
  <2>3. QED BY <2>1, <2>2 DEF Injection
<1>5. IsFiniteSet(Others) /\ Cardinality(Others) = Cardinality(D) - 1
  BY FS_RemoveElement DEF Roomy
<1>6. Cardinality(Rows) = TableSize BY FS_Interval
<1> HIDE DEF macOf, Others
<1>7. Cardinality(Rows) <= Cardinality(Others) BY <1>4, <1>5, FS_Injection
<1>8. Cardinality(D) \in Nat BY FS_CardinalityType DEF Roomy
<1>9. QED BY <1>5, <1>6, <1>7, <1>8 DEF Roomy

(* Whoever asks is in the table afterwards, in the row the result names.    *)
LEMMA CallerIsNamed ==
  ASSUME NEW g \in 1 .. (Width - 1), TableInv(g), TableInv(g)', FreeRowsBlank,
         NEW D, Roomy(D), RowsOf(D), NEW m \in D, NEW r \in Requests, r <= MaxSlots, Update(m, r)
  PROVE  requester' \in D /\ tableValues'.index \in OwnRows'
<1>0. Plain(m) /\ m \in Macs BY DEF Roomy
<1>1. CASE Refuse(m, r)
  BY <1>0, <1>1, RequestsAssumption DEF Refuse
<1>2. ASSUME NEW i \in Rows, Duplicate(i, m, r)
      PROVE  requester' \in D /\ tableValues'.index \in OwnRows'
  <2>1. table[i].mac \in Macs \cup {NoMac} BY DEF TableInv, TypeOK
  <2>2. requester' = m /\ tableValues'.index = i /\ table' = table BY <1>2 DEF Duplicate
  <2>3. table[i].mac = m /\ table[i].mac # NoMac
    BY <1>0, <1>2, <2>1, PlainIsExact DEF Duplicate
  <2>4. i \in Registered BY <2>3 DEF FreeRowsBlank
  <2>5. QED BY <2>2, <2>3, <2>4 DEF OwnRows, Registered
<1>3. ASSUME NEW i \in Rows, Register(i, m, r)
      PROVE  requester' \in D /\ tableValues'.index \in OwnRows'
  <2>1. i \in Registered' /\ table'[i].mac = m BY <1>0, <1>3, RegisterAdds
  <2>2. requester' = m /\ tableValues'.index = i BY <1>3 DEF Register
  <2>3. QED BY <2>1, <2>2 DEF OwnRows
<1>4. CASE Overflow(m, r)
  <2>1. \A i \in Rows : i \in Registered /\ ~SameMac(table[i].mac, m)
    BY <1>4 DEF Overflow, Stops, Registered
  <2>2. QED BY <2>1, NeverFull
<1>5. QED BY <1>1, <1>2, <1>3, <1>4 DEF Update

(* An address without a zero octet is copied whole. *)
LEMMA PlainIsCopied == ASSUME NEW m \in Macs, Plain(m) PROVE CopyMac(m) = m
<1>1. m \in [1 .. MacLength -> Octet] BY MacsAssumption
<1>2. \A k \in 1 .. MacLength : ~ \E j \in 1 .. k : m[j] = 0 BY DEF Plain
<1>3. QED BY <1>1, <1>2 DEF CopyMac

(* The state that answers reads the row that the result names. *)
LEMMA AnswerRow ==
  ASSUME requester \in Macs, Plain(requester), tableValues.index \in OwnRows, JoinResponse
  PROVE  /\ sent'.kind = "JOINRESP" /\ sent'.mac = requester
         /\ \E i \in Registered : table[i].mac = sent'.mac /\ table[i].id = sent'.id
<1> DEFINE i == tableValues.index
<1>1. i \in Registered /\ i \in Rows /\ table[i].mac = requester BY DEF OwnRows, Registered
<1>2. CopyMac(table[i].mac) = requester BY <1>1, PlainIsCopied
<1>3. RowRead(i) = {[mac |-> requester, id |-> table[i].id]} BY <1>1, <1>2 DEF RowRead
<1>4. sent'.kind = "JOINRESP" /\ sent'.mac = requester /\ sent'.id = table[i].id
  BY <1>3 DEF JoinResponse, Send
<1>5. QED BY <1>1, <1>4

(* It is the only one that is left after a request, and the last caller is  *)
(* a device, for the empty address has zero octets.                         *)
LEMMA AnswerSent ==
  ASSUME TypeOK, AnswerForRequester, Answered, [ServerNext]_vars, fsm = "JOINRESP", fsm' # fsm
  PROVE  /\ sent'.mac = requester
         /\ \E i \in Registered : table[i].mac = sent'.mac /\ table[i].id = sent'.id
<1>1. JoinResponse
  <2>1. ~Receive /\ ~PressButton /\ ~GatewayApp /\ ~UNCHANGED vars
    BY DEF Receive, RxHead, RxOther, RxJoinReq, RxStatus, RxForeign, Store, RxUnchanged,
           PressButton, GatewayApp, vars, fsmVars
  <2>2. ~Start /\ ~MsgRead /\ ~Sync /\ ~JoinRequest
    BY DEF Start, MsgRead, Sync, JoinRequest, At
  <2>3. ~StatusMsg /\ ~ControlLocal /\ ~ControlGateway
    BY DEF StatusMsg, StatusLocal, StatusForward, StatusOffline, StatusDrop, ControlLocal,
           ControlGateway, TakeStatus, At
  <2>4. QED BY <2>1, <2>2, <2>3 DEF ServerNext, Tick
<1>2. requester \in Macs /\ Plain(requester)
  <2>1. Plain(requester) /\ requester \in Macs \cup {NoMac} BY DEF Answered, TypeOK
  <2>2. ~Plain(NoMac) BY DEF Plain, NoMac
  <2>3. QED BY <2>1, <2>2
<1>3. QED BY <1>1, <1>2, AnswerRow DEF AnswerForRequester

(* A JOINRESP goes to the device that asked and tells it the id of its own  *)
(* row, whatever arrives in the period between the call on the table and    *)
(* the answer: for any number of devices and any requests, as long as the   *)
(* slot counter does not wrap and the table has an answer.                  *)
THEOREM JoinAnswersRequester == NoWrap => (ServerSpec => JoinRespToRequester)
<1> SUFFICES ASSUME NoWrap PROVE ServerSpec => JoinRespToRequester OBVIOUS
<1>1. Spec => []AnswerForRequester BY RequesterIsAnswered
<1>2. ServerSpec => Spec BY ServerUsesTable
<1>3. ServerInv => TypeOK BY DEF ServerInv, ServerTypeOK
<1>4. TypeOK /\ AnswerForRequester /\ [ServerNext]_vars =>
        [ (fsm = "JOINRESP" /\ fsm' # fsm /\ Answered) =>
            /\ sent'.mac = requester
            /\ \E i \in Registered : table[i].mac = sent'.mac /\ table[i].id = sent'.id ]_vars
  BY AnswerSent
<1>5. QED
  BY <1>1, <1>2, <1>3, <1>4, ServerInvariant, PTL DEF ServerSpec, JoinRespToRequester
=============================================================================
