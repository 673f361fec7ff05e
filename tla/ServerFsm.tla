------------------------------ MODULE ServerFsm ------------------------------
(***************************************************************************)
(* The server of the wireless network: the state machine that the transmit *)
(* timer interrupt steps (comms_start_server, API/src/comms_server_fsm.c), *)
(* the receive interrupt that fills its buffers (comms_server_recv_it,     *)
(* API/src/comms_network.c), the push button and the gateway application   *)
(* that set its flags, and the device table (module DeviceTable).          *)
(*                                                                         *)
(* The interrupts have one priority, so each handler is one step and the   *)
(* steps interleave in any order.  A frame is received octet by octet into *)
(* one buffer, which the state machine reads one or two timer periods      *)
(* later: RxHead is the state of affairs in the middle of a frame.         *)
(***************************************************************************)
EXTENDS DeviceTable

CONSTANTS
  ServerMode,   \* "LOCAL" or "GATEWAY": comms_server_mode_t
  Devices,      \* the MAC addresses of real devices; the others in Macs are
                \* what a half-received frame leaves in the address field
  Targets,      \* the client ids that applications send messages to
  Bodies,       \* the payloads of their messages
  QueueSlots,   \* 4: entries of network_queue
  QueueLimit,   \* 5: the queue position the receive interrupt checks for
  ForeignIds,   \* slot numbers of devices of a neighbouring network
  MaxForeign    \* bound on the frames heard from that network

BroadcastSlot == 3   \* COMMS_BROADCAST_SLOTNUM
ReservedSlots == 3   \* "1-3 slots are reserved" (comms_protocol.c:681)
ServerId      == 1   \* COMMS_SERVER_SLOTNUM

ASSUME ModeAssumption    == ServerMode \in {"LOCAL", "GATEWAY"}
ASSUME DevicesAssumption == Devices \subseteq Macs
ASSUME QueueAssumption   == /\ QueueSlots \in Nat \ {0} /\ QueueLimit \in Nat
                            /\ MaxForeign \in Nat
                            /\ Targets \subseteq Octet /\ ForeignIds \subseteq Octet
                            /\ BroadcastSlot < Width

VARIABLES
  fsm,               \* fsm_state
  timer,             \* slots the transmit timer is programmed for
  flag,              \* flag_state of the network buffer
  readMsg,           \* read_message, as a join request is read from it
  queue, queuePos,   \* network_queue and queue_pos
  source,            \* source_client_id (static)
  destination,       \* destination_client_id (static)
  payload,           \* status_message_buffer and status_message_length
  joinResponse,      \* network_join_response: the button was pressed
  connected,         \* gateway_connected
  netReady, netMsg,  \* network_message_ready and network_message
  overrun            \* memory beyond a buffer was written: anything follows

(* Observations, which no guard reads but heard and foreignLeft, the ones   *)
(* that bound what devices send.                                            *)
VARIABLES
  sent,        \* the frame the last timer interrupt sent
  handling,    \* the STATUS frame last taken from the queue
  heard,       \* members that may answer the last SYNC with a STATUS
  foreignLeft  \* frames that may still come from the neighbouring network

fsmVars    == <<fsm, timer>>
queueVars  == <<queue, queuePos>>
statusVars == <<source, destination, payload, handling>>
appVars    == <<connected, netReady, netMsg>>
envVars    == <<heard, foreignLeft>>
vars == <<tableVars, fsmVars, flag, readMsg, queueVars, statusVars, joinResponse,
          appVars, envVars, overrun, sent>>

States == {"START", "MSG_READ", "SYNC", "JOINREQ", "JOINRESP", "STATUSMSG", "CONTROLMSG"}
Flags  == {"CLEAR", "JOINREQ", "STATUSMSG"}

-----------------------------------------------------------------------------
(* Frames.  own: carries this network's id.                                 *)
Status   == [src : Octet, dst : Octet, own : BOOLEAN, body : Bodies]
NoStatus == [src |-> 0, dst |-> 0, own |-> FALSE, body |-> ""]

(* A join request in the buffer: the sender's address, the slots it asks    *)
(* for, and whether its network id, user name and password are right.       *)
JoinReq == [mac : Macs \cup {NoMac}, slots : Requests \cup {0}, valid : BOOLEAN]
Blank   == [mac |-> NoMac, slots |-> 0, valid |-> FALSE]

NoFrame   == [kind |-> "none"]
SyncFrame == [kind |-> "SYNC"]

(* Payloads that are not a client's: an empty one, the notice of the        *)
(* gateway, and the error value -9 in place of a length.                    *)
NoBody    == ""
Offline   == "Gateway Offline"
BadLength == "length -9"

(* comms_control_message: who sends what to whom. *)
Control(src, dst, body) ==
  [kind   |-> "CONTRL",
   status |-> CASE dst = src -> "ECHO"
                [] dst # src /\ dst = 0 -> "NOT_FOUND"
                [] dst # src /\ dst = ServerId -> "ECHO"
                [] OTHER -> "OK",
   src    |-> IF dst \in {src, 0, ServerId} THEN ServerId ELSE src,
   dst    |-> IF dst # src /\ dst \in {0, ServerId} THEN src ELSE dst,
   body   |-> IF dst # src /\ dst = 0 THEN NoBody ELSE body]

(* The one branch of comms_control_message that copies no payload. *)
CopiesPayload(src, dst) == dst = src \/ dst # 0

-----------------------------------------------------------------------------
ServerInit ==
  /\ Init
  /\ fsm = "START" /\ timer = 0
  /\ flag = "CLEAR"
  /\ readMsg = Blank
  /\ queue = [k \in 0 .. (QueueSlots - 1) |-> NoStatus] /\ queuePos = 0
  /\ source = 0 /\ destination = 0 /\ payload = NoBody /\ handling = NoStatus
  /\ joinResponse = FALSE
  /\ connected = FALSE /\ netReady = FALSE /\ netMsg = NoBody
  /\ overrun = FALSE
  /\ sent = NoFrame
  /\ heard = {} /\ foreignLeft = MaxForeign

-----------------------------------------------------------------------------
(* comms_server_recv_it: the receive interrupt.                             *)

(* Nothing but the receive buffer changes while a frame comes in. *)
RxUnchanged == UNCHANGED <<tableVars, fsmVars, statusVars, joinResponse, appVars, sent>>

(* The first octets of some frame lie in the buffer, over the address of a  *)
(* join request that may still be waiting there; its other fields are       *)
(* intact.                                                                  *)
RxHead(m) == /\ ~overrun
             /\ readMsg' = [readMsg EXCEPT !.mac = m]
             /\ RxUnchanged
             /\ UNCHANGED <<flag, queueVars, envVars, overrun>>

(* A frame the server does not store has ended: one of another type, one    *)
(* with a wrong checksum, a STATUS frame beyond the limit of the queue.     *)
RxOther(m) == /\ ~overrun
              /\ readMsg' = [readMsg EXCEPT !.mac = m, !.valid = FALSE]
              /\ RxUnchanged
              /\ UNCHANGED <<flag, queueVars, envVars, overrun>>

(* A JOINREQ frame stays in the receive buffer. *)
RxJoinReq(m, r, v) ==
  /\ ~overrun
  /\ readMsg' = [mac |-> m, slots |-> r, valid |-> v]
  /\ flag' = "JOINREQ"
  /\ RxUnchanged
  /\ UNCHANGED <<queueVars, envVars, overrun>>

(* Mutant of Store: the receive buffer is not cleared. *)
StoreKeepsBuffer(f) ==
  /\ ~overrun
  /\ queuePos < QueueLimit
  /\ flag' = "STATUSMSG"
  /\ \/ /\ queuePos < QueueSlots
        /\ queue' = [queue EXCEPT ![queuePos] = f]
        /\ queuePos' = queuePos + 1
        /\ UNCHANGED overrun
     \/ /\ queuePos >= QueueSlots
        /\ overrun' = TRUE
        /\ UNCHANGED queueVars
  /\ UNCHANGED readMsg
  /\ RxUnchanged

(* A STATUS frame moves to the queue.  The position is checked against      *)
(* QueueLimit, one more than the queue has entries: the entry beyond the    *)
(* last lies on queue_pos and on what follows the network buffer.           *)
Store(f) ==
  /\ ~overrun
  /\ queuePos < QueueLimit
  /\ flag' = "STATUSMSG"
  /\ readMsg' = Blank
  /\ \/ /\ queuePos < QueueSlots
        /\ queue' = [queue EXCEPT ![queuePos] = f]
        /\ queuePos' = queuePos + 1
        /\ UNCHANGED overrun
     \/ /\ queuePos >= QueueSlots
        /\ overrun' = TRUE
        /\ UNCHANGED queueVars
  /\ RxUnchanged

(* A member transmits once after each SYNC it hears. *)
RxStatus(c, d, b) == /\ c \in heard
                     /\ heard' = heard \ {c}
                     /\ Store([src |-> c, dst |-> d, own |-> TRUE, body |-> b])
                     /\ UNCHANGED foreignLeft

(* A device of a neighbouring network is heard as well. *)
RxForeign(c, d, b) == /\ foreignLeft > 0
                      /\ foreignLeft' = foreignLeft - 1
                      /\ Store([src |-> c, dst |-> d, own |-> FALSE, body |-> b])
                      /\ UNCHANGED heard

Receive == \/ \E m \in Macs : RxHead(m) \/ RxOther(m)
           \/ \E m \in Devices, r \in Requests, v \in BOOLEAN : RxJoinReq(m, r, v)
           \/ \E c \in heard, d \in Targets, b \in Bodies : RxStatus(c, d, b)
           \/ \E c \in ForeignIds, d \in Targets, b \in Bodies : RxForeign(c, d, b)

-----------------------------------------------------------------------------
(* The button and the gateway application.                                  *)

(* gpioPortFIsr: the operator lets one device join. *)
PressButton == /\ ~overrun
               /\ joinResponse' = TRUE
               /\ UNCHANGED <<tableVars, fsmVars, flag, readMsg, queueVars, statusVars,
                              appVars, envVars, overrun, sent>>

(* External: the gateway application connects, loses its connection and     *)
(* takes the message that was left for it.                                  *)
GatewayApp == /\ ~overrun
              /\ ServerMode = "GATEWAY"
              /\ \/ connected' = ~connected /\ UNCHANGED <<netReady, netMsg>>
                 \/ netReady /\ netReady' = FALSE /\ UNCHANGED <<connected, netMsg>>
              /\ UNCHANGED <<tableVars, fsmVars, flag, readMsg, queueVars, statusVars,
                             joinResponse, envVars, overrun, sent>>

-----------------------------------------------------------------------------
(* comms_start_server: one state of the machine per timer interrupt.        *)

(* comms_network_set_timer.  NET_SYNC_SLOT sets the timer to the slots the  *)
(* server has counted and falls into the next case, where the driver        *)
(* refuses the access slot 0 of a server.                                   *)
SetStartingSlots == timer' = StartingSlots   \* mutant of SetSyncSlot
SetSyncSlot      == timer' = RaisedSlots
SetAccessSlot    == timer' = 2               \* mutant of SetBroadcastSlot
SetBroadcastSlot == timer' = BroadcastSlot

At(state) == fsm = state /\ ~overrun

Send(f) == sent' = f

(* Mutant of AfterQueue: the machine stays with the queue. *)
AfterQueueStay(n) == "STATUSMSG"

(* The machine goes on with the queue while it holds messages. *)
AfterQueue(n) == IF n > 0 THEN "STATUSMSG" ELSE "SYNC"

Start == /\ At("START")
         /\ Refresh
         /\ SetSyncSlot
         /\ fsm' = "SYNC"
         /\ Send(NoFrame)
         /\ UNCHANGED <<flag, readMsg, queueVars, statusVars, joinResponse, appVars,
                        envVars, overrun>>

(* Mutants of MsgRead: the flag alone decides; a cleared flag is not mapped *)
(* to the sync state.                                                       *)
MsgReadByFlag == /\ At("MSG_READ")
                 /\ Refresh
                 /\ fsm' = IF flag = "CLEAR" THEN "SYNC" ELSE flag
                 /\ flag' = "CLEAR"
                 /\ Send(NoFrame)
                 /\ UNCHANGED <<timer, readMsg, queueVars, statusVars, joinResponse, appVars,
                                envVars, overrun>>
MsgReadNoDefault == /\ At("MSG_READ")
                    /\ Refresh
                    /\ fsm' = IF queuePos > 0 THEN "STATUSMSG" ELSE flag
                    /\ flag' = "CLEAR"
                    /\ Send(NoFrame)
                    /\ UNCHANGED <<timer, readMsg, queueVars, statusVars, joinResponse,
                                   appVars, envVars, overrun>>

(* A queued STATUS goes first, whatever the flag says. *)
MsgRead == /\ At("MSG_READ")
           /\ Refresh
           /\ fsm' = IF queuePos > 0 THEN "STATUSMSG"
                     ELSE IF flag = "CLEAR" THEN "SYNC" ELSE flag
           /\ flag' = "CLEAR"
           /\ Send(NoFrame)
           /\ UNCHANGED <<timer, readMsg, queueVars, statusVars, joinResponse, appVars,
                          envVars, overrun>>

(* Mutant of Sync: every SYNC starts the count of slots anew. *)
SyncRestartsCount ==
  /\ At("SYNC")
  /\ totalSlots' = StartingSlots
  /\ UNCHANGED <<table, deviceCount, tableValues, requester>>
  /\ Send(SyncFrame)
  /\ heard' = MemberIds
  /\ fsm' = "MSG_READ"
  /\ UNCHANGED <<timer, flag, readMsg, queueVars, statusVars, joinResponse, appVars,
                 foreignLeft, overrun>>

(* Mutant of Sync: what was announced before is forgotten.                  *)
SyncClearsFlag ==
  /\ At("SYNC")
  /\ Refresh
  /\ Send(SyncFrame)
  /\ heard' = MemberIds
  /\ fsm' = "MSG_READ"
  /\ flag' = "CLEAR"
  /\ UNCHANGED <<timer, readMsg, queueVars, statusVars, joinResponse, appVars, foreignLeft,
                 overrun>>

Sync == /\ At("SYNC")
        /\ Refresh
        /\ Send(SyncFrame)
        /\ heard' = MemberIds
        /\ fsm' = "MSG_READ"
        /\ UNCHANGED <<timer, flag, readMsg, queueVars, statusVars, joinResponse, appVars,
                       foreignLeft, overrun>>

(* comms_get_joinreq_data accepts what the buffer holds now.  The press of  *)
(* the button is used up either way.                                        *)
JoinRequest ==
  /\ At("JOINREQ")
  /\ \/ /\ readMsg.valid /\ joinResponse
        /\ Update(readMsg.mac, readMsg.slots)
        /\ SetBroadcastSlot
        /\ fsm' = "JOINRESP"
     \/ /\ ~(readMsg.valid /\ joinResponse)
        /\ Refresh
        /\ fsm' = "SYNC"
        /\ UNCHANGED timer
  /\ joinResponse' = FALSE
  /\ flag' = "CLEAR"
  /\ readMsg' = Blank
  /\ Send(NoFrame)
  /\ UNCHANGED <<queueVars, statusVars, appVars, envVars, overrun>>

(* Mutant of RowRead: the row after the one the table named. *)
RowReadNext(x) == LET y == (x + 1) % TableSize
                  IN {[mac |-> CopyMac(table[y].mac), id |-> table[y].id]}

(* read_client_table: a row, or the memory behind the table. *)
RowRead(x) == IF x \in Rows
              THEN {[mac |-> CopyMac(table[x].mac), id |-> table[x].id]}
              ELSE [mac : Macs \cup {NoMac}, id : Octet]

(* comms_set_joinresp_message_status. *)
JoinStatus(v) == CASE v = Nack -> "NACK" [] v = Dup -> "DUP" [] OTHER -> "ACK"

JoinResponse ==
  /\ At("JOINRESP")
  /\ \E row \in RowRead(tableValues.index) :
       Send([kind |-> "JOINRESP", status |-> JoinStatus(tableValues.retval),
             mac |-> row.mac, id |-> row.id])
  /\ Refresh
  /\ SetSyncSlot
  /\ fsm' = "SYNC"
  /\ UNCHANGED <<flag, readMsg, queueVars, statusVars, joinResponse, appVars, envVars,
                 overrun>>

(* Mutant of ReadSource: the two ids of the frame are mixed up. *)
ReadSourceSwapped(f) == IF f.src > ReservedSlots /\ f.own THEN f.dst ELSE source

(* comms_get_status_message: the ids it leaves behind.  A slot of the       *)
(* server's own is an error, a frame of another network changes nothing.    *)
ReadSource(f)      == IF f.src > ReservedSlots /\ f.own THEN f.src ELSE source
ReadDestination(f) == IF f.src <= ReservedSlots THEN 0 ELSE IF f.own THEN f.dst ELSE destination
ReadPayload(f)     == IF f.src <= ReservedSlots THEN BadLength ELSE IF f.own THEN f.body ELSE NoBody

(* Mutant of TakeStatus: the flag that announced the message is kept. *)
TakeStatusKeepsFlag(f) == /\ queue' = [queue EXCEPT ![queuePos - 1] = NoStatus]
                          /\ queuePos' = queuePos - 1
                          /\ source' = ReadSource(f)
                          /\ payload' = ReadPayload(f)
                          /\ handling' = f
                          /\ Refresh
                          /\ Send(NoFrame)
                          /\ UNCHANGED <<flag, readMsg, joinResponse, connected, envVars,
                                         overrun>>

(* The frame queued last is taken first. *)
TakeStatus(f) == /\ queue' = [queue EXCEPT ![queuePos - 1] = NoStatus]
                 /\ queuePos' = queuePos - 1
                 /\ source' = ReadSource(f)
                 /\ payload' = ReadPayload(f)
                 /\ handling' = f
                 /\ flag' = "CLEAR"
                 /\ Refresh
                 /\ Send(NoFrame)
                 /\ UNCHANGED <<readMsg, joinResponse, connected, envVars, overrun>>

(* A local server answers every message it takes with a CONTRL frame. *)
StatusLocal(f) ==
  /\ At("STATUSMSG") /\ ServerMode = "LOCAL"
  /\ TakeStatus(f)
  /\ destination' = IF Known(ReadDestination(f)) THEN ReadDestination(f) ELSE 0
  /\ SetBroadcastSlot
  /\ fsm' = "CONTROLMSG"
  /\ UNCHANGED <<netReady, netMsg>>

(* A gateway hands a message for the server to its application, if it is    *)
(* connected.  strncpy copies nothing of an empty payload.                  *)
StatusForward(f) ==
  /\ At("STATUSMSG") /\ ServerMode = "GATEWAY"
  /\ ReadDestination(f) = ServerId
  /\ Known(ReadSource(f)) /\ connected
  /\ TakeStatus(f)
  /\ destination' = ReadDestination(f)
  /\ netMsg' = IF ReadPayload(f) = NoBody THEN netMsg ELSE ReadPayload(f)
  /\ netReady' = TRUE
  /\ fsm' = AfterQueue(queuePos')
  /\ UNCHANGED timer

StatusOffline(f) ==
  /\ At("STATUSMSG") /\ ServerMode = "GATEWAY"
  /\ ReadDestination(f) = ServerId
  /\ ~(Known(ReadSource(f)) /\ connected)
  /\ TakeStatus(f)
  /\ destination' = ReadDestination(f)
  /\ SetBroadcastSlot
  /\ fsm' = "CONTROLMSG"
  /\ UNCHANGED <<netReady, netMsg>>

(* A message for another client is dropped, and the queue is not looked at. *)
StatusDrop(f) ==
  /\ At("STATUSMSG") /\ ServerMode = "GATEWAY"
  /\ ReadDestination(f) # ServerId
  /\ TakeStatus(f)
  /\ destination' = ReadDestination(f)
  /\ fsm' = "SYNC"
  /\ UNCHANGED <<timer, netReady, netMsg>>

StatusMsg == /\ queuePos > 0
             /\ LET f == queue[queuePos - 1]
                IN StatusLocal(f) \/ StatusForward(f) \/ StatusOffline(f) \/ StatusDrop(f)

(* The end of the control state. *)
ControlDone == /\ Refresh
               /\ source' = 0 /\ destination' = 0
               /\ fsm' = AfterQueue(queuePos)
               /\ handling' = NoStatus
               /\ UNCHANGED <<flag, readMsg, queueVars, joinResponse, appVars, envVars>>

(* The error value of comms_get_status_message, taken for a length, is a    *)
(* copy of 65527 octets into the frame.                                     *)
ControlLocal ==
  /\ At("CONTROLMSG") /\ ServerMode = "LOCAL"
  /\ Send(Control(source, destination, payload))
  /\ overrun' = (payload = BadLength /\ CopiesPayload(source, destination))
  /\ SetSyncSlot
  /\ ControlDone
  /\ UNCHANGED payload

(* A gateway tells the client that it is offline, unless it is connected by *)
(* now; the timer stays on the broadcast slot.                              *)
ControlGateway ==
  /\ At("CONTROLMSG") /\ ServerMode = "GATEWAY"
  /\ \/ connected /\ Send(NoFrame) /\ UNCHANGED payload
     \/ ~connected /\ Send(Control(ServerId, source, Offline)) /\ payload' = Offline
  /\ ControlDone
  /\ UNCHANGED <<timer, overrun>>

Tick == \/ Start \/ MsgRead \/ Sync \/ JoinRequest \/ JoinResponse
        \/ StatusMsg \/ ControlLocal \/ ControlGateway

ServerNext == Tick \/ Receive \/ PressButton \/ GatewayApp

(* The transmit timer is periodic and its interrupt cannot be held off.     *)
ServerSpec == ServerInit /\ [][ServerNext]_vars /\ WF_vars(Tick)

-----------------------------------------------------------------------------
ServerTypeOK ==
  /\ TypeOK
  /\ fsm \in States /\ timer \in Octet /\ flag \in Flags
  /\ readMsg \in JoinReq
  /\ queue \in [0 .. (QueueSlots - 1) -> Status \cup {NoStatus}]
  /\ queuePos \in 0 .. QueueSlots
  /\ source \in Octet /\ destination \in Octet
  /\ payload \in Bodies \cup {NoBody, BadLength, Offline}
  /\ handling \in Status \cup {NoStatus}
  /\ joinResponse \in BOOLEAN /\ connected \in BOOLEAN
  /\ netReady \in BOOLEAN /\ netMsg \in Bodies \cup {NoBody}
  /\ overrun \in BOOLEAN
  /\ heard \subseteq Octet /\ foreignLeft \in 0 .. MaxForeign

(* The state machine enters the status state on the word of a flag or of    *)
(* queue_pos and then reads entry queue_pos - 1 with no further check: the  *)
(* flag never outlives the message it announced, although interrupts set it *)
(* and three states clear it.                                               *)
QueueFeedsStatus == /\ fsm = "STATUSMSG" => queuePos > 0
                    /\ flag = "STATUSMSG" => queuePos > 0

(* The server waits the broadcast slot whenever it is about to send a       *)
(* JOINRESP or CONTRL frame.  A local server otherwise waits as many slots  *)
(* as it has given away, so that every client's slot lies before the next   *)
(* frame of its own.                                                        *)
TimerFollowsState ==
  /\ fsm \in {"JOINRESP", "CONTROLMSG"} => timer = BroadcastSlot
  /\ (ServerMode = "LOCAL" /\ fsm \notin {"START", "JOINRESP", "CONTROLMSG"})
       => timer = RaisedSlots

(* The queue does not overflow: two messages of every client fit.           *)
NoOverrun == ~overrun

(* The CONTRL frame of a local server answers the message it took from the  *)
(* queue one period before, although devices join and frames arrive in      *)
(* between: it reaches the addressee with that message if the addressee is  *)
(* a client, and comes back to the sender if not.  It then says that nobody *)
(* was found; of a message for the server itself see EchoForServer.         *)
ControlAnswersStatus ==
  [][ (fsm = "CONTROLMSG" /\ handling.own /\ fsm' # fsm) =>
        /\ sent'.kind = "CONTRL"
        /\ IF handling.dst \in MemberIds
           THEN sent'.dst = handling.dst /\ sent'.body = handling.body
           ELSE /\ sent'.dst = handling.src
                /\ handling.dst # ServerId => sent'.status = "NOT_FOUND"
    ]_vars

(* A gateway that answers a message says so to its sender, although the     *)
(* answer is sent one period later from two ids kept aside and the          *)
(* application connects and disconnects in between.                         *)
OfflineToSender ==
  [][ (fsm = "CONTROLMSG" /\ handling.own /\ sent' # NoFrame /\ fsm' # fsm) =>
        sent'.src = ServerId /\ sent'.dst = handling.src ]_vars

(* A JOINRESP goes to the device whose request was put to the table, one    *)
(* period before, and tells it the id of its own row, whenever the table    *)
(* had an answer for it.  (A refusal, which names no row, goes to the       *)
(* address of whatever row the index on the stack points to.)               *)
JoinRespToRequester ==
  [][ (fsm = "JOINRESP" /\ fsm' # fsm /\ Answered) =>
        /\ sent'.mac = requester
        /\ \E i \in Registered : table[i].mac = sent'.mac /\ table[i].id = sent'.id
    ]_vars

(* A join request is forgotten unread only in favour of a client's message: *)
(* the flag is one place, cleared in five states, and the request may       *)
(* arrive in any of them.                                                   *)
JoinRequestYields ==
  [][ (flag = "JOINREQ" /\ flag' # "JOINREQ") =>
        fsm = "JOINREQ" \/ fsm' = "JOINREQ" \/ queuePos > 0 \/ queuePos' > 0 ]_vars

(* A frame from outside the server's own timer never holds the network up:  *)
(* SYNC, which all clients wait for, is sent again and again.               *)
SyncRecurs == []<>(sent = SyncFrame)

(* Every message of a client is taken from the queue in the end.  The queue *)
(* is a stack, so the oldest message waits for all the later ones: it is    *)
(* taken because the queue is empty again and again.                        *)
QueueDrains == []<>(queuePos = 0)

(* The server keeps the promises of the device table and, through it, of    *)
(* the slot registry, whatever the state machine does in between.           *)
KeepsTable == [][Next]_tableVars

-----------------------------------------------------------------------------
(* What the repository says and the code does not do.                       *)

(* comms_network.h:156 declares the queue: "net_queue_t network_queue[4];". *)
(* No frame is stored beyond it.                                            *)
QueueInBounds == ~overrun

(* comms_protocol.c:772: "Client echo condition", above the branch for      *)
(* destination 1, the one that the client of the repository uses.  A local  *)
(* server sends the text of a message for the server back to its sender.    *)
EchoForServer ==
  [][ (fsm = "CONTROLMSG" /\ handling.own /\ handling.dst = ServerId /\ fsm' # fsm) =>
        /\ sent'.dst = handling.src /\ sent'.status = "ECHO"
        /\ sent'.body = handling.body ]_vars

(* network_protocol_configs.h:83: the slot "used for sync message slot,     *)
(* changes with number of device".  The timer of a server that is about to  *)
(* send SYNC is set to as many slots as it has given away.                  *)
SyncSlotFollowsDevices == fsm = "SYNC" => timer = RaisedSlots
=============================================================================
