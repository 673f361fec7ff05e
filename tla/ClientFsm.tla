------------------------------ MODULE ClientFsm ------------------------------
(***************************************************************************)
(* A client of the wireless network: the state machine that its transmit   *)
(* timer interrupt steps (comms_start_client, API/src/comms_client_fsm.c), *)
(* the receive interrupt (comms_client_recv_it, API/src/comms_network.c),  *)
(* the push button, and the main thread that hands over application        *)
(* messages (send_application_message).                                    *)
(*                                                                         *)
(* The interrupts have one priority and are single steps.  The main thread *)
(* can be interrupted between any two of its accesses to the shared        *)
(* buffer; its update of a flag is a load and a store of the octet that    *)
(* holds all the flags.                                                    *)
(***************************************************************************)
EXTENDS Naturals

CONSTANTS
  OwnNet,    \* the network this client belongs to
  Nets,      \* the networks in reach
  ClientIds, \* the ids a server gives to its clients
  Bodies     \* the texts applications send

AccessSlot == 2    \* COMMS_ACCESS_SLOTNUM
NoNet      == 0    \* device_network_id before the first SYNC
FirstTick  == 1    \* the timer before the first SYNC

ASSUME NetsAssumption == /\ OwnNet \in Nets /\ Nets \subseteq Nat \ {NoNet}
ASSUME IdsAssumption  == ClientIds \subseteq Nat \ (0 .. 3)
ASSUME TextAssumption == "" \notin Bodies

VARIABLES
  fsm,        \* fsm_state
  timer,      \* slots the transmit timer is programmed for
  flag,       \* flag_state of the network buffer
  buf,        \* read_message: the last frame
  netId,      \* device_network_id
  slotTime,   \* device_slot_time is not 0
  slot,       \* device_slot_number
  flags,      \* application_flags
  appMsg,     \* application_message and app_message_length
  pc, arg, reg  \* main thread: place, message, and the loaded flags

(* Observations: the frame the last timer interrupt sent, and whether the   *)
(* timer has expired since the last SYNC.                                   *)
VARIABLES sent, expired

mainVars == <<pc, arg, reg>>
vars == <<fsm, timer, flag, buf, netId, slotTime, slot, flags, appMsg, mainVars,
          sent, expired>>

States == {"INIT", "SYNC", "JOINREQ", "JOINED"}
Flag   == {"CLEAR", "SYNC", "JOINRESP", "CONTRL"}
Bits   == [joinRequest : BOOLEAN, joined : BOOLEAN, appReady : BOOLEAN, netReady : BOOLEAN]

-----------------------------------------------------------------------------
(* Frames that come in.  mine: addressed to this client and, if it is a     *)
(* CONTRL frame, with a text.  Any other traffic, and a frame whose first   *)
(* octets another one has overwritten, is Unreadable: what is then read is  *)
(* open.                                                                    *)
Unreadable == [kind |-> "OTHER"]
SyncOf(n)  == [kind |-> "SYNC", net |-> n]
Responses  == [kind : {"JOINRESP"}, mine : BOOLEAN, status : {"ACK", "NACK", "DUP"},
               id : ClientIds \cup {0}]
Controls   == [kind : {"CONTRL"}, net : Nets, mine : BOOLEAN]
Frames     == {SyncOf(n) : n \in Nets} \cup Responses \cup Controls \cup {Unreadable}

NoFrame == [kind |-> "none"]

(* A message is whole when its text is the one its length was taken of. *)
Text == Bodies \cup {""}
Whole(m) == m.text = m.len

Init == /\ fsm = "INIT" /\ timer = FirstTick /\ flag = "CLEAR" /\ buf = Unreadable
        /\ netId = NoNet /\ slotTime = FALSE /\ slot = 0
        /\ flags = [joinRequest |-> FALSE, joined |-> FALSE,
                    appReady |-> FALSE, netReady |-> FALSE]
        /\ appMsg = [text |-> "", len |-> ""]
        /\ pc = "idle" /\ arg = "" /\ reg = flags
        /\ sent = NoFrame /\ expired = TRUE

-----------------------------------------------------------------------------
(* comms_client_recv_it.  The flag is a single place: the last frame that   *)
(* sets it wins.  A SYNC of any network restarts the timer.                 *)
RxUnchanged == UNCHANGED <<fsm, timer, netId, slotTime, slot, flags, appMsg, mainVars, sent>>

RxSync(n) == /\ buf' = SyncOf(n)
             /\ flag' = "SYNC"
             /\ expired' = FALSE
             /\ RxUnchanged

RxReply(f) == /\ buf' = f
              /\ flag' = f.kind
              /\ RxUnchanged
              /\ UNCHANGED expired

(* Frames of other types, and the beginning of any frame: no flag. *)
RxOther == /\ buf' = Unreadable
           /\ RxUnchanged
           /\ UNCHANGED <<flag, expired>>

Receive == \/ \E n \in Nets : RxSync(n)
           \/ \E f \in Responses \cup Controls : RxReply(f)
           \/ RxOther

(* gpioPortFIsr *)
PressButton == /\ flags' = [flags EXCEPT !.joinRequest = TRUE]
               /\ UNCHANGED <<fsm, timer, flag, buf, netId, slotTime, slot, appMsg, mainVars,
                              sent, expired>>

-----------------------------------------------------------------------------
(* send_application_message, in the main thread.                            *)
MainUnchanged == UNCHANGED <<fsm, timer, flag, buf, netId, slotTime, slot,
                             sent, expired>>

(* Mutant of MainClear: a client that has not joined accepts a message. *)
MainClearAlways(b) == /\ pc = "idle"
                      /\ appMsg' = [appMsg EXCEPT !.text = ""]
                      /\ arg' = b /\ pc' = "copy"
                      /\ UNCHANGED <<reg, flags>> /\ MainUnchanged

(* Only a joined client accepts a message; the buffer is cleared first. *)
MainClear(b) == /\ pc = "idle" /\ flags.joined
                /\ appMsg' = [appMsg EXCEPT !.text = ""]
                /\ arg' = b /\ pc' = "copy"
                /\ UNCHANGED <<reg, flags>> /\ MainUnchanged

MainCopy == /\ pc = "copy"
            /\ appMsg' = [appMsg EXCEPT !.text = arg]
            /\ pc' = "length"
            /\ UNCHANGED <<arg, reg, flags>> /\ MainUnchanged

MainLength == /\ pc = "length"
              /\ appMsg' = [appMsg EXCEPT !.len = arg]
              /\ pc' = "load"
              /\ UNCHANGED <<arg, reg, flags>> /\ MainUnchanged

MainLoad == /\ pc = "load"
            /\ reg' = flags
            /\ pc' = "store"
            /\ UNCHANGED <<arg, appMsg, flags>> /\ MainUnchanged

MainStore == /\ pc = "store"
             /\ flags' = [reg EXCEPT !.appReady = TRUE]
             /\ pc' = "idle" /\ arg' = ""
             /\ UNCHANGED <<reg, appMsg>> /\ MainUnchanged

Main == \/ \E b \in Bodies : MainClear(b)
        \/ MainCopy \/ MainLength \/ MainLoad \/ MainStore

-----------------------------------------------------------------------------
(* comms_start_client: one state of the machine per timer interrupt.        *)
Tick(state) == /\ fsm = state
               /\ expired' = TRUE
               /\ UNCHANGED <<mainVars, appMsg>>

DevInit == /\ Tick("INIT")
           /\ fsm' = "SYNC"
           /\ sent' = NoFrame
           /\ UNCHANGED <<timer, flag, buf, netId, slotTime, slot, flags>>

(* Mutant of SetTimer: a slot 0 is not refused. *)
SetTimerAnySlot(time, n) == timer' = IF time THEN n ELSE timer

(* comms_network_set_timer refuses a slot time of 0, the driver a slot 0.   *)
SetTimer(time, n) == timer' = IF time /\ n # 0 THEN n ELSE timer

(* get_sync_data reads the network id, the access slot and the slot time    *)
(* from wherever they lie in the octets that are in the buffer now.         *)
SyncData == IF buf.kind = "SYNC"
            THEN {[net |-> buf.net, access |-> AccessSlot, time |-> TRUE]}
            ELSE [net : Nets \cup {NoNet}, access : {0, AccessSlot, AccessSlot + 1},
                  time : BOOLEAN]

(* Mutant of DevSync: a SYNC that no request waits for stays announced.     *)
DevSyncKeepsFlag ==
  /\ Tick("SYNC")
  /\ \/ /\ flag = "SYNC" /\ flags.joinRequest
        /\ \E d \in SyncData :
             /\ netId' = d.net
             /\ slotTime' = d.time
             /\ SetTimer(d.time, d.access)
        /\ buf' = Unreadable
        /\ fsm' = "JOINREQ"
        /\ flag' = "CLEAR"
     \/ /\ ~(flag = "SYNC" /\ flags.joinRequest)
        /\ UNCHANGED <<fsm, timer, netId, slotTime, buf, flag>>
  /\ sent' = NoFrame
  /\ UNCHANGED <<slot, flags>>

DevSync == /\ Tick("SYNC")
           /\ \/ /\ flag = "SYNC" /\ flags.joinRequest
                 /\ \E d \in SyncData :
                      /\ netId' = d.net
                      /\ slotTime' = d.time
                      /\ SetTimer(d.time, d.access)
                 /\ buf' = Unreadable
                 /\ fsm' = "JOINREQ"
                 /\ flag' = "CLEAR"
              \/ /\ flag = "SYNC" /\ ~flags.joinRequest
                 /\ flag' = "CLEAR"
                 /\ UNCHANGED <<fsm, timer, netId, slotTime, buf>>
              \/ /\ flag # "SYNC"
                 /\ UNCHANGED <<fsm, timer, netId, slotTime, buf, flag>>
           /\ sent' = NoFrame
           /\ UNCHANGED <<slot, flags>>

(* comms_joinreq_message makes no frame without a network id.  The request  *)
(* is used up by one frame (JOINREQ_ONCE).                                  *)
SendJoinReq ==
  /\ flag = "SYNC" /\ flags.joinRequest
  /\ sent' = IF netId = NoNet THEN NoFrame ELSE [kind |-> "JOINREQ", net |-> netId]
  /\ flag' = "CLEAR"
  /\ flags' = [flags EXCEPT !.joinRequest = FALSE]
  /\ UNCHANGED <<fsm, timer, buf, netId, slotTime, slot>>

(* Mutant of OfferedIds: the address is not compared.                       *)
OfferedIdsAnyone == IF buf.kind # "JOINRESP" THEN ClientIds \cup {0}
                    ELSE IF buf.status \in {"ACK", "DUP"}
                    THEN {buf.id} ELSE {0}

(* comms_get_joinresp_data: an id for this address, or 0.  Of a frame whose *)
(* first octets are overwritten the address and the id may still be there.  *)
OfferedIds == IF buf.kind # "JOINRESP" THEN ClientIds \cup {0}
              ELSE IF buf.mine /\ buf.status \in {"ACK", "DUP"}
              THEN {buf.id} ELSE {0}

ReadJoinResp ==
  /\ flag = "JOINRESP"
  /\ \E id \in OfferedIds :
       /\ slot' = id
       /\ \/ /\ id # 0
             /\ flags' = [flags EXCEPT !.joined = TRUE, !.joinRequest = FALSE]
             /\ SetTimer(slotTime, id)
             /\ fsm' = "JOINED"
          \/ /\ id = 0
             /\ UNCHANGED <<flags, timer, fsm>>
  /\ buf' = Unreadable
  /\ flag' = "CLEAR"
  /\ sent' = NoFrame
  /\ UNCHANGED <<netId, slotTime>>

(* A SYNC without a request keeps its flag, a CONTRL as well. *)
JoinReqIdle ==
  /\ flag # "JOINRESP" /\ ~(flag = "SYNC" /\ flags.joinRequest)
  /\ sent' = NoFrame
  /\ UNCHANGED <<fsm, timer, flag, buf, netId, slotTime, slot, flags>>

DevJoinReq == Tick("JOINREQ") /\ (SendJoinReq \/ ReadJoinResp \/ JoinReqIdle)

(* comms_status_message *)
SendStatus ==
  /\ flag = "SYNC" /\ flags.appReady
  /\ sent' = [kind |-> "STATUS", src |-> slot, msg |-> appMsg]
  /\ flags' = [flags EXCEPT !.appReady = FALSE]
  /\ UNCHANGED buf

(* comms_get_contrl_data: whether the client takes a message from the       *)
(* buffer.  The error it returns without a network id counts as a length.   *)
Taken == IF netId = NoNet THEN {TRUE}
         ELSE IF buf.kind # "CONTRL" THEN BOOLEAN
         ELSE {buf.net = netId /\ buf.mine}

ReadContrl ==
  /\ flag = "CONTRL"
  /\ \E taken \in Taken :
       flags' = IF taken THEN [flags EXCEPT !.netReady = TRUE] ELSE flags
  /\ buf' = Unreadable
  /\ sent' = NoFrame

(* Mutant of JoinedIdle: the mark is taken away outside of the condition. *)
JoinedIdleClears ==
  /\ flag # "CONTRL" /\ ~(flag = "SYNC" /\ flags.appReady)
  /\ sent' = NoFrame
  /\ flags' = [flags EXCEPT !.appReady = FALSE]
  /\ UNCHANGED buf

JoinedIdle ==
  /\ flag # "CONTRL" /\ ~(flag = "SYNC" /\ flags.appReady)
  /\ sent' = NoFrame
  /\ UNCHANGED <<flags, buf>>

(* Mutant of DevJoined: the flag outlives the slot it announced. *)
DevJoinedKeepsFlag == /\ Tick("JOINED")
                      /\ SendStatus \/ ReadContrl \/ JoinedIdle
                      /\ UNCHANGED <<fsm, timer, flag, netId, slotTime, slot>>

DevJoined == /\ Tick("JOINED")
             /\ SendStatus \/ ReadContrl \/ JoinedIdle
             /\ flag' = "CLEAR"
             /\ UNCHANGED <<fsm, timer, netId, slotTime, slot>>

Timer == DevInit \/ DevSync \/ DevJoinReq \/ DevJoined

Next == Timer \/ Receive \/ PressButton \/ Main

(* No fairness: SYNCs restart the timer, and those of two networks, or of a *)
(* server whose period is shorter than this client's slot, may keep it from *)
(* ever expiring.  Module Network counts the slots of all timers.           *)
Spec == Init /\ [][Next]_vars

-----------------------------------------------------------------------------
TypeOK ==
  /\ fsm \in States /\ timer \in Nat \ {0} /\ flag \in Flag
  /\ buf \in Frames
  /\ netId \in Nets \cup {NoNet} /\ slotTime \in BOOLEAN /\ slot \in ClientIds \cup {0}
  /\ flags \in Bits /\ reg \in Bits
  /\ appMsg \in [text : Text, len : Text]
  /\ pc \in {"idle", "copy", "length", "load", "store"} /\ arg \in Text
  /\ expired \in BOOLEAN

(* A joined client has an id and, if the SYNC it joined by gave it a slot   *)
(* time, transmits by it, and the main thread knows that it is joined:      *)
(* although the octet of the flags is written back by a thread that loaded  *)
(* it before, and the id is set to 0 by every JOINRESP that is read.        *)
JoinedHasSlot ==
  /\ fsm = "JOINED" => slot \in ClientIds /\ (slotTime => timer = slot)
  /\ flags.joined <=> fsm = "JOINED"

(* Once handed over, a message is pending until a frame with a message is   *)
(* sent: no interrupt between the load and the store of the flags, and no   *)
(* store, takes the mark away.                                              *)
PendingUntilSent ==
  [][ (flags.appReady /\ ~flags'.appReady) =>
        sent'.kind = "STATUS" /\ sent'.msg = appMsg ]_vars

(* A client transmits messages in its own slot: when its timer, restarted   *)
(* by a SYNC and set to its id, expires for the first time.  It follows     *)
(* that it sends at most one message for a SYNC, whatever is pending.       *)
StatusInOwnSlot ==
  [][ (sent' # sent /\ sent'.kind = "STATUS") =>
        /\ ~expired
        /\ slotTime => timer = slot
        /\ sent'.src = slot ]_vars

-----------------------------------------------------------------------------
(* What the repository says and the code does not do.                       *)

(* comms_client_fsm.c:239: "Send STATUS Message when application message is *)
(* available".  What is sent is a message the application wrote.            *)
WholeMessages ==
  [][ (sent' # sent /\ sent'.kind = "STATUS") => Whole(sent'.msg) ]_vars
=============================================================================
