----------------------------- MODULE StationProofs -----------------------------
(* Proofs about one client of a network, beside the server's clock and the  *)
(* channel.                                                                 *)
EXTENDS Station, TLAPS

CONSTANT me          \* this client
VARIABLES
  serverFsm, serverTimer, serverCount,   \* the server's state and timer
  air,       \* the frames in the air
  mine,      \* the ids that the server's table holds for this client
  heard,     \* the ids that may answer the last SYNC
  busy       \* some client is about to transmit

After == {"SYNC", "JOINREQ", "STATUSMSG"}   \* the states after MSG_READ

(* The client transmits when its timer expires next. *)
CanSend == /\ flag = "SYNC"
           /\ fsm = "JOINED" \/ (fsm = "JOINREQ" /\ flags.joinRequest)

(* What it knows of itself: the timer and the flags fit the state. *)
StationOK ==
  /\ fsm \in States /\ flag \in Flag /\ flags \in Bits
  /\ timer \in Nat \ {0} /\ count \in 0 .. timer
  /\ slot \in ClientIds \cup {0} /\ netId \in Nets \cup {NoNet} /\ slotTime \in BOOLEAN
  /\ presses \in 0 .. MaxPresses
  /\ fsm \in {"INIT", "SYNC"} => timer = FirstTick
  /\ fsm \in {"JOINREQ", "JOINED"} => netId \in Nets /\ slotTime
  /\ fsm = "JOINREQ" => timer = AccessSlot
  /\ fsm = "JOINED" => slot \in ClientIds /\ timer = slot
  /\ flags.joined <=> fsm = "JOINED"
  /\ flags.joinRequest \/ fsm \in {"JOINREQ", "JOINED"} => presses > 0
  /\ flags.appReady => appMsg.text \in Bodies

(* Its timer runs beside the server's, late by what its slot lies before    *)
(* the end of the period; or its slot, the period's last, has just begun.   *)
InPhase ==
  \/ serverFsm = "MSG_READ" /\ serverCount = count + (serverTimer - timer)
  \/ /\ serverFsm \in After /\ serverCount = serverTimer
     /\ count = 0 /\ timer = serverTimer
     /\ \A s \in air : s.from # "server"
SendsInPhase == CanSend => InPhase

(* Nothing is in the air and nobody is about to put anything there. *)
Alone == air = {} /\ ~busy

(* A JOINRESP that it has heard lies undisturbed in the buffer until it is  *)
(* read, and an offer in it for this client is a row of this client.        *)
OfferIsWhole ==
  fsm = "JOINREQ" /\ flag = "JOINRESP" =>
    /\ Alone /\ serverFsm = "SYNC" /\ serverCount > count
    /\ buf.kind = "JOINRESP"
    /\ buf.mine /\ buf.status \in {"ACK", "DUP"} => buf.id \in mine

(* So does the SYNC from which a client that listens learns the network. *)
SyncIsWhole ==
  fsm = "SYNC" /\ flag = "SYNC" =>
    /\ air = {} /\ serverFsm = "MSG_READ" /\ serverCount = count + (serverTimer - 1)
    /\ \E n \in Nets : buf = SyncOf(n)

(* A client that has just been started reads nothing yet. *)
Starts ==
  fsm = "INIT" =>
    /\ flag = "CLEAR" /\ Alone
    /\ \/ serverFsm = "START" /\ serverCount = 0 /\ count = 1
       \/ serverFsm = "SYNC" /\ serverCount > count

(* Its slot is a row of its own in the server's table. *)
IsMember == fsm = "JOINED" => slot \in mine

(* Its answer to the last SYNC is still to come, and has not been sent. *)
MayAnswer ==
  fsm = "JOINED" /\ flag = "SYNC" =>
    /\ slot \in heard
    /\ \A s \in air : s.from = me /\ s.frame.kind = "STATUS" => s.spoiled

StationInv == /\ StationOK /\ SendsInPhase /\ OfferIsWhole /\ SyncIsWhole
              /\ Starts /\ IsMember /\ MayAnswer

own == <<fsm, timer, flag, buf, netId, slotTime, slot, flags, appMsg, count, presses>>
clock == <<serverFsm, serverTimer, serverCount>>

-----------------------------------------------------------------------------
USE IdsAssumption DEF FirstTick, AccessSlot, NoNet, After

(* What the client transmits when its timer expires. *)
Says(f) == \/ f = NoFrame
           \/ CanSend /\ fsm = "JOINREQ" /\ f = [kind |-> "JOINREQ", net |-> netId]
           \/ /\ CanSend /\ fsm = "JOINED" /\ f = [kind |-> "STATUS", src |-> slot, msg |-> appMsg]
              /\ appMsg.text \in Bodies

(* A step of the state machine keeps the client in order. *)
LEMMA ExpiresInit ==
  ASSUME StationOK, Starts, Expire, DevInit
  PROVE  StationOK' /\ fsm' = "SYNC" /\ flag' = "CLEAR" /\ Says(sent')
<1>1. flag' = "CLEAR" /\ fsm' = "SYNC" /\ sent' = NoFrame BY DEF DevInit, Tick, Starts
<1>2. UNCHANGED <<timer, netId, slotTime, slot, flags, presses, appMsg>> /\ fsm = "INIT"
  BY DEF DevInit, Tick, Expire
<1>3. count' = timer' BY DEF Expire
<1>4. StationOK' BY <1>1, <1>2, <1>3 DEF StationOK, States, Flag
<1>5. QED BY <1>1, <1>4 DEF Says

(* A SYNC that it has heard is whole when the client reads it. *)
LEMMA ExpiresSync ==
  ASSUME StationOK, SyncIsWhole, Expire, DevSync
  PROVE  StationOK' /\ fsm' \in {"SYNC", "JOINREQ"} /\ Says(sent')
         /\ flag' # "SYNC" /\ (fsm' = "JOINREQ" => flag' = "CLEAR")
<1>1. /\ fsm = "SYNC" /\ sent' = NoFrame /\ UNCHANGED <<slot, flags, presses, appMsg>>
      /\ count' = timer'
  BY DEF DevSync, Tick, Expire
<1>2. CASE flag = "SYNC" /\ flags.joinRequest
  <2>1. PICK n \in Nets : buf = SyncOf(n) BY <1>1, <1>2 DEF SyncIsWhole
  <2>2. SyncData = {[net |-> n, access |-> AccessSlot, time |-> TRUE]}
    BY <2>1 DEF SyncData, SyncOf
  <2>3. /\ netId' = n /\ slotTime' = TRUE /\ timer' = 2 /\ fsm' = "JOINREQ" /\ flag' = "CLEAR"
    BY <1>2, <2>2 DEF DevSync, SetTimer
  <2>4. presses > 0 /\ ~flags.joined BY <1>1, <1>2 DEF StationOK
  <2>5. timer' \in Nat \ {0} /\ count' \in 0 .. timer' BY <1>1, <2>3
  <2>6. StationOK' BY <1>1, <2>3, <2>4, <2>5 DEF StationOK, States, Flag
  <2>7. QED BY <1>1, <2>3, <2>6 DEF Says
<1>3. CASE ~(flag = "SYNC" /\ flags.joinRequest)
  <2>1. UNCHANGED <<fsm, timer, netId, slotTime>> /\ flag' \in {flag, "CLEAR"} /\ flag' # "SYNC"
    BY <1>3 DEF DevSync
  <2>2. StationOK' BY <1>1, <2>1 DEF StationOK, Flag
  <2>3. QED BY <1>1, <2>1, <2>2 DEF Says
<1>4. QED BY <1>2, <1>3

(* An offer that it has heard is one of its own rows. *)
LEMMA ExpiresJoinReq ==
  ASSUME StationOK, OfferIsWhole, mine \subseteq ClientIds, Expire, DevJoinReq
  PROVE  /\ StationOK' /\ fsm' \in {"JOINREQ", "JOINED"} /\ Says(sent')
         /\ fsm' = "JOINREQ" => /\ flag' # "JOINRESP"
                                /\ ~(flag' = "SYNC" /\ flags'.joinRequest)
         /\ fsm' = "JOINED" => flag' = "CLEAR" /\ slot' \in mine
<1>0. /\ fsm = "JOINREQ" /\ UNCHANGED <<presses, appMsg>> /\ count' = timer'
      /\ timer = 2 /\ slotTime /\ netId \in Nets /\ flags \in Bits /\ presses > 0
  BY DEF DevJoinReq, Tick, Expire, StationOK
<1>1. CASE SendJoinReq
  <2>1. /\ UNCHANGED <<fsm, timer, netId, slotTime, slot>> /\ flag' = "CLEAR" /\ CanSend
        /\ flags' = [flags EXCEPT !.joinRequest = FALSE]
    BY <1>0, <1>1 DEF SendJoinReq, CanSend
  <2>2. flags' \in Bits /\ flags'.joined = flags.joined /\ flags'.appReady = flags.appReady
    BY <1>0, <2>1 DEF Bits
  <2>3. StationOK' BY <1>0, <2>1, <2>2 DEF StationOK, Flag
  <2>4. Says(sent') BY <1>0, <1>1, <2>1 DEF SendJoinReq, Says
  <2>5. QED BY <1>0, <2>1, <2>3, <2>4
<1>2. CASE ReadJoinResp
  <2>1. PICK id \in OfferedIds :
          /\ slot' = id
          /\ \/ /\ id # 0
                /\ flags' = [flags EXCEPT !.joined = TRUE, !.joinRequest = FALSE]
                /\ SetTimer(slotTime, id)
                /\ fsm' = "JOINED"
             \/ id = 0 /\ UNCHANGED <<flags, timer, fsm>>
    BY <1>2 DEF ReadJoinResp
  <2>2. /\ flag = "JOINRESP" /\ flag' = "CLEAR" /\ sent' = NoFrame
        /\ UNCHANGED <<netId, slotTime>>
    BY <1>2 DEF ReadJoinResp
  <2>3. id # 0 => id \in mine
    <3>1. /\ buf.kind = "JOINRESP"
          /\ buf.mine /\ buf.status \in {"ACK", "DUP"} => buf.id \in mine
      BY <1>0, <2>2 DEF OfferIsWhole
    <3>2. QED BY <3>1, <2>1 DEF OfferedIds
  <2>4. CASE id # 0
    <3>0. flags' = [flags EXCEPT !.joined = TRUE, !.joinRequest = FALSE] BY <2>1, <2>4
    <3>1. /\ flags' \in Bits /\ flags'.joined /\ ~flags'.joinRequest
          /\ flags'.appReady = flags.appReady
      BY <1>0, <3>0 DEF Bits
    <3>2. fsm' = "JOINED" /\ timer' = id /\ slot' = id /\ id \in ClientIds
      BY <1>0, <2>1, <2>3, <2>4 DEF SetTimer
    <3>3. timer' \in Nat \ {0} /\ count' \in 0 .. timer' BY <1>0, <3>2
    <3>4. StationOK' BY <1>0, <2>2, <3>1, <3>2, <3>3 DEF StationOK, Flag, States
    <3>5. QED BY <2>2, <2>3, <2>4, <3>2, <3>4 DEF Says
  <2>5. CASE id = 0
    <3>1. UNCHANGED <<flags, timer, fsm>> /\ slot' = 0 BY <2>1, <2>5
    <3>2. StationOK' BY <1>0, <2>2, <3>1 DEF StationOK, Flag
    <3>3. QED BY <1>0, <2>2, <3>1, <3>2 DEF Says
  <2>6. QED BY <2>4, <2>5
<1>3. CASE JoinReqIdle
  <2>1. /\ UNCHANGED <<fsm, timer, flag, netId, slotTime, slot, flags>> /\ sent' = NoFrame
        /\ flag # "JOINRESP" /\ ~(flag = "SYNC" /\ flags.joinRequest)
    BY <1>3 DEF JoinReqIdle
  <2>2. StationOK' BY <1>0, <2>1 DEF StationOK
  <2>3. QED BY <1>0, <2>1, <2>2 DEF Says
<1>4. QED BY <1>1, <1>2, <1>3 DEF DevJoinReq

(* A joined client answers at most once and keeps its slot. *)
LEMMA ExpiresJoined ==
  ASSUME StationOK, IsMember, Expire, DevJoined
  PROVE  StationOK' /\ fsm' = "JOINED" /\ Says(sent') /\ flag' = "CLEAR" /\ slot' = slot
<1>0. /\ fsm = "JOINED" /\ UNCHANGED <<presses, appMsg, fsm, timer, netId, slotTime, slot>>
      /\ flag' = "CLEAR" /\ count' = timer' /\ flags \in Bits
  BY DEF DevJoined, Tick, Expire, StationOK
<1>1. /\ flags' \in Bits /\ flags'.joined = flags.joined /\ flags'.joinRequest = flags.joinRequest
      /\ flags'.appReady => flags.appReady
  <2>1. flags' \in {flags, [flags EXCEPT !.appReady = FALSE], [flags EXCEPT !.netReady = TRUE]}
    BY DEF DevJoined, SendStatus, ReadContrl, JoinedIdle
  <2>2. CASE flags' = flags BY <1>0, <2>2
  <2>3. CASE flags' = [flags EXCEPT !.appReady = FALSE] BY <1>0, <2>3 DEF Bits
  <2>4. CASE flags' = [flags EXCEPT !.netReady = TRUE] BY <1>0, <2>4 DEF Bits
  <2>5. QED BY <2>1, <2>2, <2>3, <2>4
<1>2. StationOK' BY <1>0, <1>1 DEF StationOK, Flag
<1>3. Says(sent')
  <2>1. CASE SendStatus BY <1>0, <2>1 DEF SendStatus, Says, CanSend, StationOK
  <2>2. CASE ReadContrl \/ JoinedIdle BY <2>2 DEF ReadContrl, JoinedIdle, Says
  <2>3. QED BY <2>1, <2>2 DEF DevJoined
<1>4. QED BY <1>0, <1>2, <1>3

(* The client's timer expires. *)
LEMMA Expires ==
  ASSUME StationInv, Expire, mine \subseteq ClientIds, mine' = mine
  PROVE  StationInv' /\ Says(sent') /\ ~CanSend' /\ count = 0 /\ UNCHANGED presses
<1>1. StationOK /\ OfferIsWhole /\ SyncIsWhole /\ Starts /\ IsMember BY DEF StationInv
<1>2. count = 0 /\ UNCHANGED presses BY DEF Expire
<1>3. CASE DevInit
  BY <1>1, <1>2, <1>3, ExpiresInit
  DEF StationInv, CanSend, SendsInPhase, OfferIsWhole, SyncIsWhole, Starts, IsMember, MayAnswer
<1>4. CASE DevSync
  <2>1. /\ StationOK' /\ fsm' \in {"SYNC", "JOINREQ"} /\ Says(sent')
        /\ flag' # "SYNC" /\ (fsm' = "JOINREQ" => flag' = "CLEAR")
    BY <1>1, <1>4, ExpiresSync
  <2>2. QED
    BY <1>2, <2>1
    DEF StationInv, CanSend, SendsInPhase, OfferIsWhole, SyncIsWhole, Starts, IsMember, MayAnswer
<1>5. CASE DevJoinReq
  <2>1. /\ StationOK' /\ fsm' \in {"JOINREQ", "JOINED"} /\ Says(sent')
        /\ fsm' = "JOINREQ" => /\ flag' # "JOINRESP"
                               /\ ~(flag' = "SYNC" /\ flags'.joinRequest)
        /\ fsm' = "JOINED" => flag' = "CLEAR" /\ slot' \in mine
    BY <1>1, <1>5, ExpiresJoinReq
  <2>2. QED
    BY <1>2, <2>1
    DEF StationInv, CanSend, SendsInPhase, OfferIsWhole, SyncIsWhole, Starts, IsMember, MayAnswer
<1>6. CASE DevJoined
  <2>1. /\ StationOK' /\ fsm' = "JOINED" /\ Says(sent') /\ flag' = "CLEAR" /\ slot' = slot
        /\ slot \in mine
    BY <1>1, <1>6, ExpiresJoined DEF DevJoined, Tick, IsMember
  <2>2. QED
    BY <1>2, <2>1
    DEF StationInv, CanSend, SendsInPhase, OfferIsWhole, SyncIsWhole, Starts, IsMember, MayAnswer
<1>7. QED BY <1>3, <1>4, <1>5, <1>6 DEF Expire, Timer
-----------------------------------------------------------------------------
(* What else happens.                                                       *)

(* In the beginning the client is silent. *)
LEMMA Begins ==
  ASSUME MaxPresses \in Nat, StationInit, serverFsm = "START", serverCount = 0, Alone
  PROVE  StationInv /\ ~CanSend
<1>1. /\ fsm = "INIT" /\ timer = 1 /\ flag = "CLEAR" /\ netId = 0 /\ slot = 0
      /\ count = 1 /\ presses = 0
  BY DEF StationInit, Init
<1>2. slotTime \in BOOLEAN BY DEF StationInit, Init
<1>3. flags \in Bits /\ ~flags.joined /\ ~flags.joinRequest /\ ~flags.appReady
  <2>1. flags = [joinRequest |-> FALSE, joined |-> FALSE, appReady |-> FALSE, netReady |-> FALSE]
    BY DEF StationInit, Init
  <2>2. QED BY <2>1 DEF Bits
<1>4. StationOK
  <2>1. count \in 0 .. timer /\ presses \in 0 .. MaxPresses BY <1>1
  <2>2. QED BY <1>1, <1>2, <1>3, <2>1 DEF StationOK, States, Flag
<1>5. Starts BY <1>1 DEF Starts
<1>6. QED
  BY <1>1, <1>4, <1>5
  DEF StationInv, CanSend, SendsInPhase, OfferIsWhole, SyncIsWhole, IsMember, MayAnswer

(* What is in the air of the server's and of this client's frames was there *)
(* before, no less spoiled.                                                 *)
Carried ==
  \A s \in air' : s.from \in {"server", me} =>
    \E t \in air : t.from = s.from /\ t.frame = s.frame /\ (t.spoiled => s.spoiled)

still == <<fsm, timer, flag, netId, slotTime, slot, flags, appMsg, count, presses>>

(* A step of others: a frame that is not read may fall into the buffer.     *)
LEMMA Undisturbed ==
  ASSUME StationInv, UNCHANGED still, UNCHANGED clock, mine' = mine, Carried,
         buf' = buf \/ air # {},
         fsm = "SYNC" /\ flag = "SYNC" /\ air = {} => air' = {},
         Alone => Alone',
         fsm = "JOINED" /\ flag = "SYNC" => slot \in heard'
  PROVE  StationInv'
<1> USE DEF still, clock
<1>1. StationOK' /\ IsMember' /\ (CanSend' <=> CanSend)
  BY DEF StationInv, StationOK, IsMember, CanSend
<1>2. SendsInPhase'
  <2>1. InPhase => InPhase' BY DEF InPhase, Carried
  <2>2. QED BY <1>1, <2>1 DEF StationInv, SendsInPhase
<1>3. OfferIsWhole' BY DEF StationInv, OfferIsWhole, Alone
<1>4. SyncIsWhole' BY DEF StationInv, SyncIsWhole
<1>5. Starts' BY DEF StationInv, Starts, Alone
<1>6. MayAnswer' BY DEF StationInv, MayAnswer, Carried
<1>7. QED BY <1>1, <1>2, <1>3, <1>4, <1>5, <1>6 DEF StationInv

(* A SYNC is heard. *)
LEMMA HearsSync ==
  ASSUME StationInv, NEW n \in Nets, HearSync(n), UNCHANGED clock, mine' = mine,
         heard' = heard, air # {}, air' = {}, serverFsm = "MSG_READ",
         serverTimer \in Nat, serverCount = serverTimer, mine \subseteq heard
  PROVE  StationInv'
<1>1. /\ UNCHANGED <<fsm, timer, netId, slotTime, slot, flags, appMsg, presses>>
      /\ count' = timer /\ flag' = "SYNC" /\ buf' = SyncOf(n)
  BY DEF HearSync, RxSync, RxUnchanged
<1>2. StationOK /\ Starts /\ IsMember BY DEF StationInv
<1>3. StationOK' BY <1>1, <1>2 DEF StationOK, Flag
<1>4. SendsInPhase'
  <2>1. serverFsm' = "MSG_READ" /\ serverCount' = count' + (serverTimer' - timer')
    BY <1>1, <1>2 DEF clock, StationOK
  <2>2. QED BY <2>1 DEF SendsInPhase, InPhase
<1>5. SyncIsWhole'
  <2>1. fsm' = "SYNC" => serverCount' = count' + (serverTimer' - 1)
    BY <1>1, <1>2 DEF clock, StationOK
  <2>2. QED BY <1>1, <2>1 DEF clock, SyncIsWhole
<1>6. OfferIsWhole' /\ IsMember' /\ MayAnswer' BY <1>1, <1>2 DEF OfferIsWhole, IsMember, MayAnswer
<1>7. Starts' BY <1>1, <1>2 DEF Starts, Alone
<1>8. QED BY <1>3, <1>4, <1>5, <1>6, <1>7 DEF StationInv

(* An answer of the server is heard. *)
LEMMA HearsReply ==
  ASSUME StationInv, NEW f, HearReply(f), f.kind \in {"JOINRESP", "CONTRL"}, UNCHANGED clock,
         mine' = mine, air # {}, Alone', serverTimer \in Nat, serverTimer >= 3,
         serverCount = serverTimer,
         f.kind = "JOINRESP" => serverFsm = "SYNC" /\ (f.mine => f.id \in mine)
  PROVE  StationInv'
<1>1. /\ UNCHANGED <<fsm, timer, netId, slotTime, slot, flags, appMsg, count, presses>> /\ flag' = f.kind /\ buf' = f
  BY DEF HearReply, RxReply, RxUnchanged
<1>2. StationOK /\ Starts /\ IsMember BY DEF StationInv
<1>3. StationOK' BY <1>1, <1>2 DEF StationOK, Flag
<1>4. ~CanSend' /\ ~(flag' = "SYNC") BY <1>1 DEF CanSend
<1>5. OfferIsWhole'
  <2>1. fsm = "JOINREQ" => count <= 2 BY <1>2 DEF StationOK
  <2>2. QED BY <1>1, <2>1, <1>2 DEF OfferIsWhole, clock, StationOK
<1>6. Starts' /\ IsMember' BY <1>1, <1>2 DEF Starts, IsMember, Alone
<1>7. QED BY <1>3, <1>4, <1>5, <1>6 DEF StationInv, SendsInPhase, SyncIsWhole, MayAnswer

(* The server's timer expires. *)
LEMMA ServerTicks ==
  ASSUME StationInv, UNCHANGED own, serverCount = 0, serverTimer \in Nat, mine \subseteq mine',
         \/ /\ serverFsm = "MSG_READ" /\ serverFsm' \in After
            /\ serverTimer' = serverTimer /\ serverCount' = serverTimer' /\ serverTimer > 1
            /\ \A s \in air : s.from # "server"
            /\ air' = air /\ heard' = heard
            /\ CanSend => timer <= serverTimer
         \/ /\ serverFsm = "START" /\ serverFsm' = "SYNC" /\ serverCount' \in Nat /\ serverCount' > 1
            /\ Alone => Alone'
         \/ serverFsm \notin {"MSG_READ", "START"} /\ serverTimer > 0
  PROVE  StationInv'
<1>1. /\ StationOK /\ SendsInPhase /\ OfferIsWhole /\ SyncIsWhole /\ Starts /\ IsMember
      /\ MayAnswer
  BY DEF StationInv
<1>2. StationOK' /\ IsMember' /\ (CanSend' <=> CanSend)
  BY <1>1 DEF StationOK, IsMember, CanSend, own
<1>3. count \in Nat /\ timer \in Nat BY <1>1 DEF StationOK
<1>4. ~(fsm = "JOINREQ" /\ flag = "JOINRESP") BY <1>1, <1>3 DEF OfferIsWhole
<1>5. ~(fsm = "SYNC" /\ flag = "SYNC") BY <1>1, <1>3 DEF SyncIsWhole
<1>6. OfferIsWhole' /\ SyncIsWhole' BY <1>4, <1>5 DEF OfferIsWhole, SyncIsWhole, own
<1>7. CASE serverFsm = "MSG_READ"
  <2>1. Starts' BY <1>1, <1>7 DEF Starts, own
  <2>2. MayAnswer' BY <1>1, <1>7 DEF MayAnswer, own
  <2>3. SendsInPhase' BY <1>1, <1>2, <1>3, <1>7 DEF SendsInPhase, InPhase, own
  <2>4. QED BY <1>2, <1>6, <2>1, <2>2, <2>3 DEF StationInv
<1>8. CASE serverFsm # "MSG_READ"
  <2>1. ~CanSend BY <1>1, <1>8 DEF SendsInPhase, InPhase
  <2>2. Starts' BY <1>1, <1>3, <1>8 DEF Starts, own
  <2>3. QED BY <1>2, <1>6, <2>1, <2>2 DEF StationInv, SendsInPhase, MayAnswer, CanSend
<1>9. QED BY <1>7, <1>8

(* A slot passes: both clocks go on. *)
LEMMA SlotGoes ==
  ASSUME StationInv, Pass, serverCount \in Nat, serverCount > 0, serverCount' = serverCount - 1,
         UNCHANGED <<serverFsm, serverTimer>>, serverTimer \in Nat, mine' = mine, heard' = heard,
         Carried, air = {} => air' = {}, busy' = busy
  PROVE  StationInv'
<1>1. /\ StationOK /\ SendsInPhase /\ OfferIsWhole /\ SyncIsWhole /\ Starts /\ IsMember
      /\ MayAnswer
  BY DEF StationInv
<1>2. /\ UNCHANGED <<fsm, timer, flag, buf, netId, slotTime, slot, flags, appMsg, presses>>
      /\ count > 0 /\ count' = count - 1 /\ count \in 0 .. timer /\ timer \in Nat
  BY <1>1 DEF Pass, vars, StationOK
<1>3. StationOK' /\ IsMember' /\ (CanSend' <=> CanSend)
  BY <1>1, <1>2 DEF StationOK, IsMember, CanSend
<1>4. SendsInPhase' BY <1>1, <1>2, <1>3 DEF SendsInPhase, InPhase
<1>5. OfferIsWhole' BY <1>1, <1>2 DEF OfferIsWhole, Alone
<1>6. SyncIsWhole' BY <1>1, <1>2 DEF SyncIsWhole
<1>7. Starts' BY <1>1, <1>2 DEF Starts, Alone
<1>8. MayAnswer' BY <1>1, <1>2 DEF MayAnswer, Carried
<1>9. QED BY <1>3, <1>4, <1>5, <1>6, <1>7, <1>8 DEF StationInv

(* The button of a client that joins at most once is pressed before. *)
LEMMA PressIsQuiet ==
  ASSUME StationInv, Press, MaxPresses \in 0 .. 1
  PROVE  ~CanSend /\ ~CanSend' /\ fsm \notin {"JOINREQ", "JOINED"}
<1>1. presses = 0 /\ fsm' = fsm
  BY DEF StationInv, StationOK, Press, PressButton
<1>2. QED BY <1>1 DEF StationInv, StationOK, CanSend

(* The button is pressed. *)
LEMMA Pressed ==
  ASSUME StationInv, Press, MaxPresses \in 0 .. 1, UNCHANGED <<clock, air, mine, heard, busy>>
  PROVE  StationInv'
<1>1. /\ StationOK /\ SendsInPhase /\ OfferIsWhole /\ SyncIsWhole /\ Starts /\ IsMember
      /\ MayAnswer
  BY DEF StationInv
<1>2. /\ UNCHANGED <<fsm, timer, flag, buf, netId, slotTime, slot, appMsg, count>>
      /\ presses < MaxPresses /\ presses' = presses + 1 /\ presses \in Nat
      /\ flags' = [flags EXCEPT !.joinRequest = TRUE] /\ flags \in Bits
  BY <1>1 DEF Press, PressButton, StationOK
<1>3. flags' \in Bits /\ flags'.joined = flags.joined /\ flags'.appReady = flags.appReady
  BY <1>2 DEF Bits
<1>4. presses' \in 0 .. MaxPresses /\ presses' > 0 BY <1>2
<1>5. StationOK' BY <1>1, <1>2, <1>3, <1>4 DEF StationOK
<1>6. ~CanSend' /\ fsm \notin {"JOINREQ", "JOINED"} BY PressIsQuiet
<1>7. SyncIsWhole' BY <1>1, <1>2 DEF SyncIsWhole, clock
<1>8. Starts' BY <1>1, <1>2 DEF Starts, Alone, clock
<1>9. QED BY <1>2, <1>5, <1>6, <1>7, <1>8
         DEF StationInv, SendsInPhase, OfferIsWhole, IsMember, MayAnswer

(* A message is handed over. *)
LEMMA PostIsQuiet ==
  ASSUME StationInv, NEW b \in Bodies, Post(b)
  PROVE  StationOK' /\ (CanSend' <=> CanSend)
<1>1. /\ UNCHANGED <<fsm, timer, flag, buf, netId, slotTime, slot, count, presses>>
      /\ flags' = [flags EXCEPT !.appReady = TRUE] /\ flags \in Bits
      /\ appMsg' = [text |-> b, len |-> b]
  BY DEF StationInv, StationOK, Post
<1>2. /\ flags' \in Bits /\ flags'.joined = flags.joined
      /\ flags'.joinRequest = flags.joinRequest
  BY <1>1 DEF Bits
<1>3. QED BY <1>1, <1>2 DEF StationInv, StationOK, CanSend

(* The channel and the clock rest meanwhile. *)
LEMMA Posted ==
  ASSUME StationInv, NEW b \in Bodies, Post(b), UNCHANGED <<clock, air, mine, heard, busy>>
  PROVE  StationInv'
<1>1. UNCHANGED <<fsm, timer, flag, buf, slot, count>> BY DEF Post
<1>2. StationOK' /\ (CanSend' <=> CanSend) BY PostIsQuiet
<1>3. QED
  BY <1>1, <1>2
  DEF StationInv, SendsInPhase, InPhase, OfferIsWhole, SyncIsWhole, Starts, IsMember, MayAnswer,
      Alone, clock
=============================================================================
