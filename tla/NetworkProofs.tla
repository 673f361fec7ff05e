---------------------------- MODULE NetworkProofs ----------------------------
(* Proofs about Network: a server and its two clients, for every size of    *)
(* the table and any number of lost frames. The invariant relates the three *)
(* timers, the frames in the air and what half a frame leaves in a buffer.  *)
EXTENDS Network, ServerFsmProofs

(* The slots that the server has for a device. *)
IdsOf(mac) == {table[i].id : i \in {j \in Registered : table[j].mac = mac}}

(* A client in this state transmits when its timer expires. *)
MaySend(state, flag_, bits) ==
  flag_ = "SYNC" /\ (state = "JOINED" \/ (state = "JOINREQ" /\ bits.joinRequest))

CanA == MaySend(fsmA, flagA, flagsA)
CanB == MaySend(fsmB, flagB, flagsB)

(* Each client, beside the server's clock, its table and the channel. *)
SA == INSTANCE StationProofs WITH
        me <- "A", Nets <- {OwnNet},
        fsm <- fsmA, timer <- timerA, flag <- flagA, buf <- bufA, netId <- netIdA,
        slotTime <- slotTimeA, slot <- slotA, flags <- flagsA, appMsg <- appMsgA,
        pc <- pcA, arg <- argA, reg <- regA, sent <- sentA, expired <- expiredA,
        count <- countA, presses <- pressesA,
        serverFsm <- fsm, serverTimer <- timer, serverCount <- count,
        mine <- IdsOf(MacA),
        busy <- CanA \/ CanB
SB == INSTANCE StationProofs WITH
        me <- "B", Nets <- {OwnNet},
        fsm <- fsmB, timer <- timerB, flag <- flagB, buf <- bufB, netId <- netIdB,
        slotTime <- slotTimeB, slot <- slotB, flags <- flagsB, appMsg <- appMsgB,
        pc <- pcB, arg <- argB, reg <- regB, sent <- sentB, expired <- expiredB,
        count <- countB, presses <- pressesB,
        serverFsm <- fsm, serverTimer <- timer, serverCount <- count,
        mine <- IdsOf(MacB),
        busy <- CanA \/ CanB

Two == {"A", "B"}
MacOf(c) == IF c = "A" THEN MacA ELSE MacB

(* What may be in the air. *)
Fields == {"from", "frame", "own", "spoiled", "late", "begun"}
FrameOK(s) ==
  \/ s.from = "server" /\ s.own = TRUE /\ s.frame.kind \in {"SYNC", "JOINRESP", "CONTRL"}
  \/ s.from \in Two /\ s.frame.kind = "JOINREQ"
  \/ s.from \in Two /\ s.own = TRUE /\ s.frame.kind = "STATUS" /\ s.frame.msg.text \in Bodies
AirOK == \A s \in air : DOMAIN s = Fields /\ FrameOK(s)

(* A frame of the server is alone in the air. *)
ServerFrames ==
  \A s \in air : s.from = "server" =>
    /\ air = {s} /\ ~s.late /\ count = timer
    /\ s.frame.kind = "SYNC" => fsm = "MSG_READ" /\ MemberIds \subseteq heard
    /\ s.frame.kind = "JOINRESP" =>
         /\ fsm = "SYNC"
         /\ s.frame.mac \in {MacA, MacB} /\ s.frame.id \in IdsOf(s.frame.mac)
    /\ s.frame.kind = "CONTRL" => fsm \in {"SYNC", "STATUSMSG"}

(* The slot p has just begun. *)
Phase(p) == \/ fsm = "MSG_READ" /\ count > 0 /\ count = timer - p
            \/ fsm \in SA!After /\ count = timer /\ p = timer
(* The slot that a client's frame is sent in. *)
SlotOf(f) == IF f.kind = "STATUS" THEN f.src ELSE 2
(* A client's frame is sent in its slot, before the server transmits; a     *)
(* STATUS is a member's and the server still waits for it.                  *)
ClientFrame(s) ==
  /\ fsm = "MSG_READ" \/ (fsm \in SA!After /\ count >= timer - 1)
  /\ ~s.late => Phase(SlotOf(s.frame))
  /\ s.frame.kind = "STATUS" =>
       /\ s.frame.src \in IdsOf(MacOf(s.from))
       /\ ~s.spoiled => s.frame.src \in heard
ClientFrames == \A s \in air : s.from # "server" => ClientFrame(s)

(* Frames that overlap spoil each other. *)
Spoiling == \A s \in air : ~s.spoiled => air = {s}

(* A valid request has a client's address, unless half a frame has just     *)
(* been written over it and the rest is still in the air.                   *)
RequestIsWhole ==
  readMsg.valid => /\ readMsg.slots = 1
                   /\ \/ readMsg.mac \in {MacA, MacB}
                      \/ \E s \in air : s.begun /\ s.from # "server"
(* Between the two interrupts of a join the result names a client's row. *)
AnswerPending == fsm = "JOINRESP" => requester \in {MacA, MacB} /\ tableValues.index \in OwnRows

ChannelInv == /\ AirOK /\ ServerFrames /\ ClientFrames /\ Spoiling /\ MembersDoNotCollide
              /\ RequestIsWhole /\ MembersAreClients /\ AnswerPending
ClockOK == count \in 0 .. timer

(* The inductive invariant. *)
NetworkInv(g) ==
  /\ ServerInv /\ TableInv(g) /\ FreeRowsBlank
  /\ ClockOK /\ ChannelInv /\ SA!StationInv /\ SB!StationInv /\ resets = 0

(* Nobody is reset and each button is pressed once: a client that asks a    *)
(* second time does so out of its phase, and speaks over answers.           *)
Calm == /\ NoWrap /\ ServerMode = "LOCAL" /\ TableSize >= 2 /\ Plain(MacA) /\ Plain(MacB)
        /\ MaxPresses <= 1 /\ MaxResets = 0

-----------------------------------------------------------------------------
(* The instances.                                                           *)
(* What the instances assume of their constants. *)
LEMMA Premises ==
  /\ OwnNet \in {OwnNet} /\ {OwnNet} \subseteq Nat \ {SA!NoNet}
  /\ {OwnNet} \subseteq Nat \ {SB!NoNet}
  /\ ClientIds \subseteq Nat \ (0 .. 3) /\ "" \notin Bodies
<1>1. 1 \in {1} /\ {1} \subseteq Nat \ {0} OBVIOUS
<1>2. "" \notin Bodies BY BodiesAssumption, Zenon
<1>3. 3 <= StartingSlots BY ClientsAssumption DEF BroadcastSlot
<1>4. StartingSlots \in Nat /\ Width \in Nat BY SizesAssumption
<1>5. ClientIds \subseteq Nat \ (0 .. 3) BY <1>3, <1>4 DEF ClientIds
<1>6. QED BY <1>1, <1>2, <1>5, Zenon DEF OwnNet, SA!NoNet, SB!NoNet

(* The slots of clients come after the join requests' and the server's own. *)
LEMMA ClientIdsAreHigh == \A i \in ClientIds : i \in Nat /\ i > 3
<1>1. ClientIds \subseteq Nat \ (0 .. 3) BY Premises, Zenon
<1>2. QED BY <1>1

-----------------------------------------------------------------------------
(* Signals.                                                                 *)

(* t is s, a little later. *)
Descends(t, s) ==
  /\ t.from = s.from /\ t.frame = s.frame /\ t.own = s.own
  /\ s.spoiled => t.spoiled
  /\ s.begun => t.begun
  /\ s.late => t.late

(* What a collision leaves of a frame. *)
LEMMA SpoilKeeps ==
  ASSUME NEW s, DOMAIN s = Fields
  PROVE  /\ DOMAIN Spoil(s) = Fields /\ Descends(Spoil(s), s) /\ Spoil(s).spoiled
         /\ Spoil(s).late = s.late
BY DEF Spoil, Fields, Descends

(* What a slot leaves of it. *)
LEMMA LateKeeps ==
  ASSUME NEW s, DOMAIN s = Fields
  PROVE  LET t == [s EXCEPT !.late = TRUE]
         IN DOMAIN t = Fields /\ Descends(t, s) /\ t.late /\ t.spoiled = s.spoiled
BY DEF Fields, Descends

(* What its first octets leave of it. *)
LEMMA BegunKeeps ==
  ASSUME NEW s, DOMAIN s = Fields
  PROVE  LET t == [s EXCEPT !.begun = TRUE]
         IN DOMAIN t = Fields /\ Descends(t, s) /\ t.late = s.late /\ t.spoiled = s.spoiled /\ t.begun
BY DEF Fields, Descends

(* A frame that is sent is whole, in time and not yet heard. *)
LEMMA NewSignal ==
  ASSUME NEW who, NEW f, NEW net
  PROVE  LET s == Signal(who, f, net)
         IN /\ DOMAIN s = Fields /\ s.from = who /\ s.frame = f /\ s.own = (net = OwnNet)
            /\ ~s.spoiled /\ ~s.late /\ ~s.begun
BY DEF Signal, Fields

-----------------------------------------------------------------------------
(* The server when nothing happens to it.                                   *)
SameTable == table' = table /\ requester' = requester /\ tableValues' = tableValues
SameClock == fsm' = fsm /\ timer' = timer /\ count' = count

(* It keeps its table, its clock and its buffer. *)
LEMMA ServerUntouched ==
  ASSUME UNCHANGED serverVars
  PROVE  SameTable /\ SameClock /\ readMsg' = readMsg /\ heard' = heard /\ UNCHANGED vars
BY DEF serverVars, vars, tableVars, fsmVars, envVars, SameTable, SameClock

(* The rows are those of before. *)
LEMMA TableUntouched ==
  ASSUME SameTable
  PROVE  /\ \A m : IdsOf(m)' = IdsOf(m)
         /\ MemberIds' = MemberIds /\ Registered' = Registered /\ OwnRows' = OwnRows
         /\ MembersAreClients' <=> MembersAreClients
BY DEF SameTable, IdsOf, MemberIds, Registered, OwnRows, MembersAreClients

(* So is the phase. *)
LEMMA PhaseUntouched == ASSUME SameClock, NEW p PROVE Phase(p)' <=> Phase(p)
BY DEF SameClock, Phase

-----------------------------------------------------------------------------
(* A client's timer expires: the channel.                                   *)

NoServerFrame == \A s \in air : s.from # "server"

(* A frame f that client c may send, on this or on another network's id. *)
Sendable(c, f, net) ==
  /\ NoServerFrame
  /\ Phase(SlotOf(f))
  /\ \/ f.kind = "JOINREQ"
     \/ /\ f.kind = "STATUS" /\ net = OwnNet /\ f.msg.text \in Bodies
        /\ f.src \in IdsOf(MacOf(c)) /\ f.src \in heard

(* What lies in the air after a client has sent. *)
LEMMA AirAfterSend ==
  ASSUME AirOK, NEW c \in Two, NEW f, NEW net, Transmit(c, f, net), f.kind # "none"
  PROVE  /\ \A t \in air' : DOMAIN t = Fields
         /\ \A t \in air' : \/ \E s \in air : Descends(t, s) /\ t.late = s.late
                            \/ /\ t.from = c /\ t.frame = f /\ t.own = (net = OwnNet)
                               /\ ~t.late
         /\ \A t \in air' : ~t.spoiled => air = {} /\ air' = {t}
         /\ \A s \in air : \E t \in air' : Descends(t, s)
<1> DEFINE n == Signal(c, f, net)
<1>1. /\ DOMAIN n = Fields /\ n.from = c /\ n.frame = f /\ n.own = (net = OwnNet)
      /\ ~n.spoiled /\ ~n.late /\ ~n.begun
  BY NewSignal
<1>2. CASE air = {}
  <2>1. air' = {n} BY <1>2 DEF Transmit
  <2> HIDE DEF n
  <2>2. QED BY <1>1, <1>2, <2>1
<1>3. CASE air # {}
  <2>1. air' = {Spoil(s) : s \in air \cup {n}} BY <1>3 DEF Transmit
  <2> HIDE DEF n
  <2>2. \A s \in air \cup {n} :
          DOMAIN Spoil(s) = Fields /\ Descends(Spoil(s), s) /\ Spoil(s).spoiled
          /\ Spoil(s).late = s.late
    BY <1>1, SpoilKeeps DEF AirOK
  <2>3. \A s \in air : Spoil(s) \in air' BY <2>1
  <2>4. QED BY <1>1, <2>1, <2>2, <2>3 DEF Descends
<1>4. QED BY <1>2, <1>3

(* A client that sends in its own slot keeps the channel in order. *)
LEMMA ClientSends ==
  ASSUME ChannelInv, count \in Nat, timer \in Nat, count > 0, LateSignals = {},
         IdsOf(MacA) \cap IdsOf(MacB) = {}, IdsOf(MacA) \cup IdsOf(MacB) \subseteq Nat,
         NEW c \in Two, NEW f, NEW net, Transmit(c, f, net), UNCHANGED serverVars,
         f.kind = "none" \/ Sendable(c, f, net)
  PROVE  ChannelInv'
<1>1. /\ SameTable /\ SameClock /\ readMsg' = readMsg /\ heard' = heard
      /\ \A m : IdsOf(m)' = IdsOf(m)
      /\ MemberIds' = MemberIds /\ MembersAreClients' /\ OwnRows' = OwnRows
      /\ \A p : Phase(p)' <=> Phase(p)
  BY ServerUntouched, TableUntouched, PhaseUntouched DEF ChannelInv
<1>2. fsm' = fsm /\ timer' = timer /\ count' = count /\ requester' = requester
      /\ tableValues' = tableValues
  BY <1>1 DEF SameTable, SameClock
<1>3. AnswerPending' BY <1>1, <1>2 DEF ChannelInv, AnswerPending
<1>4. CASE f.kind = "none"
  <2>1. air' = air BY <1>4 DEF Transmit
  <2>2. AirOK' /\ Spoiling' /\ MembersDoNotCollide'
    BY <2>1 DEF ChannelInv, AirOK, FrameOK, Spoiling, MembersDoNotCollide
  <2>3. ServerFrames' BY <1>1, <1>2, <2>1 DEF ChannelInv, ServerFrames
  <2>4. ClientFrames' BY <1>1, <1>2, <2>1 DEF ChannelInv, ClientFrames, ClientFrame
  <2>5. RequestIsWhole' BY <1>1, <2>1 DEF ChannelInv, RequestIsWhole
  <2>6. QED BY <1>1, <1>3, <2>2, <2>3, <2>4, <2>5 DEF ChannelInv
<1>5. CASE Sendable(c, f, net)
  <2>0. /\ AirOK /\ ServerFrames /\ ClientFrames /\ Spoiling /\ MembersDoNotCollide
        /\ RequestIsWhole /\ NoServerFrame /\ Phase(SlotOf(f)) /\ c # "server"
    BY <1>5 DEF ChannelInv, Sendable, Two
  <2>1. f.kind \in {"JOINREQ", "STATUS"} BY <1>5 DEF Sendable
  <2>2. /\ \A t \in air' : DOMAIN t = Fields
        /\ \A t \in air' : \/ \E s \in air : Descends(t, s) /\ t.late = s.late
                           \/ /\ t.from = c /\ t.frame = f /\ t.own = (net = OwnNet)
                              /\ ~t.late
        /\ \A t \in air' : ~t.spoiled => air = {} /\ air' = {t}
        /\ \A s \in air : \E t \in air' : Descends(t, s)
    BY <2>0, <2>1, AirAfterSend
  <2>3. AirOK'
    <3>1. ASSUME NEW t \in air', NEW s \in air, Descends(t, s) PROVE FrameOK(t)
      BY <2>0, <3>1 DEF AirOK, FrameOK, Descends
    <3>2. ASSUME NEW t \in air', t.from = c, t.frame = f, t.own = (net = OwnNet)
          PROVE FrameOK(t)
      BY <1>5, <3>2 DEF Sendable, FrameOK
    <3>3. QED BY <2>2, <3>1, <3>2 DEF AirOK, FrameOK
  <2>4. ServerFrames'
    <3>1. \A t \in air' : t.from # "server" BY <2>0, <2>2 DEF NoServerFrame, Descends
    <3>2. QED BY <3>1 DEF ServerFrames
  <2>5. ClientFrames'
    <3>1. ASSUME NEW t \in air', NEW s \in air, Descends(t, s), t.late = s.late
          PROVE  ClientFrame(t)'
      <4>1. ClientFrame(s) BY <2>0 DEF ClientFrames, NoServerFrame
      <4>2. QED BY <1>1, <1>2, <3>1, <4>1 DEF ClientFrame, Descends
    <3>2. ASSUME NEW t \in air', t.from = c, t.frame = f
          PROVE  ClientFrame(t)'
      <4>1. fsm = "MSG_READ" \/ (fsm \in SA!After /\ count >= timer - 1)
        BY <2>0 DEF Phase
      <4>2. f.kind = "STATUS" => f.src \in IdsOf(MacOf(c)) /\ f.src \in heard
        BY <1>5 DEF Sendable
      <4>3. QED BY <1>1, <1>2, <2>0, <3>2, <4>1, <4>2 DEF ClientFrame
    <3>3. QED BY <2>2, <3>1, <3>2 DEF ClientFrames
  <2>6. Spoiling' BY <2>2 DEF Spoiling
  <2>7. MembersDoNotCollide'
    <3>1. ASSUME NEW s \in air, s.from # c, s.frame.kind # "JOINREQ", f.kind # "JOINREQ"
          PROVE  FALSE
      <4>1. s.from \in Two /\ s.frame.kind = "STATUS" /\ ClientFrame(s) /\ ~s.late
        BY <2>0, <3>1 DEF AirOK, FrameOK, NoServerFrame, ClientFrames, LateSignals
      <4>2. s.frame.src \in IdsOf(MacOf(s.from)) /\ Phase(s.frame.src)
        BY <4>1 DEF ClientFrame, SlotOf
      <4>3. f.src \in IdsOf(MacOf(c)) /\ Phase(f.src) BY <1>5, <2>1, <3>1 DEF Sendable, SlotOf
      <4>4. f.src \in Nat /\ s.frame.src \in Nat /\ f.src # s.frame.src
        BY <3>1, <4>1, <4>2, <4>3 DEF Two, MacOf
      <4>5. QED BY <4>2, <4>3, <4>4 DEF Phase, SA!After
    <3>2. ASSUME NEW s \in air', NEW t \in air', s.from # t.from
          PROVE  "JOINREQ" \in {s.frame.kind, t.frame.kind}
      BY <2>0, <2>2, <3>1, <3>2 DEF Descends, MembersDoNotCollide
    <3>3. QED BY <3>2 DEF MembersDoNotCollide
  <2>8. RequestIsWhole'
    <3>1. ASSUME NEW s \in air, s.begun, s.from # "server"
          PROVE  \E t \in air' : t.begun /\ t.from # "server"
      BY <2>2, <3>1 DEF Descends
    <3>2. QED BY <1>1, <2>0, <3>1 DEF RequestIsWhole
  <2>9. QED BY <1>1, <1>3, <2>3, <2>4, <2>5, <2>6, <2>7, <2>8 DEF ChannelInv
<1>6. QED BY <1>4, <1>5

-----------------------------------------------------------------------------
(* The other steps of the channel.                                          *)

(* A slot passes: what is in the air is a slot older. *)
LEMMA SlotPassesChannel ==
  ASSUME ChannelInv, count \in Nat, timer \in Nat, SlotPasses
  PROVE  ChannelInv'
<1>0. /\ AirOK /\ ServerFrames /\ ClientFrames /\ Spoiling /\ MembersDoNotCollide
      /\ RequestIsWhole
  BY DEF ChannelInv
<1>1. /\ \A s \in air : ~s.late /\ s.from # "server"
      /\ count > 0 /\ count' = count - 1
      /\ air' = {[s EXCEPT !.late = TRUE] : s \in air}
  BY DEF SlotPasses
<1>2. /\ fsm' = fsm /\ timer' = timer /\ readMsg' = readMsg /\ heard' = heard /\ SameTable
      /\ requester' = requester /\ tableValues' = tableValues
  BY DEF SlotPasses, vars, fsmVars, envVars, tableVars, SameTable
<1>3. /\ \A m : IdsOf(m)' = IdsOf(m)
      /\ MemberIds' = MemberIds /\ MembersAreClients' /\ OwnRows' = OwnRows
  BY <1>2, TableUntouched DEF ChannelInv
<1>4. \A s \in air : LET t == [s EXCEPT !.late = TRUE]
                     IN DOMAIN t = Fields /\ Descends(t, s) /\ t.late /\ t.spoiled = s.spoiled
  BY <1>0, LateKeeps DEF AirOK
<1>5. \A t \in air' : \E s \in air : /\ DOMAIN t = Fields /\ Descends(t, s) /\ t.late
                                     /\ t.spoiled = s.spoiled /\ t = [s EXCEPT !.late = TRUE]
  BY <1>1, <1>4
<1>6. AirOK' BY <1>0, <1>5 DEF AirOK, FrameOK, Descends
<1>7. ServerFrames'
  <2>1. \A t \in air' : t.from # "server" BY <1>1, <1>5 DEF Descends
  <2>2. QED BY <2>1 DEF ServerFrames
<1>8. ClientFrames'
  <2> SUFFICES ASSUME NEW t \in air' PROVE ClientFrame(t)' BY DEF ClientFrames
  <2>1. PICK s \in air : Descends(t, s) /\ t.late /\ t.spoiled = s.spoiled BY <1>5
  <2>2. ClientFrame(s) /\ ~s.late BY <1>0, <1>1 DEF ClientFrames
  <2>3. fsm = "MSG_READ" \/ (fsm \in SA!After /\ count' >= timer - 1)
    BY <1>1, <2>2 DEF ClientFrame, Phase
  <2>4. QED BY <1>2, <1>3, <2>1, <2>2, <2>3 DEF ClientFrame, Descends
<1>9. Spoiling'
  <2> SUFFICES ASSUME NEW t \in air', ~t.spoiled PROVE air' = {t} BY DEF Spoiling
  <2>1. PICK s \in air : t.spoiled = s.spoiled /\ t = [s EXCEPT !.late = TRUE] BY <1>5
  <2>2. air = {s} BY <1>0, <2>1 DEF Spoiling
  <2>3. QED BY <1>1, <2>1, <2>2
<1>10. MembersDoNotCollide' BY <1>0, <1>5 DEF MembersDoNotCollide, Descends
<1>11. RequestIsWhole'
  <2>1. ASSUME NEW s \in air, s.begun, s.from # "server"
        PROVE  \E t \in air' : t.begun /\ t.from # "server"
    <3>1. [s EXCEPT !.late = TRUE] \in air' BY <1>1
    <3>2. QED BY <1>4, <2>1, <3>1 DEF Descends
  <2>2. QED BY <1>0, <1>2, <2>1 DEF RequestIsWhole
<1>12. AnswerPending' BY <1>2, <1>3 DEF ChannelInv, AnswerPending
<1>13. QED BY <1>3, <1>6, <1>7, <1>8, <1>9, <1>10, <1>11, <1>12 DEF ChannelInv

(* Half a frame changes the address of a request and nothing else. *)
LEMMA BeginKeepsRequest ==
  ASSUME ReadMsgOK, \E m \in Torn : RxHead(m)
  PROVE  readMsg'.valid = readMsg.valid /\ readMsg'.slots = readMsg.slots
BY DEF ReadMsgOK, JoinReq, RxHead

(* The first octets of a frame are heard.                                   *)
LEMMA BeginChannel ==
  ASSUME ReadMsgOK, ChannelInv, NEW s0 \in air, Begin(s0)
  PROVE  /\ ChannelInv' /\ SameTable /\ SameClock /\ heard' = heard /\ [ServerNext]_vars
         /\ \A t \in air' : \E s \in air : Descends(t, s)
<1>0. /\ AirOK /\ ServerFrames /\ ClientFrames /\ Spoiling /\ MembersDoNotCollide
      /\ RequestIsWhole
  BY DEF ChannelInv
<1> DEFINE t0 == [s0 EXCEPT !.begun = TRUE]
<1>1. air' = (air \ {s0}) \cup {t0} BY DEF Begin
<1>2. /\ DOMAIN t0 = Fields /\ Descends(t0, s0) /\ t0.late = s0.late
      /\ t0.spoiled = s0.spoiled /\ t0.begun
  BY <1>0, BegunKeeps DEF AirOK
<1> HIDE DEF t0
<1>3. \/ \E m \in Torn : RxHead(m) /\ UNCHANGED count /\ s0.from # "server"
      \/ UNCHANGED serverVars /\ s0.from = "server"
  BY DEF Begin
<1>4. SameTable /\ SameClock /\ heard' = heard /\ [ServerNext]_vars
  <2>1. ASSUME NEW m \in Torn, RxHead(m), UNCHANGED count
        PROVE  SameTable /\ SameClock /\ heard' = heard /\ [ServerNext]_vars
    <3>1. m \in Macs BY DEF Torn
    <3>2. ServerNext BY <2>1, <3>1 DEF ServerNext, Receive
    <3>3. QED BY <2>1, <3>2 DEF RxHead, RxUnchanged, tableVars, fsmVars, envVars, SameTable,
                                SameClock
  <2>2. CASE UNCHANGED serverVars BY <2>2, ServerUntouched
  <2>3. QED BY <1>3, <2>1, <2>2
<1>5. /\ \A m : IdsOf(m)' = IdsOf(m)
      /\ MemberIds' = MemberIds /\ MembersAreClients' /\ OwnRows' = OwnRows
      /\ \A p : Phase(p)' <=> Phase(p)
  BY <1>4, TableUntouched, PhaseUntouched DEF ChannelInv
<1>6. fsm' = fsm /\ timer' = timer /\ count' = count /\ requester' = requester
      /\ tableValues' = tableValues
  BY <1>4 DEF SameTable, SameClock
<1>7. \A t \in air' : \E s \in air : /\ Descends(t, s) /\ t.late = s.late /\ t.spoiled = s.spoiled
                                     /\ DOMAIN t = Fields
                                     /\ t = s \/ (s = s0 /\ t = t0)
  BY <1>0, <1>1, <1>2 DEF Descends, AirOK
<1>8. AirOK' BY <1>0, <1>7 DEF AirOK, FrameOK, Descends
<1>9. ServerFrames'
  <2> SUFFICES ASSUME NEW t \in air', t.from = "server"
               PROVE  /\ air' = {t} /\ ~t.late /\ count' = timer'
                      /\ t.frame.kind = "SYNC" => fsm' = "MSG_READ" /\ MemberIds' \subseteq heard'
                      /\ t.frame.kind = "JOINRESP" =>
                           /\ fsm' = "SYNC"
                           /\ t.frame.mac \in {MacA, MacB} /\ t.frame.id \in IdsOf(t.frame.mac)'
                      /\ t.frame.kind = "CONTRL" => fsm' \in {"SYNC", "STATUSMSG"}
    BY DEF ServerFrames
  <2>1. PICK s \in air : Descends(t, s) /\ t.late = s.late BY <1>7
  <2>2. /\ air = {s} /\ ~s.late /\ count = timer
        /\ s.frame.kind = "SYNC" => fsm = "MSG_READ" /\ MemberIds \subseteq heard
        /\ s.frame.kind = "JOINRESP" =>
             /\ fsm = "SYNC"
             /\ s.frame.mac \in {MacA, MacB} /\ s.frame.id \in IdsOf(s.frame.mac)
        /\ s.frame.kind = "CONTRL" => fsm \in {"SYNC", "STATUSMSG"}
    BY <1>0, <2>1 DEF ServerFrames, Descends
  <2>3. air' = {t0} /\ t = t0 BY <1>1, <2>2
  <2>4. QED BY <1>4, <1>5, <1>6, <2>1, <2>2, <2>3 DEF Descends
<1>10. ClientFrames'
  <2> SUFFICES ASSUME NEW t \in air', t.from # "server" PROVE ClientFrame(t)' BY DEF ClientFrames
  <2>1. PICK s \in air : Descends(t, s) /\ t.late = s.late BY <1>7
  <2>2. ClientFrame(s) BY <1>0, <2>1 DEF ClientFrames, Descends
  <2>3. QED BY <1>4, <1>5, <1>6, <2>1, <2>2 DEF ClientFrame, Descends
<1>11. Spoiling'
  <2> SUFFICES ASSUME NEW t \in air', ~t.spoiled PROVE air' = {t} BY DEF Spoiling
  <2>1. PICK s \in air : t.spoiled = s.spoiled BY <1>7
  <2>2. air = {s} BY <1>0, <2>1 DEF Spoiling
  <2>3. QED BY <1>1, <2>2
<1>12. MembersDoNotCollide' BY <1>0, <1>7 DEF MembersDoNotCollide, Descends
<1>13. RequestIsWhole'
  <2>1. CASE s0.from # "server"
    <3>1. t0 \in air' /\ t0.begun /\ t0.from # "server" BY <1>1, <1>2, <2>1 DEF Descends
    <3>2. readMsg'.valid => readMsg.valid /\ readMsg'.slots = readMsg.slots
      BY <1>3, <2>1, BeginKeepsRequest
    <3>3. QED BY <1>0, <3>1, <3>2 DEF RequestIsWhole
  <2>2. CASE s0.from = "server"
    <3>1. readMsg' = readMsg BY <1>3, <2>2, ServerUntouched
    <3>2. air = {s0} BY <1>0, <2>2 DEF ServerFrames
    <3>3. QED BY <1>0, <2>2, <3>1, <3>2 DEF RequestIsWhole
  <2>3. QED BY <2>1, <2>2
<1>14. AnswerPending' BY <1>5, <1>6 DEF ChannelInv, AnswerPending
<1>15. QED BY <1>4, <1>5, <1>7, <1>8, <1>9, <1>10, <1>11, <1>12, <1>13, <1>14 DEF ChannelInv

(* The receive interrupt touches neither the table nor the clock. *)
LEMMA SameUnlessReceived ==
  ASSUME RxUnchanged, UNCHANGED count PROVE SameTable /\ SameClock
BY DEF RxUnchanged, SameTable, SameClock, tableVars, fsmVars

(* A frame of a client reaches the server. *)
LEMMA ServerHearsClient ==
  ASSUME AirOK, ClientFrames, NEW s \in air, s.from # "server", ServerHears(s)
  PROVE  /\ ServerNext /\ SameTable /\ SameClock
         /\ readMsg'.valid => readMsg'.slots = 1 /\ readMsg'.mac \in {MacA, MacB}
         /\ \/ heard' = heard
            \/ ~s.spoiled /\ s.frame.kind = "STATUS" /\ heard' = heard \ {s.frame.src}
<1>0. /\ s.from \in Two /\ FrameOK(s) /\ ClientFrame(s) /\ UNCHANGED count
      /\ RxUnchanged => SameTable /\ SameClock
  BY SameUnlessReceived DEF AirOK, FrameOK, ClientFrames, ServerHears
<1>1. ASSUME NEW m \in Torn, RxOther(m)
      PROVE  ServerNext /\ ~readMsg'.valid /\ heard' = heard /\ RxUnchanged
  <2>1. m \in Macs BY DEF Torn
  <2>2. ServerNext BY <1>1, <2>1 DEF ServerNext, Receive
  <2>3. readMsg' = [readMsg EXCEPT !.mac = m, !.valid = FALSE] /\ heard' = heard /\ RxUnchanged
    BY <1>1 DEF RxOther, envVars
  <2>4. QED BY <2>2, <2>3
<1>2. CASE ~s.spoiled /\ s.frame.kind = "JOINREQ"
           /\ RxJoinReq(IF s.from = "A" THEN MacA ELSE MacB, 1, s.frame.net = OwnNet)
  <2> DEFINE m == IF s.from = "A" THEN MacA ELSE MacB
  <2>1. m \in Devices /\ m \in {MacA, MacB} /\ 1 \in Requests BY ClientsAssumption
  <2> HIDE DEF m
  <2>2. RxJoinReq(m, 1, s.frame.net = OwnNet) BY <1>2 DEF m
  <2>3. ServerNext BY <2>1, <2>2 DEF ServerNext, Receive
  <2>4. readMsg' = [mac |-> m, slots |-> 1, valid |-> s.frame.net = OwnNet] /\ heard' = heard
        /\ RxUnchanged
    BY <2>2 DEF RxJoinReq, envVars
  <2>5. QED BY <1>0, <2>1, <2>3, <2>4
<1>3. CASE /\ ~s.spoiled /\ s.frame.kind = "STATUS" /\ queuePos < QueueLimit
           /\ Store(StatusOf(s))
           /\ heard' = heard \ {s.frame.src} /\ UNCHANGED foreignLeft
  <2> DEFINE d == IF s.from = "A" THEN DestA ELSE DestB
             b == s.frame.msg.text
             c == s.frame.src
  <2>1. c \in heard /\ d \in Targets /\ b \in Bodies /\ s.own = TRUE
    BY <1>0, <1>3, ClientsAssumption DEF ClientFrame, FrameOK
  <2>2. StatusOf(s) = [src |-> c, dst |-> d, own |-> TRUE, body |-> b] BY <2>1 DEF StatusOf
  <2> HIDE DEF c, d, b
  <2>3. RxStatus(c, d, b) BY <1>3, <2>1, <2>2 DEF RxStatus, c
  <2>4. ServerNext BY <2>1, <2>3 DEF ServerNext, Receive
  <2>5. readMsg' = Blank /\ RxUnchanged BY <1>3 DEF Store
  <2>6. ~Blank.valid BY DEF Blank
  <2>7. QED BY <1>0, <1>3, <2>4, <2>5, <2>6
<1>4. CASE \E m \in Torn : RxOther(m) BY <1>0, <1>1, <1>4
<1>5. QED BY <1>2, <1>3, <1>4 DEF ServerHears

(* A frame arrives: what a device misses as a whole never began. *)
LEMMA ArriveChannel ==
  ASSUME ChannelInv, NEW s0 \in air, NEW deaf, s0.from \in deaf, ArriveBut(s0, deaf),
         "server" \in deaf => s0.from = "server" \/ ~s0.begun,
         IdsOf(MacA) \cap IdsOf(MacB) = {}
  PROVE  /\ ChannelInv' /\ SameTable /\ SameClock /\ [ServerNext]_vars
         /\ air' = air \ {s0}
         /\ \/ heard' = heard
            \/ /\ s0.from \in Two /\ ~s0.spoiled /\ s0.frame.kind = "STATUS"
               /\ s0.frame.src \in IdsOf(MacOf(s0.from))
               /\ heard' = heard \ {s0.frame.src}
<1>0. /\ AirOK /\ ServerFrames /\ ClientFrames /\ Spoiling /\ MembersDoNotCollide
      /\ RequestIsWhole /\ air' = air \ {s0}
  BY DEF ChannelInv, ArriveBut
<1>1. \/ s0.from # "server" /\ ServerHears(s0)
      \/ UNCHANGED serverVars /\ (s0.from = "server" \/ ~s0.begun)
  BY DEF ArriveBut
<1>2. /\ SameTable /\ SameClock /\ [ServerNext]_vars
      /\ \/ heard' = heard
         \/ /\ s0.from # "server" /\ ~s0.spoiled /\ s0.frame.kind = "STATUS"
            /\ heard' = heard \ {s0.frame.src}
  BY <1>0, <1>1, ServerHearsClient, ServerUntouched
<1>3. s0.from # "server" /\ s0.frame.kind = "STATUS" => /\ s0.from \in Two
                                                        /\ s0.frame.src \in IdsOf(MacOf(s0.from))
  BY <1>0 DEF AirOK, FrameOK, ClientFrames, ClientFrame
<1>4. /\ \A m : IdsOf(m)' = IdsOf(m)
      /\ MemberIds' = MemberIds /\ MembersAreClients' /\ OwnRows' = OwnRows
      /\ \A p : Phase(p)' <=> Phase(p)
  BY <1>2, TableUntouched, PhaseUntouched DEF ChannelInv
<1>5. fsm' = fsm /\ timer' = timer /\ count' = count /\ requester' = requester
      /\ tableValues' = tableValues
  BY <1>2 DEF SameTable, SameClock
<1>6. AirOK' /\ MembersDoNotCollide' BY <1>0 DEF AirOK, FrameOK, MembersDoNotCollide
<1>7. ServerFrames'
  <2>1. \A t \in air' : t.from # "server" BY <1>0 DEF ServerFrames
  <2>2. QED BY <2>1 DEF ServerFrames
<1>8. ClientFrames'
  <2> SUFFICES ASSUME NEW t \in air', t.from # "server" PROVE ClientFrame(t)' BY DEF ClientFrames
  <2>1. t \in air /\ t # s0 /\ ClientFrame(t) BY <1>0 DEF ClientFrames
  <2>2. t.spoiled BY <1>0, <2>1 DEF Spoiling
  <2>3. QED BY <1>4, <1>5, <2>1, <2>2 DEF ClientFrame
<1>9. Spoiling'
  <2> SUFFICES ASSUME NEW t \in air', ~t.spoiled PROVE air' = {t} BY DEF Spoiling
  <2>1. QED BY <1>0 DEF Spoiling
<1>10. RequestIsWhole'
  <2>1. CASE s0.from # "server" /\ ServerHears(s0)
    BY <1>0, <2>1, ServerHearsClient DEF RequestIsWhole
  <2>2. CASE UNCHANGED serverVars /\ (s0.from = "server" \/ ~s0.begun)
    BY <1>0, <2>2, ServerUntouched DEF RequestIsWhole
  <2>3. QED BY <1>1, <2>1, <2>2
<1>11. AnswerPending' BY <1>4, <1>5 DEF ChannelInv, AnswerPending
<1>12. QED BY <1>0, <1>2, <1>3, <1>4, <1>6, <1>7, <1>8, <1>9, <1>10, <1>11 DEF ChannelInv

-----------------------------------------------------------------------------
(* The server's timer expires: the channel.                                 *)

(* A running server waits for more than two slots. *)
LEMMA RaisedLong == ASSUME ServerInv PROVE RaisedSlots \in Nat /\ RaisedSlots >= 3
<1>1. StartingSlots \in Nat /\ StartingSlots >= 3
  BY ClientsAssumption, SizesAssumption DEF BroadcastSlot
<1>2. totalSlots \in Nat BY SizesAssumption DEF ServerInv, ServerTypeOK, TypeOK, Octet
<1>3. QED BY <1>1, <1>2 DEF RaisedSlots

(* So does its timer, once it has been set. *)
LEMMA TimerLong ==
  ASSUME ServerInv, ServerMode = "LOCAL", fsm # "START" PROVE timer \in Nat /\ timer >= 3
<1>1. timer \in {RaisedSlots, 3} BY DEF ServerInv, TimerFollowsState, BroadcastSlot
<1>2. QED BY <1>1, RaisedLong

(* When it expires, no frame of the server is in the air, and none of a     *)
(* client but after the slots of all clients.                               *)
LEMMA AirWhenServerExpires ==
  ASSUME ServerInv, ServerMode = "LOCAL", ChannelInv, count = 0
  PROVE  NoServerFrame /\ (fsm # "MSG_READ" => air = {})
<1>1. ASSUME NEW s \in air, s.from = "server" PROVE FALSE
  <2>1. count = timer /\ fsm # "START"
    BY <1>1 DEF ChannelInv, AirOK, FrameOK, ServerFrames, Two
  <2>2. QED BY <2>1, TimerLong
<1>2. ASSUME NEW s \in air, s.from # "server", fsm # "MSG_READ" PROVE FALSE
  <2>1. fsm \in SA!After /\ count >= timer - 1 BY <1>2 DEF ChannelInv, ClientFrames, ClientFrame
  <2>2. QED BY <2>1, TimerLong DEF SA!After
<1>3. QED BY <1>1, <1>2 DEF NoServerFrame

(* The frame f that the server sends belongs to the state it leaves. *)
ServerSays(f) ==
  /\ f.kind \in {"SYNC", "JOINRESP", "CONTRL"}
  /\ f.kind = "SYNC" => fsm' = "MSG_READ" /\ MemberIds' \subseteq heard'
  /\ f.kind = "JOINRESP" => /\ fsm' = "SYNC"
                            /\ f.mac \in {MacA, MacB} /\ f.id \in IdsOf(f.mac)'
  /\ f.kind = "CONTRL" => fsm' \in {"SYNC", "STATUSMSG"}

(* It is sent into an empty air. *)
LEMMA ServerSends ==
  ASSUME air = {}, NEW f, Transmit("server", f, OwnNet), count' = timer',
         f.kind = "none" \/ ServerSays(f)
  PROVE  AirOK' /\ ServerFrames' /\ ClientFrames' /\ Spoiling' /\ MembersDoNotCollide'
<1>1. CASE f.kind = "none"
  <2>1. air' = {} BY <1>1 DEF Transmit
  <2>2. QED BY <2>1 DEF AirOK, ServerFrames, ClientFrames, Spoiling, MembersDoNotCollide
<1>2. CASE ServerSays(f)
  <2> DEFINE s == Signal("server", f, OwnNet)
  <2>1. /\ DOMAIN s = Fields /\ s.from = "server" /\ s.frame = f /\ s.own = (OwnNet = OwnNet)
        /\ ~s.spoiled /\ ~s.late /\ ~s.begun
    BY NewSignal
  <2>2. f.kind # "none" BY <1>2 DEF ServerSays
  <2>3. air' = {s} BY <2>2 DEF Transmit
  <2> HIDE DEF s
  <2>4. AirOK' BY <1>2, <2>1, <2>3 DEF AirOK, FrameOK, ServerSays
  <2>5. ServerFrames' BY <1>2, <2>1, <2>3 DEF ServerFrames, ServerSays
  <2>6. ClientFrames' BY <2>1, <2>3 DEF ClientFrames
  <2>7. Spoiling' /\ MembersDoNotCollide' BY <2>3 DEF Spoiling, MembersDoNotCollide
  <2>8. QED BY <2>4, <2>5, <2>6, <2>7
<1>3. QED BY <1>1, <1>2

(* The two clients have room in the table. *)
LEMMA ClientsHaveRoom ==
  ASSUME Calm
  PROVE  Roomy({MacA, MacB}) /\ {MacA, MacB} \subseteq Macs /\ 1 \in Requests /\ 1 <= MaxSlots
<1>1. /\ {MacA, MacB} \subseteq Macs /\ MacA # MacB /\ 1 \in Requests /\ 1 <= MaxSlots
  BY ClientsAssumption, DevicesAssumption, SizesAssumption
<1>2. IsFiniteSet({MacA, MacB}) /\ Cardinality({MacA, MacB}) = 2
  <2>1. IsFiniteSet({MacA}) /\ Cardinality({MacA}) = 1 BY FS_Singleton
  <2>2. /\ IsFiniteSet({MacA} \cup {MacB})
        /\ Cardinality({MacA} \cup {MacB}) = Cardinality({MacA}) + 1
    BY <1>1, <2>1, FS_AddElement
  <2>3. {MacA} \cup {MacB} = {MacA, MacB} OBVIOUS
  <2>4. QED BY <2>1, <2>2, <2>3
<1>3. QED BY <1>1, <1>2, SizesAssumption DEF Calm, Roomy

(* Rows are kept, so a client's ids are kept. *)
LEMMA IdsGrow ==
  ASSUME NEW g \in 1 .. (Width - 1), TableInv(g), TableInv(g)', [Next]_tableVars, NEW m
  PROVE  IdsOf(m) \subseteq IdsOf(m)'
<1>1. \A i \in Registered : table'[i] = table[i] BY RowsAreKept
<1>2. QED BY <1>1 DEF IdsOf, Registered

(* What the server's timer interrupt does to the clock. *)
Advances ==
  \/ /\ fsm = "MSG_READ" /\ fsm' \in SA!After /\ timer' = timer /\ timer > 1
     /\ NoServerFrame /\ air' = air /\ heard' = heard
  \/ fsm = "START" /\ fsm' = "SYNC" /\ count' > 1 /\ air = {} /\ air' = {}
  \/ fsm \notin {"MSG_READ", "START"} /\ timer > 1

(* Every state of the server keeps the channel in order. *)
LEMMA ServerExpiresChannel ==
  ASSUME Calm, NEW g \in 1 .. (Width - 1), TableInv(g), TableInv(g)', FreeRowsBlank,
         ServerInv, ServerInv', ChannelInv, ServerExpires
  PROVE  ChannelInv' /\ Advances
<1>0. /\ AirOK /\ ServerFrames /\ ClientFrames /\ Spoiling /\ MembersDoNotCollide
      /\ RequestIsWhole /\ MembersAreClients /\ AnswerPending
  BY DEF ChannelInv
<1>1. count = 0 /\ Tick /\ count' = timer' /\ Transmit("server", sent', OwnNet)
  BY DEF ServerExpires
<1>2. /\ ServerMode = "LOCAL" /\ flag \in Flags /\ NoServerFrame
      /\ fsm # "START" => timer \in Nat /\ timer >= 3
      /\ RaisedSlots >= 3
  BY <1>1, AirWhenServerExpires, TimerLong, RaisedLong DEF Calm, ServerInv, ServerTypeOK
<1>3. ASSUME table' = table
      PROVE  /\ \A m : IdsOf(m)' = IdsOf(m)
             /\ MemberIds' = MemberIds /\ Registered' = Registered /\ MembersAreClients'
  BY <1>0, <1>3 DEF IdsOf, MemberIds, Registered, MembersAreClients
<1>4. CASE MsgRead
  <2>1. /\ fsm = "MSG_READ" /\ fsm' \in SA!After /\ sent' = NoFrame
        /\ UNCHANGED <<timer, readMsg, heard, table>>
    BY <1>2, <1>4 DEF MsgRead, At, Send, Refresh, envVars, Flags, SA!After
  <2>2. air' = air
    <3>1. sent'.kind = "none" BY <2>1 DEF NoFrame
    <3>2. QED BY <1>1, <3>1 DEF Transmit
  <2>3. AirOK' /\ Spoiling' /\ MembersDoNotCollide' /\ RequestIsWhole'
    BY <1>0, <2>1, <2>2 DEF AirOK, FrameOK, Spoiling, MembersDoNotCollide, RequestIsWhole
  <2>4. ServerFrames' BY <1>2, <2>2 DEF ServerFrames, NoServerFrame
  <2>5. ClientFrames'
    <3> SUFFICES ASSUME NEW t \in air, t.from # "server" PROVE ClientFrame(t)'
      BY <2>2 DEF ClientFrames
    <3>1. ClientFrame(t) BY <1>0 DEF ClientFrames
    <3>2. t.late BY <1>1, <2>1, <3>1 DEF ClientFrame, Phase, SA!After
    <3>3. QED BY <1>1, <1>2, <1>3, <2>1, <3>1, <3>2 DEF ClientFrame
  <2>6. AnswerPending' BY <2>1 DEF AnswerPending, SA!After
  <2>7. Advances BY <1>2, <2>1, <2>2 DEF Advances
  <2>8. QED BY <1>3, <2>1, <2>3, <2>4, <2>5, <2>6, <2>7 DEF ChannelInv
<1>5. ASSUME fsm # "MSG_READ", NEW f, f = sent', f.kind = "none" \/ ServerSays(f),
             readMsg' \in {readMsg, Blank}, MembersAreClients', AnswerPending'
      PROVE  ChannelInv'
  <2>1. air = {} BY <1>1, <1>2, <1>5, AirWhenServerExpires
  <2>2. AirOK' /\ ServerFrames' /\ ClientFrames' /\ Spoiling' /\ MembersDoNotCollide'
    <3>1. Transmit("server", f, OwnNet) BY <1>1, <1>5
    <3>2. QED BY <1>1, <1>5, <2>1, <3>1, ServerSends
  <2>3. RequestIsWhole'
    <3>1. readMsg.valid => readMsg.slots = 1 /\ readMsg.mac \in {MacA, MacB}
      BY <1>0, <2>1 DEF RequestIsWhole
    <3>2. ~Blank.valid BY DEF Blank
    <3>3. QED BY <1>5, <3>1, <3>2 DEF RequestIsWhole
  <2>4. QED BY <1>5, <2>2, <2>3 DEF ChannelInv
<1>6. NoFrame.kind = "none" /\ SyncFrame.kind = "SYNC" BY DEF NoFrame, SyncFrame
<1>7. CASE Start
  <2>1. /\ fsm = "START" /\ fsm' = "SYNC" /\ sent' = NoFrame /\ UNCHANGED <<readMsg, table>>
    BY <1>7 DEF Start, At, Send, Refresh
  <2>2. ChannelInv' BY <1>3, <1>5, <1>6, <2>1 DEF AnswerPending
  <2>3. air = {} /\ air' = {}
    <3>1. air = {} BY <1>1, <1>2, <2>1, AirWhenServerExpires
    <3>2. QED BY <1>1, <1>6, <2>1, <3>1 DEF Transmit
  <2>4. count' = RaisedSlots BY <1>1, <1>7 DEF Start, SetSyncSlot
  <2>5. Advances BY <1>2, <2>1, <2>3, <2>4, RaisedLong DEF Advances
  <2>6. QED BY <2>2, <2>5
<1>8. CASE Sync
  <2>1. /\ fsm = "SYNC" /\ fsm' = "MSG_READ" /\ sent' = SyncFrame /\ UNCHANGED <<readMsg, table>>
        /\ heard' = MemberIds
    BY <1>8 DEF Sync, At, Send, Refresh
  <2>2. ServerSays(SyncFrame) BY <1>3, <1>6, <2>1 DEF ServerSays
  <2>3. ChannelInv' BY <1>3, <1>5, <2>1, <2>2 DEF AnswerPending
  <2>4. QED BY <1>2, <2>1, <2>3 DEF Advances
<1>9. CASE JoinRequest
  <2>1. /\ fsm = "JOINREQ" /\ sent' = NoFrame /\ readMsg' = Blank
        /\ \/ /\ readMsg.valid /\ Update(readMsg.mac, readMsg.slots)
              /\ fsm' = "JOINRESP"
           \/ table' = table /\ fsm' = "SYNC"
    BY <1>9 DEF JoinRequest, At, Send, Refresh
  <2>2. MembersAreClients' /\ AnswerPending'
    <3>1. CASE table' = table /\ fsm' = "SYNC" BY <1>3, <3>1 DEF AnswerPending
    <3>2. CASE readMsg.valid /\ Update(readMsg.mac, readMsg.slots) /\ fsm' = "JOINRESP"
      <4>1. air = {} BY <1>1, <1>2, <2>1, AirWhenServerExpires
      <4>2. readMsg.slots = 1 /\ readMsg.mac \in {MacA, MacB}
        BY <1>0, <3>2, <4>1 DEF RequestIsWhole
      <4>3. /\ Roomy({MacA, MacB}) /\ {MacA, MacB} \subseteq Macs /\ 1 \in Requests
            /\ 1 <= MaxSlots
        BY ClientsHaveRoom
      <4>4. RowsOf({MacA, MacB}) BY <1>0 DEF MembersAreClients, RowsOf
      <4>5. RowsOf({MacA, MacB})' BY <3>2, <4>2, <4>3, <4>4, RowsOfUpdate
      <4>6. requester' \in {MacA, MacB} /\ tableValues'.index \in OwnRows'
        BY <3>2, <4>2, <4>3, <4>4, CallerIsNamed
      <4>7. QED BY <4>5, <4>6 DEF MembersAreClients, RowsOf, AnswerPending
    <3>3. QED BY <2>1, <3>1, <3>2
  <2>3. ChannelInv' BY <1>5, <1>6, <2>1, <2>2
  <2>4. QED BY <1>2, <2>1, <2>3 DEF Advances
<1>10. CASE JoinResponse
  <2>1. fsm = "JOINRESP" /\ fsm' = "SYNC" /\ UNCHANGED <<readMsg, table>>
    BY <1>10 DEF JoinResponse, At, Refresh
  <2>2. requester \in {MacA, MacB} /\ tableValues.index \in OwnRows /\ requester \in Macs
        /\ Plain(requester)
    BY <1>0, <2>1, ClientsHaveRoom DEF AnswerPending, Calm
  <2>3. PICK f : f = sent' OBVIOUS
  <2>4. /\ f.kind = "JOINRESP" /\ f.mac = requester
        /\ \E i \in Registered : table[i].mac = f.mac /\ table[i].id = f.id
    BY <1>10, <2>2, <2>3, AnswerRow
  <2>5. f.id \in IdsOf(f.mac) BY <2>4 DEF IdsOf
  <2>6. ServerSays(f) BY <1>3, <2>1, <2>2, <2>4, <2>5 DEF ServerSays
  <2>7. ChannelInv' BY <1>3, <1>5, <2>1, <2>3, <2>6 DEF AnswerPending
  <2>8. QED BY <1>2, <2>1, <2>7 DEF Advances
<1>11. CASE StatusMsg
  <2>1. fsm = "STATUSMSG" /\ fsm' = "CONTROLMSG" /\ sent' = NoFrame /\ UNCHANGED <<readMsg, table>>
    BY <1>2, <1>11
    DEF StatusMsg, StatusLocal, StatusForward, StatusOffline, StatusDrop, TakeStatus, At, Send,
        Refresh
  <2>2. ChannelInv' BY <1>3, <1>5, <1>6, <2>1 DEF AnswerPending
  <2>3. QED BY <1>2, <2>1, <2>2 DEF Advances
<1>12. CASE ControlLocal \/ ControlGateway
  <2>1. /\ fsm = "CONTROLMSG" /\ fsm' \in {"SYNC", "STATUSMSG"}
        /\ sent' = Control(source, destination, payload) /\ UNCHANGED <<readMsg, table>>
    BY <1>2, <1>12 DEF ControlLocal, ControlGateway, ControlDone, AfterQueue, At, Send, Refresh
  <2>2. PICK f : f = sent' OBVIOUS
  <2>3. f.kind = "CONTRL" BY <2>1, <2>2 DEF Control
  <2>4. ServerSays(f) BY <2>1, <2>3 DEF ServerSays
  <2>5. ChannelInv' BY <1>3, <1>5, <2>1, <2>2, <2>4 DEF AnswerPending
  <2>6. QED BY <1>2, <2>1, <2>5 DEF Advances
<1>13. QED BY <1>1, <1>4, <1>7, <1>8, <1>9, <1>10, <1>11, <1>12 DEF Tick

-----------------------------------------------------------------------------
(* Client A.                                                                *)
(* Every step of a client of the network is one of the client that module   *)
(* StationProofs is about.                                                  *)
LEMMA BeginIsA == A!StationInit => SA!StationInit
BY Zenon DEF A!StationInit, SA!StationInit, A!Init, SA!Init, A!FirstTick, SA!FirstTick,
  A!NoNet, SA!NoNet, A!Unreadable, SA!Unreadable, A!NoFrame, SA!NoFrame

(* Its timer counts. *)
LEMMA PassIsA == A!Pass => SA!Pass
BY Zenon DEF A!Pass, SA!Pass, A!vars, SA!vars, A!mainVars, SA!mainVars

(* It hears a frame that it does not read. *)
LEMMA HearOtherIsA == A!HearOther => SA!HearOther
BY Zenon DEF A!HearOther, SA!HearOther, A!RxOther, SA!RxOther, A!RxUnchanged, SA!RxUnchanged,
  A!Unreadable, SA!Unreadable, A!mainVars, SA!mainVars

(* It hears a SYNC. *)
LEMMA HearSyncIsA == ASSUME NEW n, A!HearSync(n) PROVE SA!HearSync(n)
BY Zenon DEF A!HearSync, SA!HearSync, A!RxSync, SA!RxSync, A!SyncOf, SA!SyncOf,
  A!RxUnchanged, SA!RxUnchanged, A!mainVars, SA!mainVars

(* It hears an answer. *)
LEMMA HearReplyIsA == ASSUME NEW f, A!HearReply(f) PROVE SA!HearReply(f)
BY Zenon DEF A!HearReply, SA!HearReply, A!RxReply, SA!RxReply, A!RxUnchanged, SA!RxUnchanged,
  A!mainVars, SA!mainVars

(* Its button is pressed. *)
LEMMA PressIsA == A!Press => SA!Press
BY Zenon DEF A!Press, SA!Press, A!PressButton, SA!PressButton, A!mainVars, SA!mainVars

(* Its application hands over a message. *)
LEMMA PostIsA == ASSUME NEW b, A!Post(b) PROVE SA!Post(b)
BY Zenon DEF A!Post, SA!Post, A!mainVars, SA!mainVars

(* Its timer expires. *)
LEMMA ExpireIsA == A!Expire => SA!Expire
BY Zenon DEF A!Expire, SA!Expire, A!Timer, SA!Timer, A!DevInit, SA!DevInit, A!DevSync, SA!DevSync,
  A!DevJoinReq, SA!DevJoinReq, A!DevJoined, SA!DevJoined, A!Tick, SA!Tick, A!NoFrame, SA!NoFrame,
  A!SyncData, SA!SyncData, A!AccessSlot, SA!AccessSlot, A!NoNet, SA!NoNet, A!SetTimer, SA!SetTimer,
  A!Unreadable, SA!Unreadable, A!SendJoinReq, SA!SendJoinReq, A!ReadJoinResp, SA!ReadJoinResp,
  A!JoinReqIdle, SA!JoinReqIdle, A!OfferedIds, SA!OfferedIds, A!SendStatus, SA!SendStatus,
  A!ReadContrl, SA!ReadContrl, A!Taken, SA!Taken, A!JoinedIdle, SA!JoinedIdle,
  A!mainVars, SA!mainVars

(* What it means for client A that only others act. *)
LEMMA StirredA ==
  ASSUME SA!StationInv, A!HearOther \/ UNCHANGED aVars, SameClock, SameTable,
         air # {}, \A t \in air' : \E s \in air : Descends(t, s),
         fsmA = "JOINED" /\ flagA = "SYNC" => slotA \in heard'
  PROVE  SA!StationInv' /\ (CanA' <=> CanA)
<1>1. UNCHANGED <<fsmA, timerA, flagA, netIdA, slotTimeA, slotA, flagsA, appMsgA, countA, pressesA>>
  BY DEF A!HearOther, A!RxOther, A!RxUnchanged, aVars
<1>2. UNCHANGED SA!still /\ UNCHANGED SA!clock BY <1>1 DEF SA!still, SA!clock, SameClock
<1>3. SA!Carried BY DEF SA!Carried, Descends
<1>4. ~SA!Alone BY DEF SA!Alone
<1>5. IdsOf(MacA)' = IdsOf(MacA) BY TableUntouched
<1>6. SA!StationInv' BY <1>2, <1>3, <1>4, <1>5, Premises, SA!Undisturbed
<1>7. QED BY <1>1, <1>6 DEF CanA, MaySend

(* Nor does anything change for it when the channel rests. *)
LEMMA RestsA ==
  ASSUME SA!StationInv, UNCHANGED aVars, SameClock, SameTable, air' = air, heard' = heard,
         CanB' => CanB
  PROVE  SA!StationInv' /\ (CanA' <=> CanA)
<1>1. UNCHANGED <<fsmA, timerA, flagA, bufA, netIdA, slotTimeA, slotA, flagsA, appMsgA, countA, pressesA>>
  BY DEF aVars
<1>2. UNCHANGED SA!still /\ UNCHANGED SA!clock BY <1>1 DEF SA!still, SA!clock, SameClock
<1>3. CanA' <=> CanA BY <1>1 DEF CanA, MaySend
<1>4. SA!Carried BY DEF SA!Carried
<1>5. SA!Alone => SA!Alone' BY <1>3 DEF SA!Alone
<1>6. IdsOf(MacA)' = IdsOf(MacA) BY TableUntouched
<1>7. fsmA = "JOINED" /\ flagA = "SYNC" => slotA \in heard'
  BY DEF SA!StationInv, SA!MayAnswer
<1>8. SA!StationInv' BY <1>1, <1>2, <1>4, <1>5, <1>6, <1>7, Premises, SA!Undisturbed
<1>9. QED BY <1>3, <1>8

-----------------------------------------------------------------------------
(* Client B.                                                                *)
(* Every step of a client of the network is one of the client that module   *)
(* StationProofs is about.                                                  *)
LEMMA BeginIsB == B!StationInit => SB!StationInit
BY Zenon DEF B!StationInit, SB!StationInit, B!Init, SB!Init, B!FirstTick, SB!FirstTick,
  B!NoNet, SB!NoNet, B!Unreadable, SB!Unreadable, B!NoFrame, SB!NoFrame

(* Its timer counts. *)
LEMMA PassIsB == B!Pass => SB!Pass
BY Zenon DEF B!Pass, SB!Pass, B!vars, SB!vars, B!mainVars, SB!mainVars

(* It hears a frame that it does not read. *)
LEMMA HearOtherIsB == B!HearOther => SB!HearOther
BY Zenon DEF B!HearOther, SB!HearOther, B!RxOther, SB!RxOther, B!RxUnchanged, SB!RxUnchanged,
  B!Unreadable, SB!Unreadable, B!mainVars, SB!mainVars

(* It hears a SYNC. *)
LEMMA HearSyncIsB == ASSUME NEW n, B!HearSync(n) PROVE SB!HearSync(n)
BY Zenon DEF B!HearSync, SB!HearSync, B!RxSync, SB!RxSync, B!SyncOf, SB!SyncOf,
  B!RxUnchanged, SB!RxUnchanged, B!mainVars, SB!mainVars

(* It hears an answer. *)
LEMMA HearReplyIsB == ASSUME NEW f, B!HearReply(f) PROVE SB!HearReply(f)
BY Zenon DEF B!HearReply, SB!HearReply, B!RxReply, SB!RxReply, B!RxUnchanged, SB!RxUnchanged,
  B!mainVars, SB!mainVars

(* Its button is pressed. *)
LEMMA PressIsB == B!Press => SB!Press
BY Zenon DEF B!Press, SB!Press, B!PressButton, SB!PressButton, B!mainVars, SB!mainVars

(* Its application hands over a message. *)
LEMMA PostIsB == ASSUME NEW b, B!Post(b) PROVE SB!Post(b)
BY Zenon DEF B!Post, SB!Post, B!mainVars, SB!mainVars

(* Its timer expires. *)
LEMMA ExpireIsB == B!Expire => SB!Expire
BY Zenon DEF B!Expire, SB!Expire, B!Timer, SB!Timer, B!DevInit, SB!DevInit, B!DevSync, SB!DevSync,
  B!DevJoinReq, SB!DevJoinReq, B!DevJoined, SB!DevJoined, B!Tick, SB!Tick, B!NoFrame, SB!NoFrame,
  B!SyncData, SB!SyncData, B!AccessSlot, SB!AccessSlot, B!NoNet, SB!NoNet, B!SetTimer, SB!SetTimer,
  B!Unreadable, SB!Unreadable, B!SendJoinReq, SB!SendJoinReq, B!ReadJoinResp, SB!ReadJoinResp,
  B!JoinReqIdle, SB!JoinReqIdle, B!OfferedIds, SB!OfferedIds, B!SendStatus, SB!SendStatus,
  B!ReadContrl, SB!ReadContrl, B!Taken, SB!Taken, B!JoinedIdle, SB!JoinedIdle,
  B!mainVars, SB!mainVars

(* What it means for client B that only others act. *)
LEMMA StirredB ==
  ASSUME SB!StationInv, B!HearOther \/ UNCHANGED bVars, SameClock, SameTable,
         air # {}, \A t \in air' : \E s \in air : Descends(t, s),
         fsmB = "JOINED" /\ flagB = "SYNC" => slotB \in heard'
  PROVE  SB!StationInv' /\ (CanB' <=> CanB)
<1>1. UNCHANGED <<fsmB, timerB, flagB, netIdB, slotTimeB, slotB, flagsB, appMsgB, countB, pressesB>>
  BY DEF B!HearOther, B!RxOther, B!RxUnchanged, bVars
<1>2. UNCHANGED SB!still /\ UNCHANGED SB!clock BY <1>1 DEF SB!still, SB!clock, SameClock
<1>3. SB!Carried BY DEF SB!Carried, Descends
<1>4. ~SB!Alone BY DEF SB!Alone
<1>5. IdsOf(MacB)' = IdsOf(MacB) BY TableUntouched
<1>6. SB!StationInv' BY <1>2, <1>3, <1>4, <1>5, Premises, SB!Undisturbed
<1>7. QED BY <1>1, <1>6 DEF CanB, MaySend

(* Nor does anything change for it when the channel rests. *)
LEMMA RestsB ==
  ASSUME SB!StationInv, UNCHANGED bVars, SameClock, SameTable, air' = air, heard' = heard,
         CanA' => CanA
  PROVE  SB!StationInv' /\ (CanB' <=> CanB)
<1>1. UNCHANGED <<fsmB, timerB, flagB, bufB, netIdB, slotTimeB, slotB, flagsB, appMsgB, countB, pressesB>>
  BY DEF bVars
<1>2. UNCHANGED SB!still /\ UNCHANGED SB!clock BY <1>1 DEF SB!still, SB!clock, SameClock
<1>3. CanB' <=> CanB BY <1>1 DEF CanB, MaySend
<1>4. SB!Carried BY DEF SB!Carried
<1>5. SB!Alone => SB!Alone' BY <1>3 DEF SB!Alone
<1>6. IdsOf(MacB)' = IdsOf(MacB) BY TableUntouched
<1>7. fsmB = "JOINED" /\ flagB = "SYNC" => slotB \in heard'
  BY DEF SB!StationInv, SB!MayAnswer
<1>8. SB!StationInv' BY <1>1, <1>2, <1>4, <1>5, <1>6, <1>7, Premises, SB!Undisturbed
<1>9. QED BY <1>3, <1>8

-----------------------------------------------------------------------------
(* The steps of the network, as client A sees them.                         *)
(* A client that may send when its timer expires is in its own slot.        *)
LEMMA InSlotA ==
  ASSUME SA!StationInv, ServerFrames, timer \in Nat, count \in Nat, count > 0, countA = 0, CanA
  PROVE  /\ NoServerFrame /\ Phase(timerA) /\ ~(fsm = "MSG_READ" /\ count >= timer - 1)
         /\ fsmA = "JOINREQ" => timerA = 2
         /\ fsmA = "JOINED" => /\ timerA = slotA /\ slotA \in IdsOf(MacA) /\ slotA \in heard
                               /\ netIdA = OwnNet
<1>1. SA!InPhase
  BY DEF SA!StationInv, SA!SendsInPhase, CanA, MaySend, SA!CanSend
<1>2. /\ fsmA = "JOINREQ" => timerA = 2
      /\ fsmA = "JOINED" => slotA \in ClientIds /\ timerA = slotA /\ netIdA \in {OwnNet}
  BY DEF SA!StationInv, SA!StationOK, SA!AccessSlot
<1>3. timerA \in Nat /\ timerA >= 2 BY <1>2, ClientIdsAreHigh DEF CanA, MaySend
<1>4. fsmA = "JOINED" => slotA \in IdsOf(MacA) /\ slotA \in heard
  BY DEF SA!StationInv, SA!IsMember, SA!MayAnswer, CanA, MaySend
<1>5. NoServerFrame /\ Phase(timerA) /\ ~(fsm = "MSG_READ" /\ count >= timer - 1)
  <2>1. CASE fsm = "MSG_READ" /\ count = countA + (timer - timerA)
    <3>1. \A s \in air : s.from = "server" => count = timer BY DEF ServerFrames
    <3>2. QED BY <1>3, <2>1, <3>1 DEF NoServerFrame, Phase
  <2>2. CASE /\ fsm \in SA!After /\ count = timer /\ timerA = timer
             /\ \A s \in air : s.from # "server"
    BY <1>3, <2>2 DEF NoServerFrame, Phase, SA!After, SB!After
  <2>3. QED BY <1>1, <2>1, <2>2 DEF SA!InPhase
<1>6. QED BY <1>2, <1>4, <1>5

(* Client A's timer expires. *)
LEMMA ExpiresA ==
  ASSUME SA!StationInv, ServerFrames, timer \in Nat, count \in Nat, IdsOf(MacA) \subseteq ClientIds,
         AExpires
  PROVE  /\ SA!StationInv' /\ ~CanA'
         /\ \E f : /\ f = sentA'
                   /\ f.kind = "none" \/ Sendable("A", f, netIdA)
                   /\ f.kind # "none" => CanA /\ ~(fsm = "MSG_READ" /\ count >= timer - 1)
<1>1. SA!Expire /\ count > 0 /\ UNCHANGED serverVars
  BY ExpireIsA DEF AExpires, ClientsMayExpire
<1>2. IdsOf(MacA)' = IdsOf(MacA) BY <1>1, ServerUntouched, TableUntouched
<1>3. SA!StationInv' /\ SA!Says(sentA') /\ ~SA!CanSend' /\ countA = 0
  BY <1>1, <1>2, Premises, SA!Expires
<1>4. PICK f : f = sentA' OBVIOUS
<1>5. SA!Says(f) BY <1>3, <1>4
<1>6. CanA <=> SA!CanSend BY DEF CanA, MaySend, SA!CanSend
<1>7. CanA =>
        /\ NoServerFrame /\ Phase(timerA) /\ ~(fsm = "MSG_READ" /\ count >= timer - 1)
        /\ fsmA = "JOINREQ" => timerA = 2
        /\ fsmA = "JOINED" => /\ timerA = slotA /\ slotA \in IdsOf(MacA) /\ slotA \in heard
                              /\ netIdA = OwnNet
  BY <1>1, <1>3, InSlotA
<1>8. CASE f = SA!NoFrame
  <2>1. f.kind = "none" BY <1>8 DEF SA!NoFrame
  <2>2. QED BY <1>3, <1>4, <2>1 DEF CanA, MaySend, SA!CanSend
<1>9. CASE CanA /\ fsmA = "JOINREQ" /\ f = [kind |-> "JOINREQ", net |-> netIdA]
  <2>1. f.kind = "JOINREQ" BY <1>9
  <2>2. SlotOf(f) = 2 BY <2>1 DEF SlotOf
  <2>3. Sendable("A", f, netIdA) BY <1>7, <1>9, <2>1, <2>2 DEF Sendable
  <2>4. QED BY <1>3, <1>4, <1>7, <1>9, <2>3 DEF CanA, MaySend, SA!CanSend
<1>10. CASE /\ CanA /\ fsmA = "JOINED" /\ f = [kind |-> "STATUS", src |-> slotA, msg |-> appMsgA]
            /\ appMsgA.text \in Bodies
  <2>1. f.kind = "STATUS" /\ f.src = slotA /\ f.msg = appMsgA BY <1>10
  <2>2. SlotOf(f) = slotA BY <2>1 DEF SlotOf
  <2>3. Sendable("A", f, netIdA) BY <1>7, <1>10, <2>1, <2>2 DEF Sendable, MacOf
  <2>4. QED BY <1>3, <1>4, <1>7, <1>10, <2>3 DEF CanA, MaySend, SA!CanSend
<1>11. QED BY <1>5, <1>6, <1>8, <1>9, <1>10 DEF SA!Says

(* What that means for client B: a SYNC that it has heard is read before    *)
(* anybody answers it.                                                      *)
LEMMA AExpiresLeavesB ==
  ASSUME SB!StationInv, AirOK, timer \in Nat, count \in Nat, AExpires, ~CanA',
         NEW f, f = sentA', f.kind = "none" \/ Sendable("A", f, netIdA),
         f.kind # "none" => CanA /\ ~(fsm = "MSG_READ" /\ count >= timer - 1)
  PROVE  SB!StationInv'
<1>1. UNCHANGED serverVars /\ UNCHANGED bVars /\ Transmit("A", f, netIdA) BY DEF AExpires
<1>2. /\ SameTable /\ SameClock /\ heard' = heard BY <1>1, ServerUntouched
<1>3. CASE f.kind = "none"
  <2>1. air' = air BY <1>1, <1>3 DEF Transmit
  <2>2. QED BY <1>1, <1>2, <2>1, RestsB
<1>4. CASE f.kind # "none"
  <2>1. CanA /\ ~(fsm = "MSG_READ" /\ count >= timer - 1) BY <1>4
  <2>2. UNCHANGED <<fsmB, timerB, flagB, bufB, netIdB, slotTimeB, slotB, flagsB, appMsgB, countB, pressesB>>
    BY <1>1 DEF bVars
  <2>3. UNCHANGED SB!still /\ UNCHANGED SB!clock
    BY <1>2, <2>2 DEF SB!still, SB!clock, SameClock
  <2>4. SB!Carried
    <3>1. \A t \in air' : \/ \E s \in air : Descends(t, s) /\ t.late = s.late
                          \/ t.from = "A"
      BY <1>1, <1>4, AirAfterSend DEF Two
    <3>2. QED BY <3>1 DEF SB!Carried, Descends
  <2>5. ~SB!Alone BY <2>1 DEF SB!Alone
  <2>6. IdsOf(MacB)' = IdsOf(MacB) BY <1>2, TableUntouched
  <2>7. ~(fsmB = "SYNC" /\ flagB = "SYNC")
    BY <2>1 DEF SB!StationInv, SB!StationOK, SB!SyncIsWhole, SB!FirstTick
  <2>8. fsmB = "JOINED" /\ flagB = "SYNC" => slotB \in heard'
    BY <1>2 DEF SB!StationInv, SB!MayAnswer
  <2>9. QED BY <2>2, <2>3, <2>4, <2>5, <2>6, <2>7, <2>8, Premises, SB!Undisturbed
<1>5. QED BY <1>3, <1>4

(* A slot passes. *)
LEMMA PassesA ==
  ASSUME SA!StationInv, AirOK, timer \in Nat, count \in Nat, SlotPasses
  PROVE  SA!StationInv'
<1>1. /\ SA!Pass /\ A!Pass /\ B!Pass /\ count > 0 /\ count' = count - 1 /\ UNCHANGED vars
      /\ air' = {[s EXCEPT !.late = TRUE] : s \in air}
  BY PassIsA DEF SlotPasses
<1>2. fsm' = fsm /\ timer' = timer /\ heard' = heard /\ SameTable
  BY <1>1 DEF vars, fsmVars, envVars, tableVars, SameTable
<1>3. IdsOf(MacA)' = IdsOf(MacA) BY <1>2, TableUntouched
<1>4. UNCHANGED <<fsmA, flagA, flagsA, fsmB, flagB, flagsB>>
  BY <1>1 DEF A!Pass, A!vars, B!Pass, B!vars
<1>5. (CanA \/ CanB)' = (CanA \/ CanB) BY <1>4 DEF CanA, CanB, MaySend
<1>6. SA!Carried
  <2>1. \A s \in air : Descends([s EXCEPT !.late = TRUE], s) BY LateKeeps DEF AirOK
  <2>2. QED BY <1>1, <2>1 DEF SA!Carried, Descends
<1>7. air = {} => air' = {} BY <1>1
<1>8. QED BY <1>1, <1>2, <1>3, <1>5, <1>6, <1>7, Premises, SA!SlotGoes

-----------------------------------------------------------------------------
(* And as client B does.                                                    *)
(* A client that may send when its timer expires is in its own slot.        *)
LEMMA InSlotB ==
  ASSUME SB!StationInv, ServerFrames, timer \in Nat, count \in Nat, count > 0, countB = 0, CanB
  PROVE  /\ NoServerFrame /\ Phase(timerB) /\ ~(fsm = "MSG_READ" /\ count >= timer - 1)
         /\ fsmB = "JOINREQ" => timerB = 2
         /\ fsmB = "JOINED" => /\ timerB = slotB /\ slotB \in IdsOf(MacB) /\ slotB \in heard
                               /\ netIdB = OwnNet
<1>1. SB!InPhase
  BY DEF SB!StationInv, SB!SendsInPhase, CanB, MaySend, SB!CanSend
<1>2. /\ fsmB = "JOINREQ" => timerB = 2
      /\ fsmB = "JOINED" => slotB \in ClientIds /\ timerB = slotB /\ netIdB \in {OwnNet}
  BY DEF SB!StationInv, SB!StationOK, SB!AccessSlot
<1>3. timerB \in Nat /\ timerB >= 2 BY <1>2, ClientIdsAreHigh DEF CanB, MaySend
<1>4. fsmB = "JOINED" => slotB \in IdsOf(MacB) /\ slotB \in heard
  BY DEF SB!StationInv, SB!IsMember, SB!MayAnswer, CanB, MaySend
<1>5. NoServerFrame /\ Phase(timerB) /\ ~(fsm = "MSG_READ" /\ count >= timer - 1)
  <2>1. CASE fsm = "MSG_READ" /\ count = countB + (timer - timerB)
    <3>1. \A s \in air : s.from = "server" => count = timer BY DEF ServerFrames
    <3>2. QED BY <1>3, <2>1, <3>1 DEF NoServerFrame, Phase
  <2>2. CASE /\ fsm \in SB!After /\ count = timer /\ timerB = timer
             /\ \A s \in air : s.from # "server"
    BY <1>3, <2>2 DEF NoServerFrame, Phase, SB!After, SA!After
  <2>3. QED BY <1>1, <2>1, <2>2 DEF SB!InPhase
<1>6. QED BY <1>2, <1>4, <1>5

(* Client B's timer expires. *)
LEMMA ExpiresB ==
  ASSUME SB!StationInv, ServerFrames, timer \in Nat, count \in Nat, IdsOf(MacB) \subseteq ClientIds,
         BExpires
  PROVE  /\ SB!StationInv' /\ ~CanB'
         /\ \E f : /\ f = sentB'
                   /\ f.kind = "none" \/ Sendable("B", f, netIdB)
                   /\ f.kind # "none" => CanB /\ ~(fsm = "MSG_READ" /\ count >= timer - 1)
<1>1. SB!Expire /\ count > 0 /\ UNCHANGED serverVars
  BY ExpireIsB DEF BExpires, ClientsMayExpire
<1>2. IdsOf(MacB)' = IdsOf(MacB) BY <1>1, ServerUntouched, TableUntouched
<1>3. SB!StationInv' /\ SB!Says(sentB') /\ ~SB!CanSend' /\ countB = 0
  BY <1>1, <1>2, Premises, SB!Expires
<1>4. PICK f : f = sentB' OBVIOUS
<1>5. SB!Says(f) BY <1>3, <1>4
<1>6. CanB <=> SB!CanSend BY DEF CanB, MaySend, SB!CanSend
<1>7. CanB =>
        /\ NoServerFrame /\ Phase(timerB) /\ ~(fsm = "MSG_READ" /\ count >= timer - 1)
        /\ fsmB = "JOINREQ" => timerB = 2
        /\ fsmB = "JOINED" => /\ timerB = slotB /\ slotB \in IdsOf(MacB) /\ slotB \in heard
                              /\ netIdB = OwnNet
  BY <1>1, <1>3, InSlotB
<1>8. CASE f = SB!NoFrame
  <2>1. f.kind = "none" BY <1>8 DEF SB!NoFrame
  <2>2. QED BY <1>3, <1>4, <2>1 DEF CanB, MaySend, SB!CanSend
<1>9. CASE CanB /\ fsmB = "JOINREQ" /\ f = [kind |-> "JOINREQ", net |-> netIdB]
  <2>1. f.kind = "JOINREQ" BY <1>9
  <2>2. SlotOf(f) = 2 BY <2>1 DEF SlotOf
  <2>3. Sendable("B", f, netIdB) BY <1>7, <1>9, <2>1, <2>2 DEF Sendable
  <2>4. QED BY <1>3, <1>4, <1>7, <1>9, <2>3 DEF CanB, MaySend, SB!CanSend
<1>10. CASE /\ CanB /\ fsmB = "JOINED" /\ f = [kind |-> "STATUS", src |-> slotB, msg |-> appMsgB]
            /\ appMsgB.text \in Bodies
  <2>1. f.kind = "STATUS" /\ f.src = slotB /\ f.msg = appMsgB BY <1>10
  <2>2. SlotOf(f) = slotB BY <2>1 DEF SlotOf
  <2>3. Sendable("B", f, netIdB) BY <1>7, <1>10, <2>1, <2>2 DEF Sendable, MacOf
  <2>4. QED BY <1>3, <1>4, <1>7, <1>10, <2>3 DEF CanB, MaySend, SB!CanSend
<1>11. QED BY <1>5, <1>6, <1>8, <1>9, <1>10 DEF SB!Says

(* What that means for client A: a SYNC that it has heard is read before    *)
(* anybody answers it.                                                      *)
LEMMA BExpiresLeavesA ==
  ASSUME SA!StationInv, AirOK, timer \in Nat, count \in Nat, BExpires, ~CanB',
         NEW f, f = sentB', f.kind = "none" \/ Sendable("B", f, netIdB),
         f.kind # "none" => CanB /\ ~(fsm = "MSG_READ" /\ count >= timer - 1)
  PROVE  SA!StationInv'
<1>1. UNCHANGED serverVars /\ UNCHANGED aVars /\ Transmit("B", f, netIdB) BY DEF BExpires
<1>2. /\ SameTable /\ SameClock /\ heard' = heard BY <1>1, ServerUntouched
<1>3. CASE f.kind = "none"
  <2>1. air' = air BY <1>1, <1>3 DEF Transmit
  <2>2. QED BY <1>1, <1>2, <2>1, RestsA
<1>4. CASE f.kind # "none"
  <2>1. CanB /\ ~(fsm = "MSG_READ" /\ count >= timer - 1) BY <1>4
  <2>2. UNCHANGED <<fsmA, timerA, flagA, bufA, netIdA, slotTimeA, slotA, flagsA, appMsgA, countA, pressesA>>
    BY <1>1 DEF aVars
  <2>3. UNCHANGED SA!still /\ UNCHANGED SA!clock
    BY <1>2, <2>2 DEF SA!still, SA!clock, SameClock
  <2>4. SA!Carried
    <3>1. \A t \in air' : \/ \E s \in air : Descends(t, s) /\ t.late = s.late
                          \/ t.from = "B"
      BY <1>1, <1>4, AirAfterSend DEF Two
    <3>2. QED BY <3>1 DEF SA!Carried, Descends
  <2>5. ~SA!Alone BY <2>1 DEF SA!Alone
  <2>6. IdsOf(MacA)' = IdsOf(MacA) BY <1>2, TableUntouched
  <2>7. ~(fsmA = "SYNC" /\ flagA = "SYNC")
    BY <2>1 DEF SA!StationInv, SA!StationOK, SA!SyncIsWhole, SA!FirstTick
  <2>8. fsmA = "JOINED" /\ flagA = "SYNC" => slotA \in heard'
    BY <1>2 DEF SA!StationInv, SA!MayAnswer
  <2>9. QED BY <2>2, <2>3, <2>4, <2>5, <2>6, <2>7, <2>8, Premises, SA!Undisturbed
<1>5. QED BY <1>3, <1>4

(* A slot passes. *)
LEMMA PassesB ==
  ASSUME SB!StationInv, AirOK, timer \in Nat, count \in Nat, SlotPasses
  PROVE  SB!StationInv'
<1>1. /\ SB!Pass /\ B!Pass /\ A!Pass /\ count > 0 /\ count' = count - 1 /\ UNCHANGED vars
      /\ air' = {[s EXCEPT !.late = TRUE] : s \in air}
  BY PassIsB DEF SlotPasses
<1>2. fsm' = fsm /\ timer' = timer /\ heard' = heard /\ SameTable
  BY <1>1 DEF vars, fsmVars, envVars, tableVars, SameTable
<1>3. IdsOf(MacB)' = IdsOf(MacB) BY <1>2, TableUntouched
<1>4. UNCHANGED <<fsmB, flagB, flagsB, fsmA, flagA, flagsA>>
  BY <1>1 DEF B!Pass, B!vars, A!Pass, A!vars
<1>5. (CanB \/ CanA)' = (CanB \/ CanA) BY <1>4 DEF CanB, CanA, MaySend
<1>6. SB!Carried
  <2>1. \A s \in air : Descends([s EXCEPT !.late = TRUE], s) BY LateKeeps DEF AirOK
  <2>2. QED BY <1>1, <2>1 DEF SB!Carried, Descends
<1>7. air = {} => air' = {} BY <1>1
<1>8. QED BY <1>1, <1>2, <1>3, <1>5, <1>6, <1>7, Premises, SB!SlotGoes

(* While an answer of the server is in the air, nobody is about to send.    *)
LEMMA SilentA ==
  ASSUME SA!StationInv, fsm # "MSG_READ", NEW s \in air, s.from = "server" PROVE ~CanA
BY DEF SA!StationInv, SA!SendsInPhase, SA!InPhase, CanA, MaySend, SA!CanSend
LEMMA SilentB ==
  ASSUME SB!StationInv, fsm # "MSG_READ", NEW s \in air, s.from = "server" PROVE ~CanB
BY DEF SB!StationInv, SB!SendsInPhase, SB!InPhase, CanB, MaySend, SB!CanSend

(* Others have spoken, and the server may have taken a STATUS: not one that *)
(* this client is still to send.                                            *)
LEMMA StaysHeardA ==
  ASSUME SA!StationInv, NEW s0 \in air, IdsOf(MacA) \cap IdsOf(MacB) = {},
         \/ heard' = heard
         \/ /\ s0.from \in Two /\ ~s0.spoiled /\ s0.frame.kind = "STATUS"
            /\ s0.frame.src \in IdsOf(MacOf(s0.from))
            /\ heard' = heard \ {s0.frame.src}
  PROVE  fsmA = "JOINED" /\ flagA = "SYNC" => slotA \in heard'
<1> SUFFICES ASSUME fsmA = "JOINED", flagA = "SYNC" PROVE slotA \in heard' OBVIOUS
<1>1. /\ slotA \in heard /\ slotA \in IdsOf(MacA)
      /\ s0.from = "A" /\ s0.frame.kind = "STATUS" => s0.spoiled
  BY DEF SA!StationInv, SA!MayAnswer, SA!IsMember
<1>2. CASE heard' = heard BY <1>1, <1>2
<1>3. CASE s0.from = "B" /\ s0.frame.src \in IdsOf(MacB) /\ heard' = heard \ {s0.frame.src}
  BY <1>1, <1>3
<1>4. QED BY <1>1, <1>2, <1>3 DEF Two, MacOf

(* A frame arrives at client A, or A misses it. *)
LEMMA ArrivesA ==
  ASSUME SA!StationInv, SB!StationInv, ServerFrames, AirOK, timer \in Nat,
         fsm # "START" => timer >= 3,
         IdsOf(MacA) \subseteq MemberIds, IdsOf(MacA) \cap IdsOf(MacB) = {},
         NEW s0 \in air, NEW deaf, ArriveBut(s0, deaf), SameTable, SameClock,
         \/ heard' = heard
         \/ /\ s0.from \in Two /\ ~s0.spoiled /\ s0.frame.kind = "STATUS"
            /\ s0.frame.src \in IdsOf(MacOf(s0.from))
            /\ heard' = heard \ {s0.frame.src}
  PROVE  SA!StationInv'
<1>0. air' = air \ {s0} /\ air # {} BY DEF ArriveBut
<1>1. \A t \in air' : \E s \in air : Descends(t, s) BY <1>0 DEF Descends
<1>2. fsmA = "JOINED" /\ flagA = "SYNC" => slotA \in heard' BY StaysHeardA
<1>3. CASE A!HearOther \/ UNCHANGED aVars BY <1>0, <1>1, <1>2, <1>3, StirredA
<1>4. CASE ~(A!HearOther \/ UNCHANGED aVars)
  <2>1. ~s0.spoiled /\ s0.from = "server" /\ AHears(s0) BY <1>4 DEF ArriveBut, AHears
  <2>2. /\ air' = {} /\ count = timer /\ s0.frame.kind \in {"SYNC", "JOINRESP", "CONTRL"}
        /\ s0.frame.kind = "SYNC" => fsm = "MSG_READ" /\ MemberIds \subseteq heard
        /\ s0.frame.kind = "JOINRESP" => fsm = "SYNC" /\ s0.frame.id \in IdsOf(s0.frame.mac)
        /\ s0.frame.kind = "CONTRL" => fsm \in {"SYNC", "STATUSMSG"}
    BY <1>0, <2>1 DEF ServerFrames, AirOK, FrameOK, Two
  <2>3. heard' = heard BY <2>1 DEF Two
  <2>4. IdsOf(MacA)' = IdsOf(MacA) /\ UNCHANGED SA!clock
    BY TableUntouched DEF SA!clock, SameClock
  <2>5. CASE s0.frame.kind = "SYNC"
    <3>1. SA!HearSync(OwnNet) BY <2>1, <2>5, HearSyncIsA DEF AHears
    <3>2. IdsOf(MacA) \subseteq heard BY <2>2, <2>5
    <3>3. QED BY <1>0, <2>2, <2>3, <2>4, <2>5, <3>1, <3>2, Premises, SA!HearsSync
  <2>6. CASE s0.frame.kind # "SYNC"
    <3> DEFINE f == Reply(s0.frame, MacA, slotA)
    <3>1. A!HearReply(f) BY <2>1, <2>6 DEF AHears
    <3>2. /\ f.kind = s0.frame.kind
          /\ f.kind = "JOINRESP" => (f.mine => f.id \in IdsOf(MacA))
      BY <2>2, <2>6 DEF Reply
    <3> HIDE DEF f
    <3>3. SA!HearReply(f) BY <3>1, HearReplyIsA
    <3>4. ~CanA' /\ flagA' # "SYNC"
      BY <2>2, <2>6, <3>1, <3>2 DEF A!HearReply, A!RxReply, CanA, MaySend
    <3>5. ~CanB'
      <4>1. ~CanB BY <2>1, <2>2, <2>6, SilentB
      <4>2. CASE UNCHANGED bVars BY <4>1, <4>2 DEF bVars, CanB, MaySend
      <4>3. CASE B!HearReply(Reply(s0.frame, MacB, slotB))
        <5>1. PICK r : r = Reply(s0.frame, MacB, slotB) OBVIOUS
        <5>2. r.kind # "SYNC" BY <5>1 DEF Reply
        <5>3. flagB' = r.kind BY <4>3, <5>1 DEF B!HearReply, B!RxReply
        <5>4. QED BY <5>2, <5>3 DEF CanB, MaySend
      <4>4. QED BY <2>1, <2>6, <4>2, <4>3 DEF ArriveBut, BHears
    <3>6. SA!Alone' BY <2>2, <3>4, <3>5 DEF SA!Alone
    <3>7. timer >= 3 /\ (f.kind = "JOINRESP" => fsm = "SYNC") BY <2>2, <2>6, <3>2
    <3>8. f.kind \in {"JOINRESP", "CONTRL"} BY <2>2, <2>6, <3>2
    <3>9. QED
      BY <1>0, <2>2, <2>4, <3>2, <3>3, <3>6, <3>7, <3>8, Premises, SA!HearsReply
  <2>7. QED BY <2>5, <2>6
<1>5. QED BY <1>3, <1>4

(* The first octets of a frame are in the air. *)
LEMMA BeginsA ==
  ASSUME SA!StationInv, NEW s0 \in air, Begin(s0), SameTable, SameClock, heard' = heard,
         \A t \in air' : \E s \in air : Descends(t, s)
  PROVE  SA!StationInv'
<1>1. A!HearOther \/ UNCHANGED aVars BY DEF Begin
<1>2. fsmA = "JOINED" /\ flagA = "SYNC" => slotA \in heard'
  BY DEF SA!StationInv, SA!MayAnswer
<1>3. air # {} OBVIOUS
<1>4. QED BY <1>1, <1>2, <1>3, StirredA

(* The server's timer expires: the slot of A has passed, or lies before the *)
(* server's next.                                                           *)
LEMMA ServerTicksA ==
  ASSUME SA!StationInv, ServerInv, ServerInv', IdsOf(MacA) \subseteq IdsOf(MacA)',
         \A i \in IdsOf(MacA) : i <= RaisedSlots, ServerMode = "LOCAL",
         count = 0, timer \in Nat, count' = timer', timer' \in Nat,
         UNCHANGED <<aVars, bVars>>, Advances
  PROVE  SA!StationInv'
<1>1. UNCHANGED SA!own BY DEF aVars, SA!own
<1>2. (CanA' <=> CanA) /\ (CanB' <=> CanB) BY DEF aVars, bVars, CanA, CanB, MaySend
<1>3. CASE /\ fsm = "MSG_READ" /\ fsm' \in SA!After /\ timer' = timer /\ timer > 1
           /\ NoServerFrame /\ air' = air /\ heard' = heard
  <2>1. timer = RaisedSlots /\ RaisedSlots >= 3
    BY <1>3, RaisedLong DEF ServerInv, TimerFollowsState
  <2>2. CanA => timerA <= timer
    BY <2>1 DEF SA!StationInv, SA!StationOK, SA!IsMember, SA!AccessSlot, CanA, MaySend
  <2>3. SA!CanSend => timerA <= timer BY <2>2 DEF SA!CanSend, CanA, MaySend
  <2>4. QED BY <1>1, <1>3, <2>3, Premises, SA!ServerTicks DEF NoServerFrame
<1>4. CASE fsm = "START" /\ fsm' = "SYNC" /\ count' > 1 /\ air = {} /\ air' = {}
  <2>1. SA!Alone => SA!Alone' BY <1>2, <1>4 DEF SA!Alone
  <2>2. QED BY <1>1, <1>4, <2>1, Premises, SA!ServerTicks
<1>5. CASE fsm \notin {"MSG_READ", "START"} /\ timer > 1
  <2>1. timer > 0 BY <1>5
  <2>2. fsm \notin {"MSG_READ", "START"} BY <1>5
  <2>3. QED BY <1>1, <2>1, <2>2, Premises, SA!ServerTicks
<1>6. QED BY <1>3, <1>4, <1>5 DEF Advances, SA!After, SB!After

(* The button of A is pressed. *)
LEMMA PressedA ==
  ASSUME SA!StationInv, SB!StationInv, MaxPresses <= 1, A!Press, UNCHANGED <<serverVars, bVars, air>>
  PROVE  SA!StationInv' /\ SB!StationInv'
<1>1. SameTable /\ SameClock /\ heard' = heard BY ServerUntouched
<1>2. IdsOf(MacA)' = IdsOf(MacA) /\ UNCHANGED SA!clock
  BY <1>1, TableUntouched DEF SA!clock, SameClock
<1>3. MaxPresses \in 0 .. 1 BY BoundsAssumption
<1>4. SA!Press BY PressIsA
<1>5. ~CanA /\ ~CanA'
  <2>1. ~SA!CanSend /\ ~SA!CanSend' BY <1>3, <1>4, Premises, SA!PressIsQuiet
  <2>2. QED BY <2>1 DEF CanA, MaySend, SA!CanSend
<1>6. CanB' <=> CanB BY DEF bVars, CanB, MaySend
<1>7. (CanA \/ CanB)' = (CanA \/ CanB) BY <1>5, <1>6 DEF CanB, MaySend
<1>8. SA!StationInv' BY <1>1, <1>2, <1>3, <1>4, <1>7, Premises, SA!Pressed
<1>9. SB!StationInv' BY <1>1, <1>5, RestsB
<1>10. QED BY <1>8, <1>9

(* Its application hands one over. *)
LEMMA PostedA ==
  ASSUME SA!StationInv, SB!StationInv, NEW b \in Bodies, A!Post(b),
         UNCHANGED <<serverVars, bVars, air>>
  PROVE  SA!StationInv' /\ SB!StationInv'
<1>1. SameTable /\ SameClock /\ heard' = heard BY ServerUntouched
<1>2. IdsOf(MacA)' = IdsOf(MacA) /\ UNCHANGED SA!clock
  BY <1>1, TableUntouched DEF SA!clock, SameClock
<1>3. SA!Post(b) BY PostIsA
<1>4. CanA' <=> CanA
  <2>1. SA!CanSend' <=> SA!CanSend BY <1>3, Premises, SA!PostIsQuiet
  <2>2. QED BY <2>1 DEF CanA, MaySend, SA!CanSend
<1>5. CanB' <=> CanB BY DEF bVars, CanB, MaySend
<1>6. (CanA \/ CanB)' = (CanA \/ CanB) BY <1>4, <1>5 DEF CanA, CanB, MaySend
<1>7. SA!StationInv' BY <1>1, <1>2, <1>3, <1>6, Premises, SA!Posted
<1>8. SB!StationInv' BY <1>1, <1>4, RestsB
<1>9. QED BY <1>7, <1>8

(* Others have spoken, and the server may have taken a STATUS: not one that *)
(* this client is still to send.                                            *)
LEMMA StaysHeardB ==
  ASSUME SB!StationInv, NEW s0 \in air, IdsOf(MacB) \cap IdsOf(MacA) = {},
         \/ heard' = heard
         \/ /\ s0.from \in Two /\ ~s0.spoiled /\ s0.frame.kind = "STATUS"
            /\ s0.frame.src \in IdsOf(MacOf(s0.from))
            /\ heard' = heard \ {s0.frame.src}
  PROVE  fsmB = "JOINED" /\ flagB = "SYNC" => slotB \in heard'
<1> SUFFICES ASSUME fsmB = "JOINED", flagB = "SYNC" PROVE slotB \in heard' OBVIOUS
<1>1. /\ slotB \in heard /\ slotB \in IdsOf(MacB)
      /\ s0.from = "B" /\ s0.frame.kind = "STATUS" => s0.spoiled
  BY DEF SB!StationInv, SB!MayAnswer, SB!IsMember
<1>2. CASE heard' = heard BY <1>1, <1>2
<1>3. CASE s0.from = "A" /\ s0.frame.src \in IdsOf(MacA) /\ heard' = heard \ {s0.frame.src}
  BY <1>1, <1>3
<1>4. QED BY <1>1, <1>2, <1>3 DEF Two, MacOf

(* A frame arrives at client B, or B misses it. *)
LEMMA ArrivesB ==
  ASSUME SB!StationInv, SA!StationInv, ServerFrames, AirOK, timer \in Nat,
         fsm # "START" => timer >= 3,
         IdsOf(MacB) \subseteq MemberIds, IdsOf(MacB) \cap IdsOf(MacA) = {},
         NEW s0 \in air, NEW deaf, ArriveBut(s0, deaf), SameTable, SameClock,
         \/ heard' = heard
         \/ /\ s0.from \in Two /\ ~s0.spoiled /\ s0.frame.kind = "STATUS"
            /\ s0.frame.src \in IdsOf(MacOf(s0.from))
            /\ heard' = heard \ {s0.frame.src}
  PROVE  SB!StationInv'
<1>0. air' = air \ {s0} /\ air # {} BY DEF ArriveBut
<1>1. \A t \in air' : \E s \in air : Descends(t, s) BY <1>0 DEF Descends
<1>2. fsmB = "JOINED" /\ flagB = "SYNC" => slotB \in heard' BY StaysHeardB
<1>3. CASE B!HearOther \/ UNCHANGED bVars BY <1>0, <1>1, <1>2, <1>3, StirredB
<1>4. CASE ~(B!HearOther \/ UNCHANGED bVars)
  <2>1. ~s0.spoiled /\ s0.from = "server" /\ BHears(s0) BY <1>4 DEF ArriveBut, BHears
  <2>2. /\ air' = {} /\ count = timer /\ s0.frame.kind \in {"SYNC", "JOINRESP", "CONTRL"}
        /\ s0.frame.kind = "SYNC" => fsm = "MSG_READ" /\ MemberIds \subseteq heard
        /\ s0.frame.kind = "JOINRESP" => fsm = "SYNC" /\ s0.frame.id \in IdsOf(s0.frame.mac)
        /\ s0.frame.kind = "CONTRL" => fsm \in {"SYNC", "STATUSMSG"}
    BY <1>0, <2>1 DEF ServerFrames, AirOK, FrameOK, Two
  <2>3. heard' = heard BY <2>1 DEF Two
  <2>4. IdsOf(MacB)' = IdsOf(MacB) /\ UNCHANGED SB!clock
    BY TableUntouched DEF SB!clock, SameClock
  <2>5. CASE s0.frame.kind = "SYNC"
    <3>1. SB!HearSync(OwnNet) BY <2>1, <2>5, HearSyncIsB DEF BHears
    <3>2. IdsOf(MacB) \subseteq heard BY <2>2, <2>5
    <3>3. QED BY <1>0, <2>2, <2>3, <2>4, <2>5, <3>1, <3>2, Premises, SB!HearsSync
  <2>6. CASE s0.frame.kind # "SYNC"
    <3> DEFINE f == Reply(s0.frame, MacB, slotB)
    <3>1. B!HearReply(f) BY <2>1, <2>6 DEF BHears
    <3>2. /\ f.kind = s0.frame.kind
          /\ f.kind = "JOINRESP" => (f.mine => f.id \in IdsOf(MacB))
      BY <2>2, <2>6 DEF Reply
    <3> HIDE DEF f
    <3>3. SB!HearReply(f) BY <3>1, HearReplyIsB
    <3>4. ~CanB' /\ flagB' # "SYNC"
      BY <2>2, <2>6, <3>1, <3>2 DEF B!HearReply, B!RxReply, CanB, MaySend
    <3>5. ~CanA'
      <4>1. ~CanA BY <2>1, <2>2, <2>6, SilentA
      <4>2. CASE UNCHANGED aVars BY <4>1, <4>2 DEF aVars, CanA, MaySend
      <4>3. CASE A!HearReply(Reply(s0.frame, MacA, slotA))
        <5>1. PICK r : r = Reply(s0.frame, MacA, slotA) OBVIOUS
        <5>2. r.kind # "SYNC" BY <5>1 DEF Reply
        <5>3. flagA' = r.kind BY <4>3, <5>1 DEF A!HearReply, A!RxReply
        <5>4. QED BY <5>2, <5>3 DEF CanA, MaySend
      <4>4. QED BY <2>1, <2>6, <4>2, <4>3 DEF ArriveBut, AHears
    <3>6. SB!Alone' BY <2>2, <3>4, <3>5 DEF SB!Alone
    <3>7. timer >= 3 /\ (f.kind = "JOINRESP" => fsm = "SYNC") BY <2>2, <2>6, <3>2
    <3>8. f.kind \in {"JOINRESP", "CONTRL"} BY <2>2, <2>6, <3>2
    <3>9. QED
      BY <1>0, <2>2, <2>4, <3>2, <3>3, <3>6, <3>7, <3>8, Premises, SB!HearsReply
  <2>7. QED BY <2>5, <2>6
<1>5. QED BY <1>3, <1>4

(* The first octets of a frame are in the air. *)
LEMMA BeginsB ==
  ASSUME SB!StationInv, NEW s0 \in air, Begin(s0), SameTable, SameClock, heard' = heard,
         \A t \in air' : \E s \in air : Descends(t, s)
  PROVE  SB!StationInv'
<1>1. B!HearOther \/ UNCHANGED bVars BY DEF Begin
<1>2. fsmB = "JOINED" /\ flagB = "SYNC" => slotB \in heard'
  BY DEF SB!StationInv, SB!MayAnswer
<1>3. air # {} OBVIOUS
<1>4. QED BY <1>1, <1>2, <1>3, StirredB

(* The server's timer expires: the slot of B has passed, or lies before the *)
(* server's next.                                                           *)
LEMMA ServerTicksB ==
  ASSUME SB!StationInv, ServerInv, ServerInv', IdsOf(MacB) \subseteq IdsOf(MacB)',
         \A i \in IdsOf(MacB) : i <= RaisedSlots, ServerMode = "LOCAL",
         count = 0, timer \in Nat, count' = timer', timer' \in Nat,
         UNCHANGED <<bVars, aVars>>, Advances
  PROVE  SB!StationInv'
<1>1. UNCHANGED SB!own BY DEF bVars, SB!own
<1>2. (CanB' <=> CanB) /\ (CanA' <=> CanA) BY DEF bVars, aVars, CanB, CanA, MaySend
<1>3. CASE /\ fsm = "MSG_READ" /\ fsm' \in SB!After /\ timer' = timer /\ timer > 1
           /\ NoServerFrame /\ air' = air /\ heard' = heard
  <2>1. timer = RaisedSlots /\ RaisedSlots >= 3
    BY <1>3, RaisedLong DEF ServerInv, TimerFollowsState
  <2>2. CanB => timerB <= timer
    BY <2>1 DEF SB!StationInv, SB!StationOK, SB!IsMember, SB!AccessSlot, CanB, MaySend
  <2>3. SB!CanSend => timerB <= timer BY <2>2 DEF SB!CanSend, CanB, MaySend
  <2>4. QED BY <1>1, <1>3, <2>3, Premises, SB!ServerTicks DEF NoServerFrame
<1>4. CASE fsm = "START" /\ fsm' = "SYNC" /\ count' > 1 /\ air = {} /\ air' = {}
  <2>1. SB!Alone => SB!Alone' BY <1>2, <1>4 DEF SB!Alone
  <2>2. QED BY <1>1, <1>4, <2>1, Premises, SB!ServerTicks
<1>5. CASE fsm \notin {"MSG_READ", "START"} /\ timer > 1
  <2>1. timer > 0 BY <1>5
  <2>2. fsm \notin {"MSG_READ", "START"} BY <1>5
  <2>3. QED BY <1>1, <2>1, <2>2, Premises, SB!ServerTicks
<1>6. QED BY <1>3, <1>4, <1>5 DEF Advances, SB!After, SA!After

(* The button of B is pressed. *)
LEMMA PressedB ==
  ASSUME SB!StationInv, SA!StationInv, MaxPresses <= 1, B!Press, UNCHANGED <<serverVars, aVars, air>>
  PROVE  SB!StationInv' /\ SA!StationInv'
<1>1. SameTable /\ SameClock /\ heard' = heard BY ServerUntouched
<1>2. IdsOf(MacB)' = IdsOf(MacB) /\ UNCHANGED SB!clock
  BY <1>1, TableUntouched DEF SB!clock, SameClock
<1>3. MaxPresses \in 0 .. 1 BY BoundsAssumption
<1>4. SB!Press BY PressIsB
<1>5. ~CanB /\ ~CanB'
  <2>1. ~SB!CanSend /\ ~SB!CanSend' BY <1>3, <1>4, Premises, SB!PressIsQuiet
  <2>2. QED BY <2>1 DEF CanB, MaySend, SB!CanSend
<1>6. CanA' <=> CanA BY DEF aVars, CanA, MaySend
<1>7. (CanB \/ CanA)' = (CanB \/ CanA) BY <1>5, <1>6 DEF CanA, MaySend
<1>8. SB!StationInv' BY <1>1, <1>2, <1>3, <1>4, <1>7, Premises, SB!Pressed
<1>9. SA!StationInv' BY <1>1, <1>5, RestsA
<1>10. QED BY <1>8, <1>9

(* Its application hands one over. *)
LEMMA PostedB ==
  ASSUME SB!StationInv, SA!StationInv, NEW b \in Bodies, B!Post(b),
         UNCHANGED <<serverVars, aVars, air>>
  PROVE  SB!StationInv' /\ SA!StationInv'
<1>1. SameTable /\ SameClock /\ heard' = heard BY ServerUntouched
<1>2. IdsOf(MacB)' = IdsOf(MacB) /\ UNCHANGED SB!clock
  BY <1>1, TableUntouched DEF SB!clock, SameClock
<1>3. SB!Post(b) BY PostIsB
<1>4. CanB' <=> CanB
  <2>1. SB!CanSend' <=> SB!CanSend BY <1>3, Premises, SB!PostIsQuiet
  <2>2. QED BY <2>1 DEF CanB, MaySend, SB!CanSend
<1>5. CanA' <=> CanA BY DEF aVars, CanA, MaySend
<1>6. (CanB \/ CanA)' = (CanB \/ CanA) BY <1>4, <1>5 DEF CanB, CanA, MaySend
<1>7. SB!StationInv' BY <1>1, <1>2, <1>3, <1>6, Premises, SB!Posted
<1>8. SA!StationInv' BY <1>1, <1>4, RestsA
<1>9. QED BY <1>7, <1>8

-----------------------------------------------------------------------------
(* The network.                                                             *)

(* The ids that the table holds for a client. *)
LEMMA IdsAreKnown ==
  ASSUME NEW g \in 1 .. (Width - 1), GrantBound(g), TableInv(g), NEW m
  PROVE  /\ IdsOf(m) \subseteq ClientIds /\ IdsOf(m) \subseteq MemberIds
         /\ IdsOf(m) \subseteq Nat /\ \A i \in IdsOf(m) : i <= RaisedSlots
<1>1. GrantsProper BY InvGivesProper
<1>2. StartingSlots \in Nat /\ Width \in Nat /\ RaisedSlots \in Nat
  BY SizesAssumption DEF TableInv, TypeOK, RaisedSlots, Octet
<1>3. ASSUME NEW k \in Registered
      PROVE  table[k].id \in ClientIds /\ table[k].id \in Nat /\ table[k].id <= RaisedSlots
  <2>1. /\ table[k].id \in 1 .. (Width - 1) /\ LastSlotOf(k) \in 1 .. (Width - 1)
        /\ table[k].id <= LastSlotOf(k) /\ StartingSlots < table[k].id
    BY <1>1 DEF GrantsProper
  <2>2. LastSlotOf(k) <= RaisedSlots BY DEF TableInv, SlotsInOrder
  <2>3. QED BY <1>2, <2>1, <2>2 DEF ClientIds
<1>4. QED BY <1>3 DEF IdsOf, MemberIds

(* The rows of the two clients are client slots, and distinct. *)
LEMMA IdsAreTheirs ==
  ASSUME NEW g \in 1 .. (Width - 1), GrantBound(g), TableInv(g)
  PROVE  IdsOf(MacA) \cap IdsOf(MacB) = {}
<1>1. GrantsProper /\ UniqueSlots BY InvGivesProper, InvGivesUniqueSlots
<1>2. MacA # MacB BY ClientsAssumption
<1>3. ASSUME NEW i \in Registered, NEW j \in Registered, table[i].mac # table[j].mac
      PROVE  table[i].id # table[j].id
  <2>1. /\ table[i].id \in 1 .. (Width - 1) /\ LastSlotOf(i) \in 1 .. (Width - 1)
        /\ table[j].id \in 1 .. (Width - 1) /\ LastSlotOf(j) \in 1 .. (Width - 1)
        /\ table[i].id <= LastSlotOf(i) /\ table[j].id <= LastSlotOf(j)
    BY <1>1 DEF GrantsProper
  <2>2. LastSlotOf(i) < table[j].id \/ LastSlotOf(j) < table[i].id
    BY <1>1, <1>3 DEF UniqueSlots
  <2>3. QED BY <2>1, <2>2
<1>4. QED BY <1>2, <1>3 DEF IdsOf

(* What a state of the invariant offers to the lemmas above. *)
LEMMA NetworkFacts ==
  ASSUME Calm, NEW g \in 1 .. (Width - 1), GrantBound(g), NetworkInv(g)
  PROVE  /\ timer \in Nat /\ count \in Nat
         /\ ReadMsgOK /\ ServerMode = "LOCAL"
         /\ fsm # "START" => timer >= 3
         /\ \A m : /\ IdsOf(m) \subseteq ClientIds /\ IdsOf(m) \subseteq MemberIds
                   /\ IdsOf(m) \subseteq Nat /\ \A i \in IdsOf(m) : i <= RaisedSlots
         /\ IdsOf(MacA) \cap IdsOf(MacB) = {} /\ IdsOf(MacB) \cap IdsOf(MacA) = {}
         /\ ChannelInv /\ AirOK /\ ServerFrames /\ SA!StationInv /\ SB!StationInv
<1>1. timer \in Nat BY SizesAssumption DEF NetworkInv, ServerInv, ServerTypeOK, Octet
<1>2. count \in Nat BY <1>1 DEF NetworkInv, ClockOK
<1>3. ServerMode = "LOCAL" /\ (fsm # "START" => timer >= 3) BY TimerLong DEF Calm, NetworkInv
<1>4. ReadMsgOK /\ TableInv(g) BY DEF NetworkInv, ServerInv
<1>5. \A m : /\ IdsOf(m) \subseteq ClientIds /\ IdsOf(m) \subseteq MemberIds
             /\ IdsOf(m) \subseteq Nat /\ \A i \in IdsOf(m) : i <= RaisedSlots
  BY <1>4, IdsAreKnown
<1>6. IdsOf(MacA) \cap IdsOf(MacB) = {} /\ IdsOf(MacB) \cap IdsOf(MacA) = {}
  BY <1>4, IdsAreTheirs
<1>7. ChannelInv /\ AirOK /\ ServerFrames /\ SA!StationInv /\ SB!StationInv
  BY DEF NetworkInv, ChannelInv
<1>8. QED BY <1>1, <1>2, <1>3, <1>4, <1>5, <1>6, <1>7

(* What the server keeps by itself. *)
LEMMA ServerKeeps ==
  ASSUME NEW g \in 1 .. (Width - 1), GrantBound(g), NetworkInv(g), [ServerNext]_vars
  PROVE  ServerInv' /\ TableInv(g)' /\ FreeRowsBlank' /\ [Next]_tableVars
<1>1. ServerInv /\ ReadMsgOK /\ TableInv(g) /\ FreeRowsBlank BY DEF NetworkInv, ServerInv
<1>2. ServerInv' BY <1>1, ServerInvStep
<1>3. [Next]_tableVars BY <1>1, CallsOnTable
<1>4. TableInv(g)' BY <1>1, <1>3, TableStep
<1>5. FreeRowsBlank' BY <1>1, <1>3, <1>4, FreeRowsStep
<1>6. QED BY <1>2, <1>3, <1>4, <1>5

(* A clock that does not move stays in range. *)
LEMMA ClockStays == ASSUME ClockOK, SameClock PROVE ClockOK'
BY DEF ClockOK, SameClock

(* Nothing happens in the air or to the server's clock and table. *)
LEMMA ChannelRests ==
  ASSUME ChannelInv, SameTable, SameClock, readMsg' = readMsg, heard' = heard, air' = air
  PROVE  ChannelInv'
<1>1. /\ \A m : IdsOf(m)' = IdsOf(m)
      /\ MemberIds' = MemberIds /\ MembersAreClients' /\ OwnRows' = OwnRows
      /\ \A p : Phase(p)' <=> Phase(p)
  BY TableUntouched, PhaseUntouched DEF ChannelInv
<1>2. fsm' = fsm /\ timer' = timer /\ count' = count /\ requester' = requester
      /\ tableValues' = tableValues
  BY DEF SameTable, SameClock
<1>3. AirOK' /\ Spoiling' /\ MembersDoNotCollide'
  BY DEF ChannelInv, AirOK, FrameOK, Spoiling, MembersDoNotCollide
<1>4. ServerFrames' BY <1>1, <1>2 DEF ChannelInv, ServerFrames
<1>5. ClientFrames' BY <1>1, <1>2 DEF ChannelInv, ClientFrames, ClientFrame
<1>6. RequestIsWhole' /\ AnswerPending'
  BY <1>1, <1>2 DEF ChannelInv, RequestIsWhole, AnswerPending
<1>7. QED BY <1>1, <1>3, <1>4, <1>5, <1>6 DEF ChannelInv

(* Each kind of step keeps the parts of the invariant that are not the      *)
(* server's own.                                                            *)
Keeps == [ServerNext]_vars /\ ClockOK' /\ ChannelInv' /\ SA!StationInv' /\ SB!StationInv'

(* The server's timer expires. *)
LEMMA ServerExpiresKeeps ==
  ASSUME Calm, NEW g \in 1 .. (Width - 1), GrantBound(g), NetworkInv(g), ServerExpires
  PROVE  Keeps
<1>1. /\ timer \in Nat /\ ServerMode = "LOCAL"
      /\ \A m : \A i \in IdsOf(m) : i <= RaisedSlots
      /\ SA!StationInv /\ SB!StationInv
  BY NetworkFacts
<1>2. /\ count = 0 /\ count' = timer' /\ UNCHANGED <<aVars, bVars>> /\ ServerNext
  BY DEF ServerExpires, ServerNext
<1>3. ServerInv' /\ TableInv(g)' /\ [Next]_tableVars BY <1>2, ServerKeeps
<1>4. ServerInv /\ TableInv(g) /\ FreeRowsBlank /\ ChannelInv BY DEF NetworkInv
<1>5. ChannelInv' /\ Advances BY <1>3, <1>4, ServerExpiresChannel
<1>6. timer' \in Nat BY <1>3, SizesAssumption DEF ServerInv, ServerTypeOK, Octet
<1>7. ClockOK' BY <1>2, <1>6 DEF ClockOK
<1>8. \A m : IdsOf(m) \subseteq IdsOf(m)' BY <1>3, <1>4, IdsGrow
<1>9. SA!StationInv' BY <1>1, <1>2, <1>3, <1>4, <1>5, <1>6, <1>8, ServerTicksA
<1>10. SB!StationInv' BY <1>1, <1>2, <1>3, <1>4, <1>5, <1>6, <1>8, ServerTicksB
<1>11. QED BY <1>2, <1>5, <1>7, <1>9, <1>10 DEF Keeps

(* A client's timer expires. *)
LEMMA ClientExpiresKeeps ==
  ASSUME Calm, NEW g \in 1 .. (Width - 1), GrantBound(g), NetworkInv(g), AExpires \/ BExpires
  PROVE  Keeps
<1>1. /\ timer \in Nat /\ count \in Nat
      /\ IdsOf(MacA) \subseteq ClientIds /\ IdsOf(MacB) \subseteq ClientIds
      /\ IdsOf(MacA) \cup IdsOf(MacB) \subseteq Nat /\ IdsOf(MacA) \cap IdsOf(MacB) = {}
      /\ ChannelInv /\ AirOK /\ ServerFrames /\ SA!StationInv /\ SB!StationInv
  BY NetworkFacts
<1>2. UNCHANGED serverVars /\ count > 0 /\ LateSignals = {}
  BY DEF AExpires, BExpires, ClientsMayExpire
<1>3. SameClock /\ UNCHANGED vars BY <1>2, ServerUntouched
<1>4. ClockOK' BY <1>3, ClockStays DEF NetworkInv
<1>5. CASE AExpires
  <2>1. SA!StationInv' /\ ~CanA' BY <1>1, <1>5, ExpiresA
  <2>2. PICK f : /\ f = sentA'
                 /\ f.kind = "none" \/ Sendable("A", f, netIdA)
                 /\ f.kind # "none" => CanA /\ ~(fsm = "MSG_READ" /\ count >= timer - 1)
    BY <1>1, <1>5, ExpiresA
  <2>3. Transmit("A", f, netIdA) /\ "A" \in Two BY <1>5, <2>2 DEF AExpires, Two
  <2>4. ChannelInv' BY <1>1, <1>2, <2>2, <2>3, ClientSends
  <2>5. SB!StationInv' BY <1>1, <1>5, <2>1, <2>2, AExpiresLeavesB
  <2>6. QED BY <1>3, <1>4, <2>1, <2>4, <2>5 DEF Keeps
<1>6. CASE BExpires
  <2>1. SB!StationInv' /\ ~CanB' BY <1>1, <1>6, ExpiresB
  <2>2. PICK f : /\ f = sentB'
                 /\ f.kind = "none" \/ Sendable("B", f, netIdB)
                 /\ f.kind # "none" => CanB /\ ~(fsm = "MSG_READ" /\ count >= timer - 1)
    BY <1>1, <1>6, ExpiresB
  <2>3. Transmit("B", f, netIdB) /\ "B" \in Two BY <1>6, <2>2 DEF BExpires, Two
  <2>4. ChannelInv' BY <1>1, <1>2, <2>2, <2>3, ClientSends
  <2>5. SA!StationInv' BY <1>1, <1>6, <2>1, <2>2, BExpiresLeavesA
  <2>6. QED BY <1>3, <1>4, <2>1, <2>4, <2>5 DEF Keeps
<1>7. QED BY <1>5, <1>6

(* A slot passes. *)
LEMMA SlotPassesKeeps ==
  ASSUME Calm, NEW g \in 1 .. (Width - 1), GrantBound(g), NetworkInv(g), SlotPasses
  PROVE  Keeps
<1>1. /\ timer \in Nat /\ count \in Nat
      /\ ChannelInv /\ AirOK /\ SA!StationInv /\ SB!StationInv
  BY NetworkFacts
<1>2. UNCHANGED vars /\ count > 0 /\ count' = count - 1 BY DEF SlotPasses
<1>3. ClockOK'
  <2>1. timer' = timer BY <1>2 DEF vars, fsmVars
  <2>2. QED BY <1>1, <1>2, <2>1 DEF NetworkInv, ClockOK
<1>4. ChannelInv' BY <1>1, SlotPassesChannel
<1>5. SA!StationInv' BY <1>1, PassesA
<1>6. SB!StationInv' BY <1>1, PassesB
<1>7. QED BY <1>2, <1>3, <1>4, <1>5, <1>6 DEF Keeps

(* A frame that the server is deaf to is its own or was lost as a whole. *)
LEMMA ArriveKeeps ==
  ASSUME Calm, NEW g \in 1 .. (Width - 1), GrantBound(g), NetworkInv(g),
         NEW s \in air, NEW deaf, s.from \in deaf, ArriveBut(s, deaf),
         "server" \in deaf => s.from = "server" \/ ~s.begun
  PROVE  Keeps
<1>1. /\ timer \in Nat /\ (fsm # "START" => timer >= 3)
      /\ IdsOf(MacA) \subseteq MemberIds /\ IdsOf(MacB) \subseteq MemberIds
      /\ IdsOf(MacA) \cap IdsOf(MacB) = {} /\ IdsOf(MacB) \cap IdsOf(MacA) = {}
      /\ ChannelInv /\ AirOK /\ ServerFrames /\ SA!StationInv /\ SB!StationInv
  BY NetworkFacts
<1>2. /\ ChannelInv' /\ SameTable /\ SameClock /\ [ServerNext]_vars
      /\ \/ heard' = heard
         \/ /\ s.from \in Two /\ ~s.spoiled /\ s.frame.kind = "STATUS"
            /\ s.frame.src \in IdsOf(MacOf(s.from))
            /\ heard' = heard \ {s.frame.src}
  BY <1>1, ArriveChannel
<1>3. ClockOK' BY <1>2, ClockStays DEF NetworkInv
<1>4. SA!StationInv' BY <1>1, <1>2, ArrivesA
<1>5. SB!StationInv' BY <1>1, <1>2, ArrivesB
<1>6. QED BY <1>2, <1>3, <1>4, <1>5 DEF Keeps

(* The first octets of a frame are heard. *)
LEMMA BeginKeeps ==
  ASSUME Calm, NEW g \in 1 .. (Width - 1), GrantBound(g), NetworkInv(g), NEW s \in air, Begin(s)
  PROVE  Keeps
<1>1. ReadMsgOK /\ ChannelInv /\ SA!StationInv /\ SB!StationInv BY NetworkFacts
<1>2. /\ ChannelInv' /\ SameTable /\ SameClock /\ heard' = heard /\ [ServerNext]_vars
      /\ \A t \in air' : \E s1 \in air : Descends(t, s1)
  BY <1>1, BeginChannel
<1>3. ClockOK' BY <1>2, ClockStays DEF NetworkInv
<1>4. SA!StationInv' BY <1>1, <1>2, BeginsA
<1>5. SB!StationInv' BY <1>1, <1>2, BeginsB
<1>6. QED BY <1>2, <1>3, <1>4, <1>5 DEF Keeps

(* Operator and applications touch neither the air nor the table. *)
LEMMA UserKeeps ==
  ASSUME Calm, NEW g \in 1 .. (Width - 1), GrantBound(g), NetworkInv(g),
         Operator \/ Applications \/ UNCHANGED networkVars
  PROVE  Keeps
<1>1. ChannelInv /\ SA!StationInv /\ SB!StationInv /\ ClockOK /\ MaxPresses <= 1
  BY NetworkFacts DEF NetworkInv, Calm
<1>2. ASSUME SameTable, SameClock, readMsg' = readMsg, heard' = heard, air' = air
      PROVE  ChannelInv' /\ ClockOK'
  BY <1>1, <1>2, ChannelRests, ClockStays
<1>3. CASE UNCHANGED <<serverVars, air>> /\ SA!StationInv' /\ SB!StationInv'
  <2>1. SameTable /\ SameClock /\ readMsg' = readMsg /\ heard' = heard /\ UNCHANGED vars
    BY <1>3, ServerUntouched
  <2>2. QED BY <1>2, <1>3, <2>1 DEF Keeps
<1>4. CASE PressButton /\ UNCHANGED <<count, aVars, bVars, air>>
  <2>1. SameTable /\ SameClock /\ readMsg' = readMsg /\ heard' = heard /\ ServerNext
    BY <1>4 DEF PressButton, SameTable, SameClock, tableVars, fsmVars, envVars, ServerNext
  <2>2. SA!StationInv' BY <1>1, <1>4, <2>1, RestsA DEF bVars, CanB, MaySend
  <2>3. SB!StationInv' BY <1>1, <1>4, <2>1, RestsB DEF aVars, CanA, MaySend
  <2>4. QED BY <1>2, <1>4, <2>1, <2>2, <2>3 DEF Keeps
<1>5. CASE Operator
  <2>1. CASE A!Press /\ UNCHANGED <<serverVars, bVars, air>>
    BY <1>1, <1>3, <2>1, PressedA
  <2>2. CASE B!Press /\ UNCHANGED <<serverVars, aVars, air>>
    BY <1>1, <1>3, <2>2, PressedB
  <2>3. QED BY <1>4, <1>5, <2>1, <2>2 DEF Operator
<1>6. CASE Applications
  <2>1. PICK b \in Bodies : (A!Post(b) /\ UNCHANGED bVars) \/ (B!Post(b) /\ UNCHANGED aVars)
    BY <1>6 DEF Applications
  <2>2. UNCHANGED <<serverVars, air>> BY <1>6 DEF Applications
  <2>3. CASE A!Post(b) /\ UNCHANGED bVars BY <1>1, <1>3, <2>2, <2>3, PostedA
  <2>4. CASE B!Post(b) /\ UNCHANGED aVars BY <1>1, <1>3, <2>2, <2>4, PostedB
  <2>5. QED BY <2>1, <2>3, <2>4
<1>7. CASE UNCHANGED networkVars
  <2>1. UNCHANGED <<serverVars, aVars, bVars, air>> BY <1>7 DEF networkVars
  <2>2. SameTable /\ SameClock /\ heard' = heard BY <2>1, ServerUntouched
  <2>3. SA!StationInv' BY <1>1, <2>1, <2>2, RestsA DEF bVars, CanB, MaySend
  <2>4. SB!StationInv' BY <1>1, <2>1, <2>2, RestsB DEF aVars, CanA, MaySend
  <2>5. QED BY <1>3, <2>1, <2>3, <2>4
<1>8. QED BY <1>5, <1>6, <1>7

(* Nobody is reset, so every step keeps the invariant. *)
LEMMA NetworkStep ==
  ASSUME Calm, NEW g \in 1 .. (Width - 1), GrantBound(g), NetworkInv(g),
         [NetworkNext]_networkVars
  PROVE  NetworkInv(g)' /\ [ServerNext]_vars
<1>1. ASSUME NEW s \in air, Arrive(s) PROVE Keeps
  <2>1. ArriveBut(s, {s.from}) BY <1>1 DEF Arrive
  <2>2. QED BY <2>1, ArriveKeeps
<1>2. ASSUME NEW s \in air, Miss(s) PROVE Keeps
  <2>1. PICK who \in Devs \ {s.from} : ~s.begun /\ ArriveBut(s, {s.from, who}) BY <1>2 DEF Miss
  <2>2. QED BY <2>1, ArriveKeeps
<1>3. resets = 0 /\ ~Reset
  <2>1. resets = 0 /\ MaxResets = 0 BY DEF NetworkInv, Calm
  <2>2. QED BY <2>1 DEF Reset
<1>4. Keeps
  <2>1. CASE Progress
    BY <1>1, <2>1, ServerExpiresKeeps, ClientExpiresKeeps, SlotPassesKeeps DEF Progress
  <2>2. CASE (\E s \in air : Begin(s)) \/ Operator \/ Applications
    BY <2>2, BeginKeeps, UserKeeps
  <2>3. CASE UNCHANGED networkVars BY <2>3, UserKeeps
  <2>4. QED BY <1>2, <1>3, <2>1, <2>2, <2>3 DEF NetworkNext
<1>5. [ServerNext]_vars BY <1>4 DEF Keeps
<1>6. ServerInv' /\ TableInv(g)' /\ FreeRowsBlank' BY <1>5, ServerKeeps
<1>7. resets' = resets
  BY <1>3 DEF NetworkNext, Progress, Arrive, Miss, faultVars, networkVars
<1>8. QED BY <1>3, <1>4, <1>5, <1>6, <1>7 DEF Keeps, NetworkInv

(* In the beginning the air is empty and nobody has joined. *)
LEMMA NetworkBegins ==
  ASSUME NEW g \in 1 .. (Width - 1), NetworkInit PROVE NetworkInv(g)
<1>1. ServerInit /\ SA!StationInit /\ SB!StationInit /\ count = 0 /\ air = {}
      /\ resets = 0
  BY BeginIsA, BeginIsB DEF NetworkInit
<1>2. fsm = "START" /\ timer = 0 /\ readMsg = Blank /\ Init BY <1>1 DEF ServerInit
<1>3. ServerInv /\ TableInv(g) BY <1>1, <1>2, ServerInvInit, TableInit
<1>4. \A i \in Rows : table[i] = EmptyRow BY <1>2 DEF Init
<1>5. FreeRowsBlank /\ Registered = {}
  BY <1>4 DEF EmptyRow, FreeRowsBlank, Registered
<1>6. ClockOK BY <1>1, <1>2 DEF ClockOK
<1>7. ChannelInv
  BY <1>1, <1>2, <1>5
  DEF ChannelInv, AirOK, ServerFrames, ClientFrames, Spoiling, MembersDoNotCollide,
      RequestIsWhole, MembersAreClients, AnswerPending, Blank
<1>8. ~CanA /\ ~CanB BY <1>1 DEF SA!StationInit, SA!Init, SB!StationInit, SB!Init, CanA, CanB, MaySend
<1>9. SA!Alone /\ SB!Alone BY <1>1, <1>8 DEF SA!Alone, SB!Alone
<1>10. SA!StationInv BY <1>1, <1>2, <1>9, Premises, BoundsAssumption, SA!Begins
<1>11. SB!StationInv BY <1>1, <1>2, <1>9, Premises, BoundsAssumption, SB!Begins
<1>12. QED BY <1>1, <1>3, <1>5, <1>6, <1>7, <1>10, <1>11 DEF NetworkInv

(* The invariant holds in every state of a calm network. *)
LEMMA NetworkInvariant ==
  ASSUME Calm, NEW g \in 1 .. (Width - 1), GrantBound(g) PROVE NetworkSpec => []NetworkInv(g)
<1>1. NetworkInit => NetworkInv(g) BY NetworkBegins
<1>2. NetworkInv(g) /\ [NetworkNext]_networkVars => NetworkInv(g)' BY NetworkStep
<1>3. QED BY <1>1, <1>2, PTL DEF NetworkSpec

(* The slot that a joined client holds is one of the rows of its address. *)
LEMMA InvGivesAgreement == ASSUME NEW g, NetworkInv(g) PROVE SlotAgreement
<1>1. flagsA.joined => slotA \in IdsOf(MacA)
  BY DEF NetworkInv, SA!StationInv, SA!StationOK, SA!IsMember
<1>2. flagsB.joined => slotB \in IdsOf(MacB)
  BY DEF NetworkInv, SB!StationInv, SB!StationOK, SB!IsMember
<1>3. \A m : \A i \in IdsOf(m) : Holds(m, i) BY DEF IdsOf, Holds
<1>4. QED BY <1>1, <1>2, <1>3 DEF SlotAgreement

(* A client knows of a network by a SYNC it has read whole, so of this one. *)
LEMMA InvGivesNetwork == ASSUME NEW g, NetworkInv(g) PROVE JoinsThisNetwork
<1>1. fsmA \in {"JOINREQ", "JOINED"} => netIdA \in {OwnNet} /\ slotTimeA
  BY DEF NetworkInv, SA!StationInv, SA!StationOK
<1>2. fsmB \in {"JOINREQ", "JOINED"} => netIdB \in {OwnNet} /\ slotTimeB
  BY DEF NetworkInv, SB!StationInv, SB!StationOK
<1>3. QED BY <1>1, <1>2 DEF JoinsThisNetwork

-----------------------------------------------------------------------------
(* A client that has joined holds the slot that the server's table has for  *)
(* its address, although the slot was told in one frame and asked for in    *)
(* another, and whichever frames the radio loses.                           *)
THEOREM SlotsAgree == Calm => (NetworkSpec => []SlotAgreement)
<1> SUFFICES ASSUME Calm PROVE NetworkSpec => []SlotAgreement OBVIOUS
<1> PICK g \in 1 .. (Width - 1) : GrantBound(g) BY DEF Calm, NoWrap
<1>1. NetworkSpec => []NetworkInv(g) BY NetworkInvariant
<1>2. NetworkInv(g) => SlotAgreement BY InvGivesAgreement
<1>3. QED BY <1>1, <1>2, PTL

(* The frames of the server and of joined clients never meet in the air,    *)
(* while clients join and the server's period grows under them.             *)
THEOREM NobodyCollides == Calm => (NetworkSpec => []MembersDoNotCollide)
<1> SUFFICES ASSUME Calm PROVE NetworkSpec => []MembersDoNotCollide OBVIOUS
<1> PICK g \in 1 .. (Width - 1) : GrantBound(g) BY DEF Calm, NoWrap
<1>1. NetworkSpec => []NetworkInv(g) BY NetworkInvariant
<1>2. NetworkInv(g) => MembersDoNotCollide BY DEF NetworkInv, ChannelInv
<1>3. QED BY <1>1, <1>2, PTL

(* A client that asks to join has read the network's parameters from a SYNC *)
(* that was whole in its buffer when its timer expired.                     *)
THEOREM NetworkIsJoined == Calm => (NetworkSpec => []JoinsThisNetwork)
<1> SUFFICES ASSUME Calm PROVE NetworkSpec => []JoinsThisNetwork OBVIOUS
<1> PICK g \in 1 .. (Width - 1) : GrantBound(g) BY DEF Calm, NoWrap
<1>1. NetworkSpec => []NetworkInv(g) BY NetworkInvariant
<1>2. NetworkInv(g) => JoinsThisNetwork BY InvGivesNetwork
<1>3. QED BY <1>1, <1>2, PTL

(* A row of the table is a client's: the state that reads a join request    *)
(* never finds half of another frame in the place of its address.           *)
THEOREM RowsAreClients == Calm => (NetworkSpec => []MembersAreClients)
<1> SUFFICES ASSUME Calm PROVE NetworkSpec => []MembersAreClients OBVIOUS
<1> PICK g \in 1 .. (Width - 1) : GrantBound(g) BY DEF Calm, NoWrap
<1>1. NetworkSpec => []NetworkInv(g) BY NetworkInvariant
<1>2. NetworkInv(g) => MembersAreClients BY DEF NetworkInv, ChannelInv
<1>3. QED BY <1>1, <1>2, PTL

(* The server in its network takes steps of module ServerFsm only: a client *)
(* sends a STATUS in answer to a SYNC, once, and as a member of the table.  *)
(* So what is proved of the server alone holds of it in the network.        *)
THEOREM ServerBehavesAlone == Calm => (NetworkSpec => ServerAsAlone)
<1> SUFFICES ASSUME Calm PROVE NetworkSpec => ServerAsAlone OBVIOUS
<1> PICK g \in 1 .. (Width - 1) : GrantBound(g) BY DEF Calm, NoWrap
<1>1. NetworkSpec => []NetworkInv(g) BY NetworkInvariant
<1>2. NetworkInit => ServerInit BY DEF NetworkInit
<1>3. NetworkInv(g) /\ [NetworkNext]_networkVars => [ServerNext]_vars BY NetworkStep
<1>4. QED BY <1>1, <1>2, <1>3, PTL DEF NetworkSpec, ServerAsAlone
=============================================================================
