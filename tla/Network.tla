------------------------------- MODULE Network -------------------------------
(***************************************************************************)
(* The whole network: one server (module ServerFsm) and two clients        *)
(* (modules Station and ClientFsm) that share a radio channel.  Every step *)
(* of a device is an action of its own module; this module adds the        *)
(* channel and time.                                                       *)
(*                                                                         *)
(* Time is counted in slots.  Each device has a timer that expires at the  *)
(* beginning of a slot.  A client's clock runs behind the server's by the  *)
(* time a SYNC takes to arrive, so within a slot the server's timer comes  *)
(* first.  A frame is in the air for about a slot: a frame of the server   *)
(* arrives in the slot in which it was sent, before or after the clients'  *)
(* timers expire, and a frame of a client arrives before the clients'      *)
(* timers expire again, which may be after the server's next expiry.       *)
(* Frames that are in the air together spoil each other.                   *)
(***************************************************************************)
EXTENDS ServerFsm

CONSTANTS
  MacA, MacB,     \* the addresses of the two clients
  DestA, DestB,   \* the ids their applications send to
  MaxPresses,     \* how often each client's button is pressed
  MaxLosses,      \* bound on the frames that receivers miss
  MaxResets,      \* bound on the resets of clients
  OneAtATime,     \* whether the operator lets one client join at a time
  MaxOwed         \* messages of a client under way at a time

(* The clients are two real devices, they ask for one slot each and send to *)
(* clients or to the server, and no slot of theirs is one of the server's.  *)
ASSUME ClientsAssumption ==
  /\ {MacA, MacB} \subseteq Devices /\ MacA # MacB
  /\ 1 \in Requests /\ {DestA, DestB} \subseteq Targets
  /\ BroadcastSlot <= StartingSlots
ASSUME BodiesAssumption == "" \notin Bodies
ASSUME BoundsAssumption == MaxPresses \in Nat /\ MaxLosses \in Nat /\ MaxResets \in Nat

VARIABLES fsmA, timerA, flagA, bufA, netIdA, slotTimeA, slotA, flagsA, appMsgA,
          pcA, argA, regA, sentA, expiredA, countA, pressesA
VARIABLES fsmB, timerB, flagB, bufB, netIdB, slotTimeB, slotB, flagsB, appMsgB,
          pcB, argB, regB, sentB, expiredB, countB, pressesB
VARIABLES
  count,     \* slots left until the server's timer expires
  air,       \* the frames in the air
  losses,    \* frames that a receiver missed
  resets     \* resets of clients

OwnNet    == 1
ClientIds == (StartingSlots + 1) .. (Width - 1)

A == INSTANCE Station WITH
       Nets <- {OwnNet},
       fsm <- fsmA, timer <- timerA, flag <- flagA, buf <- bufA, netId <- netIdA,
       slotTime <- slotTimeA, slot <- slotA, flags <- flagsA, appMsg <- appMsgA,
       pc <- pcA, arg <- argA, reg <- regA, sent <- sentA, expired <- expiredA,
       count <- countA, presses <- pressesA
B == INSTANCE Station WITH
       Nets <- {OwnNet},
       fsm <- fsmB, timer <- timerB, flag <- flagB, buf <- bufB, netId <- netIdB,
       slotTime <- slotTimeB, slot <- slotB, flags <- flagsB, appMsg <- appMsgB,
       pc <- pcB, arg <- argB, reg <- regB, sent <- sentB, expired <- expiredB,
       count <- countB, presses <- pressesB

serverVars  == <<vars, count>>
faultVars  == <<losses, resets>>
aVars == <<fsmA, timerA, flagA, bufA, netIdA, slotTimeA, slotA, flagsA, appMsgA,
           pcA, argA, regA, sentA, expiredA, countA, pressesA>>
bVars == <<fsmB, timerB, flagB, bufB, netIdB, slotTimeB, slotB, flagsB, appMsgB,
           pcB, argB, regB, sentB, expiredB, countB, pressesB>>
networkVars == <<serverVars, aVars, bVars, air, faultVars>>

-----------------------------------------------------------------------------
(* The channel.  own: the frame carries this network's id.  late: it was    *)
(* sent in the slot before this one.  begun: its first octets are in the    *)
(* buffers of those who hear it.                                            *)
Signal(who, f, net) == [from |-> who, frame |-> f, own |-> net = OwnNet,
                        spoiled |-> FALSE, late |-> FALSE, begun |-> FALSE]
Spoil(s) == [s EXCEPT !.spoiled = TRUE]

(* xbee_send: what the timer interrupt of a device transmits. *)
Transmit(who, f, net) ==
  air' = IF f.kind = "none" THEN air
         ELSE IF air = {} THEN {Signal(who, f, net)}
         ELSE {Spoil(s) : s \in air \cup {Signal(who, f, net)}}

LateSignals == {s \in air : s.late}

NetworkInit == /\ ServerInit /\ A!StationInit /\ B!StationInit
               /\ count = 0 /\ air = {} /\ losses = 0 /\ resets = 0

-----------------------------------------------------------------------------
(* Timers.                                                                  *)
ServerExpires == /\ count = 0
                 /\ Tick
                 /\ count' = timer'
                 /\ Transmit("server", sent', OwnNet)
                 /\ UNCHANGED <<aVars, bVars>>

ClientsMayExpire == count > 0 /\ LateSignals = {}

AExpires == /\ ClientsMayExpire
            /\ A!Expire
            /\ Transmit("A", sentA', netIdA)
            /\ UNCHANGED <<serverVars, bVars>>
BExpires == /\ ClientsMayExpire
            /\ B!Expire
            /\ Transmit("B", sentB', netIdB)
            /\ UNCHANGED <<serverVars, aVars>>

(* Time goes on when no timer is due and no frame is overdue. *)
SlotPasses == /\ \A s \in air : ~s.late /\ s.from # "server"
              /\ count > 0 /\ count' = count - 1
              /\ A!Pass /\ B!Pass
              /\ air' = {[s EXCEPT !.late = TRUE] : s \in air}
              /\ UNCHANGED vars

-----------------------------------------------------------------------------
(* Reception.                                                               *)

(* What the octets of some frame leave in the address of a join request.    *)
Torn == Macs \ Devices

(* A client's STATUS as the server's queue holds it. *)
StatusOf(s) ==
  [src  |-> s.frame.src,
   dst  |-> IF s.from = "A" THEN DestA ELSE DestB,
   own  |-> s.own,
   body |-> s.frame.msg.text]

ServerHears(s) ==
  /\ \/ /\ s.spoiled
        /\ \E m \in Torn : RxOther(m)
     \/ /\ ~s.spoiled /\ s.frame.kind = "JOINREQ"
        /\ RxJoinReq(IF s.from = "A" THEN MacA ELSE MacB, 1, s.frame.net = OwnNet)
     \/ /\ ~s.spoiled /\ s.frame.kind = "STATUS" /\ queuePos < QueueLimit
        /\ Store(StatusOf(s))
        /\ heard' = heard \ {s.frame.src} /\ UNCHANGED foreignLeft
     \/ /\ ~s.spoiled /\ s.frame.kind = "STATUS" /\ queuePos >= QueueLimit
        /\ \E m \in Torn : RxOther(m)
  /\ UNCHANGED count

(* The server's frames as a client of that address and id reads them.       *)
(* about: the client whose message a CONTRL frame answers.                  *)
About(f) == IF f.src = ServerId THEN f.dst ELSE f.src
Reply(f, mac, id) ==
  IF f.kind = "JOINRESP"
  THEN [kind |-> "JOINRESP", mine |-> f.mac = mac, status |-> f.status, id |-> f.id]
  ELSE [kind |-> "CONTRL", net |-> OwnNet, about |-> About(f),
        mine |-> f.dst = id /\ (f.body # NoBody \/ f.status = "NOT_FOUND")]

AHears(s) == IF s.spoiled \/ s.from # "server" THEN A!HearOther
             ELSE IF s.frame.kind = "SYNC" THEN A!HearSync(OwnNet)
             ELSE A!HearReply(Reply(s.frame, MacA, slotA))
BHears(s) == IF s.spoiled \/ s.from # "server" THEN B!HearOther
             ELSE IF s.frame.kind = "SYNC" THEN B!HearSync(OwnNet)
             ELSE B!HearReply(Reply(s.frame, MacB, slotB))

(* The first octets of a frame are in the buffers of the others.            *)
Begin(s) ==
  /\ ~s.begun
  /\ air' = (air \ {s}) \cup {[s EXCEPT !.begun = TRUE]}
  /\ \/ s.from # "server" /\ (\E m \in Torn : RxHead(m)) /\ UNCHANGED count
     \/ s.from = "server" /\ UNCHANGED serverVars
  /\ \/ s.from # "A" /\ A!HearOther
     \/ s.from = "A" /\ UNCHANGED aVars
  /\ \/ s.from # "B" /\ B!HearOther
     \/ s.from = "B" /\ UNCHANGED bVars

(* A frame has been received by all devices but those that miss it.         *)
Devs == {"server", "A", "B"}
ArriveBut(s, deaf) ==
  /\ air' = air \ {s}
  /\ \/ "server" \notin deaf /\ ServerHears(s)
     \/ "server" \in deaf /\ UNCHANGED serverVars
  /\ \/ "A" \notin deaf /\ AHears(s)
     \/ "A" \in deaf /\ UNCHANGED aVars
  /\ \/ "B" \notin deaf /\ BHears(s)
     \/ "B" \in deaf /\ UNCHANGED bVars

Arrive(s) == ArriveBut(s, {s.from}) /\ UNCHANGED faultVars

(* The radio loses a frame as a whole.                                      *)
Miss(s) == \E who \in Devs \ {s.from} :
             /\ ~s.begun
             /\ losses < MaxLosses /\ losses' = losses + 1
             /\ UNCHANGED resets
             /\ ArriveBut(s, {s.from, who})

-----------------------------------------------------------------------------
(* The operator and the applications.                                       *)
Asks(state, bits) == state = "JOINREQ" \/ bits.joinRequest

Operator == /\ \/ PressButton /\ UNCHANGED <<count, aVars, bVars>>
               \/ /\ OneAtATime => ~Asks(fsmB, flagsB)
                  /\ A!Press /\ UNCHANGED <<serverVars, bVars>>
               \/ /\ OneAtATime => ~Asks(fsmA, flagsA)
                  /\ B!Press /\ UNCHANGED <<serverVars, aVars>>
            /\ UNCHANGED air

Applications == /\ \E b \in Bodies :
                     \/ A!Post(b) /\ UNCHANGED bVars
                     \/ B!Post(b) /\ UNCHANGED aVars
                /\ UNCHANGED <<serverVars, air>>

(* The board of a client is reset.  It asks to join again, and the server   *)
(* knows it as a duplicate.                                                 *)
Reset == /\ resets < MaxResets
         /\ resets' = resets + 1
         /\ \/ A!Restart /\ UNCHANGED bVars
            \/ B!Restart /\ UNCHANGED aVars
         /\ UNCHANGED <<serverVars, air, losses>>

(* What no device can hold off. *)
Progress == \/ /\ ServerExpires \/ AExpires \/ BExpires \/ SlotPasses
               /\ UNCHANGED faultVars
            \/ \E s \in air : Arrive(s)

NetworkNext == \/ Progress \/ Reset
               \/ \E s \in air : Miss(s)
               \/ /\ (\E s \in air : Begin(s)) \/ Operator \/ Applications
                  /\ UNCHANGED faultVars

NetworkSpec == NetworkInit /\ [][NetworkNext]_networkVars /\ WF_networkVars(Progress)

-----------------------------------------------------------------------------
(* A client that has joined holds the slot that the server's table has for  *)
(* its address, although the slot was told in one frame and the request     *)
(* for it made in another, and either may have been lost.                   *)
Holds(mac, id) == \E i \in Registered : table[i].mac = mac /\ table[i].id = id
SlotAgreement == /\ flagsA.joined => Holds(MacA, slotA)
                 /\ flagsB.joined => Holds(MacB, slotB)

(* The frames of the server and of joined clients never meet in the air:    *)
(* each is sent on the word of a timer of its own, restarted by the last    *)
(* SYNC it heard, and the server's period grows while clients join.         *)
MembersDoNotCollide ==
  \A s, t \in air : s.from # t.from => "JOINREQ" \in {s.frame.kind, t.frame.kind}

(* A client reads the network's parameters from the SYNC itself: no other   *)
(* frame takes its place in the buffer before the client's timer expires.   *)
JoinsThisNetwork ==
  /\ fsmA \in {"JOINREQ", "JOINED"} => netIdA = OwnNet /\ slotTimeA
  /\ fsmB \in {"JOINREQ", "JOINED"} => netIdB = OwnNet /\ slotTimeB

(* The server in its network behaves as module ServerFsm says: clients send *)
(* a STATUS only in answer to a SYNC, once, and only when they are in the   *)
(* table.                                                                   *)
ServerAsAlone == ServerInit /\ [][ServerNext]_vars

(* A message that was handed over is sent after the next SYNC the client    *)
(* hears, whatever it has missed: the server's period, however far it has   *)
(* grown, is longer than the client's slot, so that no SYNC restarts a      *)
(* timer that has not expired, and no answer to the other client takes the  *)
(* SYNC's place in the flag before it has.                                  *)
MessageFollowsSync == [][A!TakesItsTurn /\ B!TakesItsTurn]_networkVars

(* A device of the table is a client: no half-received address of a later   *)
(* frame takes the place of a join request that the server has yet to read. *)
MembersAreClients == \A i \in Registered : table[i].mac \in {MacA, MacB}

-----------------------------------------------------------------------------
(* The messages a client has handed over that are not answered, wherever    *)
(* they or their answers are now.                                           *)
Unread(state, flag_, frame) == state = "JOINED" /\ flag_ = "CONTRL" /\ frame.kind = "CONTRL"
                               /\ frame.mine
Count(P) == IF P THEN 1 ELSE 0
Owed(id, ready) ==
  IF id = 0 THEN 0 ELSE
    Count(ready)
  + Cardinality({s \in air : s.frame.kind = "STATUS" /\ s.frame.src = id})
  + Cardinality({k \in 0 .. (queuePos - 1) : queue[k].src = id})
  + Count(fsm = "CONTROLMSG" /\ handling.src = id)
  + Cardinality({s \in air : s.frame.kind = "CONTRL" /\ About(s.frame) = id})
  + Count(Unread(fsmA, flagA, bufA) /\ bufA.about = id)
  + Count(Unread(fsmB, flagB, bufB) /\ bufB.about = id)

OwedA == Owed(slotA, flagsA.appReady)
OwedB == Owed(slotB, flagsB.appReady)

(* No message and no answer gets lost on its way, from the flag of the      *)
(* thread through the air, the queue, the server's static variables and the *)
(* one buffer of the receiver: a message is settled only by a client whose  *)
(* timer reads the answer out of its buffer before any octet of another     *)
(* frame falls into it.                                                     *)
ReadsAnswer(id) ==
  \/ /\ Unread(fsmA, flagA, bufA) /\ bufA.about = id
     /\ flagA' = "CLEAR" /\ flagsA'.netReady
  \/ /\ Unread(fsmB, flagB, bufB) /\ bufB.about = id
     /\ flagB' = "CLEAR" /\ flagsB'.netReady
AnswersAreRead ==
  [][ /\ OwedA' < OwedA => ReadsAnswer(slotA)
      /\ OwedB' < OwedB => ReadsAnswer(slotB) ]_networkVars

(* The network implements the delivery of messages: every message that a    *)
(* client's application hands over is answered, once, whatever the other    *)
(* client does meanwhile.                                                   *)
Service == INSTANCE Delivery WITH
             Clients <- {"A", "B"},
             owed <- [c \in {"A", "B"} |-> IF c = "A" THEN OwedA ELSE OwedB]
DeliversMessages == Service!Spec

=============================================================================
