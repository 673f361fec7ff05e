--------------------------- MODULE ClientFsmProofs ---------------------------
(* Proofs about ClientFsm, for all networks, ids and texts.                 *)
EXTENDS ClientFsm, TLAPS

USE IdsAssumption

(* A cleared buffer is a buffer. *)
LEMMA BlankTypes == Unreadable \in Frames
BY DEF Frames

(* The timer is never set to a slot 0. *)
LEMMA SetTimerTypes ==
  ASSUME TypeOK, NEW time \in BOOLEAN, NEW n \in Nat, SetTimer(time, n)
  PROVE  timer' \in Nat \ {0}
BY DEF TypeOK, SetTimer

(* Setting and clearing one bit of the flags. *)
LEMMA BitsTypes ==
  ASSUME NEW b \in Bits
  PROVE  /\ [b EXCEPT !.joinRequest = TRUE] \in Bits
         /\ [b EXCEPT !.joinRequest = FALSE] \in Bits
         /\ [b EXCEPT !.joined = TRUE, !.joinRequest = FALSE] \in Bits
         /\ [b EXCEPT !.appReady = TRUE] \in Bits
         /\ [b EXCEPT !.appReady = FALSE] \in Bits
         /\ [b EXCEPT !.netReady = TRUE] \in Bits
BY DEF Bits

(* The client starts in its types. *)
LEMMA TypeInit == Init => TypeOK
<1> SUFFICES ASSUME Init PROVE TypeOK OBVIOUS
<1>1. flags \in Bits /\ reg \in Bits BY DEF Init, Bits
<1>2. appMsg \in [text : Text, len : Text] BY DEF Init, Text
<1>3. timer \in Nat \ {0}
  <2>1. timer = 1 BY DEF Init, FirstTick
  <2>2. QED BY <2>1
<1>4. slot \in ClientIds \cup {0} BY DEF Init
<1>5. netId \in Nets \cup {NoNet} /\ buf \in Frames BY BlankTypes DEF Init
<1>6. slotTime \in BOOLEAN /\ expired \in BOOLEAN BY DEF Init
<1>7. fsm \in States /\ flag \in Flag BY DEF Init, States, Flag
<1>8. pc \in {"idle", "copy", "length", "load", "store"} /\ arg \in Text BY DEF Init, Text
<1>9. QED BY <1>1, <1>2, <1>3, <1>4, <1>5, <1>6, <1>7, <1>8 DEF TypeOK

(* The receive interrupt keeps the types. *)
LEMMA ReceiveTypes == ASSUME TypeOK, Receive PROVE TypeOK'
<1> USE DEF TypeOK, RxUnchanged, mainVars, Frames
<1>1. ASSUME NEW n \in Nets, RxSync(n) PROVE TypeOK' BY <1>1 DEF RxSync, Flag
<1>2. ASSUME NEW f \in Responses \cup Controls, RxReply(f) PROVE TypeOK'
  <2>1. f.kind \in Flag BY DEF Responses, Controls, Flag
  <2>2. QED BY <1>2, <2>1 DEF RxReply
<1>3. CASE RxOther BY <1>3 DEF RxOther
<1>4. QED BY <1>1, <1>2, <1>3 DEF Receive

(* Each step of the application thread keeps the types. *)
LEMMA MainTypes == ASSUME TypeOK, Main PROVE TypeOK'
<1> USE BitsTypes DEF TypeOK, MainUnchanged, Text
<1>1. ASSUME NEW b \in Bodies, MainClear(b) PROVE TypeOK' BY <1>1 DEF MainClear
<1>2. CASE MainCopy BY <1>2 DEF MainCopy
<1>3. CASE MainLength BY <1>3 DEF MainLength
<1>4. CASE MainLoad BY <1>4 DEF MainLoad
<1>5. CASE MainStore BY <1>5 DEF MainStore
<1>6. QED BY <1>1, <1>2, <1>3, <1>4, <1>5 DEF Main

(* The sync state keeps the types. *)
LEMMA DevSyncTypes == ASSUME TypeOK, DevSync PROVE TypeOK'
<1>1. CASE fsm' = "JOINREQ"
  <2>1. CASE UNCHANGED <<fsm, timer, netId, slotTime, buf>>
    BY <2>1 DEF DevSync, Tick, TypeOK, mainVars, Flag
  <2>2. CASE \E d \in SyncData : /\ netId' = d.net /\ slotTime' = d.time
                                 /\ SetTimer(d.time, d.access)
             /\ buf' = Unreadable /\ flag' = "CLEAR"
    <3>1. PICK d \in SyncData : /\ netId' = d.net /\ slotTime' = d.time
                                /\ SetTimer(d.time, d.access)
      BY <2>2
    <3>2. d.net \in Nets \cup {NoNet} /\ d.time \in BOOLEAN /\ d.access \in Nat
      <4>1. CASE buf.kind = "SYNC"
        <5>1. buf \in Frames BY DEF TypeOK
        <5>2. buf.net \in Nets
          BY <4>1, <5>1 DEF Frames, SyncOf, Responses, Controls, Unreadable
        <5>3. d = [net |-> buf.net, access |-> AccessSlot, time |-> TRUE]
          BY <4>1 DEF SyncData
        <5>4. QED BY <5>2, <5>3 DEF AccessSlot
      <4>2. CASE buf.kind # "SYNC" BY <4>2 DEF SyncData, AccessSlot
      <4>3. QED BY <4>1, <4>2
    <3>3. timer' \in Nat \ {0} BY <3>1, <3>2, SetTimerTypes
    <3>4. QED
      BY <1>1, <2>2, <3>1, <3>2, <3>3, BlankTypes
      DEF DevSync, Tick, TypeOK, mainVars, States, Flag
  <2>3. QED BY <1>1, <2>1, <2>2 DEF DevSync, Tick
<1>2. CASE fsm' # "JOINREQ"
  BY <1>2 DEF DevSync, Tick, TypeOK, mainVars, Flag, States
<1>3. QED BY <1>1, <1>2

(* The join state keeps the types, whatever id the response offers. *)
LEMMA JoinReqTypes == ASSUME TypeOK, DevJoinReq PROVE TypeOK'
<1>1. CASE SendJoinReq
  BY <1>1, BitsTypes DEF DevJoinReq, Tick, SendJoinReq, TypeOK, mainVars, Flag
<1>2. CASE ReadJoinResp
  <2>1. PICK id \in OfferedIds :
          /\ slot' = id
          /\ \/ /\ id # 0
                /\ flags' = [flags EXCEPT !.joined = TRUE, !.joinRequest = FALSE]
                /\ SetTimer(slotTime, id)
                /\ fsm' = "JOINED"
             \/ id = 0 /\ UNCHANGED <<flags, timer, fsm>>
    BY <1>2 DEF ReadJoinResp
  <2>2. id \in ClientIds \cup {0}
    <3>1. buf \in Frames BY DEF TypeOK
    <3>2. buf.kind = "JOINRESP" => buf.id \in ClientIds \cup {0}
      BY <3>1 DEF Frames, SyncOf, Responses, Controls, Unreadable
    <3>3. QED BY <3>2 DEF OfferedIds
  <2>3. timer' \in Nat \ {0} BY <2>1, <2>2, SetTimerTypes DEF TypeOK
  <2>4. QED
    BY <1>2, <2>1, <2>2, <2>3, BitsTypes, BlankTypes
    DEF DevJoinReq, Tick, ReadJoinResp, TypeOK, mainVars, Flag, States
<1>3. CASE JoinReqIdle
  BY <1>3 DEF DevJoinReq, Tick, JoinReqIdle, TypeOK, mainVars
<1>4. QED BY <1>1, <1>2, <1>3 DEF DevJoinReq

(* The joined state keeps the types. *)
LEMMA JoinedTypes == ASSUME TypeOK, DevJoined PROVE TypeOK'
<1> USE BitsTypes DEF DevJoined, Tick, TypeOK, mainVars, Flag
<1>1. CASE SendStatus BY <1>1 DEF SendStatus
<1>2. CASE ReadContrl
  <2>1. flags' \in Bits BY <1>2 DEF ReadContrl
  <2>2. QED BY <1>2, <2>1 DEF ReadContrl, Frames
<1>3. CASE JoinedIdle BY <1>3 DEF JoinedIdle
<1>4. QED BY <1>1, <1>2, <1>3

(* Every step of the client keeps the types. *)
LEMMA TypeStep == ASSUME TypeOK, [Next]_vars PROVE TypeOK'
<1>1. CASE DevInit BY <1>1 DEF DevInit, Tick, TypeOK, mainVars, States
<1>2. CASE PressButton BY <1>2, BitsTypes DEF PressButton, TypeOK, mainVars
<1>3. CASE UNCHANGED vars BY <1>3 DEF TypeOK, vars, mainVars
<1>4. QED
  BY <1>1, <1>2, <1>3, ReceiveTypes, MainTypes, DevSyncTypes, JoinReqTypes, JoinedTypes
  DEF Next, Timer

(* All the state of the client keeps its type. *)
THEOREM TypeCorrect == Spec => []TypeOK
BY TypeInit, TypeStep, PTL DEF Spec

-----------------------------------------------------------------------------
(* The invariant behind JoinedHasSlot and StatusInOwnSlot.  The application *)
(* thread runs only in a client that has joined, so that the octet it       *)
(* writes back says so; and a SYNC flag that a joined client sees was set   *)
(* after its last expiry, because every expiry clears the flag.             *)
ThreadAfterJoin == /\ pc # "idle" => flags.joined
                   /\ pc = "store" => reg.joined
FreshSync       == fsm = "JOINED" /\ flag = "SYNC" => ~expired
JoinedInv       == TypeOK /\ JoinedHasSlot /\ ThreadAfterJoin /\ FreshSync

(* What the updates of the flags do to the joined bit. *)
LEMMA JoinedBit ==
  ASSUME NEW b \in Bits
  PROVE  /\ [b EXCEPT !.joinRequest = TRUE].joined = b.joined
         /\ [b EXCEPT !.joinRequest = FALSE].joined = b.joined
         /\ [b EXCEPT !.joined = TRUE, !.joinRequest = FALSE].joined = TRUE
         /\ [b EXCEPT !.appReady = TRUE].joined = b.joined
         /\ [b EXCEPT !.appReady = FALSE].joined = b.joined
         /\ [b EXCEPT !.netReady = TRUE].joined = b.joined
BY DEF Bits

(* A step that leaves the state, the slot and the joined bit alone. *)
LEMMA SameJoined ==
  ASSUME JoinedInv, TypeOK', UNCHANGED <<fsm, timer, slotTime, slot, pc, reg>>,
         flags'.joined = flags.joined,
         fsm = "JOINED" /\ flag' = "SYNC" => ~expired'
  PROVE  JoinedInv'
BY DEF JoinedInv, JoinedHasSlot, ThreadAfterJoin, FreshSync

(* A client that has not started has not joined. *)
LEMMA JoinedInit == Init => JoinedInv
<1> SUFFICES ASSUME Init PROVE JoinedInv OBVIOUS
<1>1. ~flags.joined BY DEF Init
<1>2. fsm = "INIT" /\ pc = "idle" BY DEF Init
<1>3. QED BY <1>1, <1>2, TypeInit DEF JoinedInv, JoinedHasSlot, ThreadAfterJoin, FreshSync

(* The application thread runs only in a client that has joined. *)
LEMMA JoinedByMain == ASSUME JoinedInv, TypeOK', Main PROVE JoinedInv'
<1> USE JoinedBit DEF JoinedInv, JoinedHasSlot, ThreadAfterJoin, FreshSync, MainUnchanged
<1>0. flags \in Bits /\ reg \in Bits BY DEF TypeOK
<1>1. ASSUME NEW b \in Bodies, MainClear(b) PROVE JoinedInv' BY <1>1 DEF MainClear
<1>2. CASE MainCopy BY <1>2 DEF MainCopy
<1>3. CASE MainLength BY <1>3 DEF MainLength
<1>4. CASE MainLoad BY <1>4 DEF MainLoad
<1>5. CASE MainStore BY <1>0, <1>5 DEF MainStore
<1>6. QED BY <1>1, <1>2, <1>3, <1>4, <1>5 DEF Main

(* Each state of the machine keeps the invariant. *)
LEMMA JoinedByTimer == ASSUME JoinedInv, TypeOK', Timer PROVE JoinedInv'
<1>0. TypeOK /\ flags \in Bits BY DEF JoinedInv, TypeOK
<1>1. CASE DevInit \/ DevSync
  <2>1. fsm # "JOINED" /\ fsm' # "JOINED" /\ flags' = flags /\ UNCHANGED <<pc, reg>>
    BY <1>1 DEF DevInit, DevSync, Tick, mainVars
  <2>2. QED BY <2>1 DEF JoinedInv, JoinedHasSlot, ThreadAfterJoin, FreshSync
<1>2. CASE Tick("JOINREQ") /\ (SendJoinReq \/ JoinReqIdle)
  <2>1. /\ fsm = "JOINREQ" /\ fsm' = fsm /\ UNCHANGED <<pc, reg>>
        /\ flags'.joined = flags.joined
    BY <1>0, <1>2, JoinedBit DEF Tick, SendJoinReq, JoinReqIdle, mainVars
  <2>2. QED BY <2>1 DEF JoinedInv, JoinedHasSlot, ThreadAfterJoin, FreshSync
<1>3. CASE Tick("JOINREQ") /\ ReadJoinResp
  <2>1. fsm = "JOINREQ" /\ flag' = "CLEAR" /\ UNCHANGED <<pc, reg, slotTime>>
    BY <1>3 DEF Tick, ReadJoinResp, mainVars
  <2>2. pc = "idle" BY <2>1 DEF JoinedInv, JoinedHasSlot, ThreadAfterJoin
  <2>3. CASE fsm' = "JOINED"
    <3>1. PICK id \in OfferedIds : /\ slot' = id /\ id # 0
                                   /\ flags' = [flags EXCEPT !.joined = TRUE,
                                                             !.joinRequest = FALSE]
                                   /\ SetTimer(slotTime, id)
      BY <1>3, <2>1, <2>3 DEF ReadJoinResp
    <3>2. flags'.joined = TRUE BY <1>0, <3>1, JoinedBit
    <3>3. slot' \in ClientIds BY <3>1 DEF TypeOK
    <3>4. slotTime => timer' = slot' BY <3>1 DEF SetTimer
    <3>5. QED
      BY <2>1, <2>2, <2>3, <3>2, <3>3, <3>4
      DEF JoinedInv, JoinedHasSlot, ThreadAfterJoin, FreshSync
  <2>4. CASE fsm' # "JOINED"
    <3>1. flags' = flags /\ fsm' = fsm BY <1>3, <2>4 DEF ReadJoinResp
    <3>2. QED
      BY <2>1, <2>2, <2>4, <3>1 DEF JoinedInv, JoinedHasSlot, ThreadAfterJoin, FreshSync
  <2>5. QED BY <2>3, <2>4
<1>4. CASE DevJoined
  <2>1. flag' = "CLEAR" /\ UNCHANGED <<fsm, timer, slotTime, slot, pc, reg>>
    BY <1>4 DEF DevJoined, Tick, mainVars
  <2>2. flags'.joined = flags.joined
    BY <1>0, <1>4, JoinedBit DEF DevJoined, SendStatus, ReadContrl, JoinedIdle
  <2>3. QED BY <2>1, <2>2, SameJoined
<1>5. QED BY <1>1, <1>2, <1>3, <1>4 DEF Timer, DevJoinReq

(* The invariant is inductive. *)
LEMMA JoinedStep == ASSUME JoinedInv, [Next]_vars PROVE JoinedInv'
<1>0. TypeOK /\ TypeOK' /\ flags \in Bits
  <2>1. TypeOK BY DEF JoinedInv
  <2>2. QED BY <2>1, TypeStep DEF TypeOK
<1>1. CASE Receive
  <2>1. /\ UNCHANGED <<fsm, timer, slotTime, slot, flags, pc, reg>>
        /\ \/ ~expired'
           \/ flag' = flag /\ expired' = expired
           \/ flag' # "SYNC"
    BY <1>1
    DEF Receive, RxSync, RxReply, RxOther, RxUnchanged, mainVars, Responses, Controls
  <2>2. fsm = "JOINED" /\ flag' = "SYNC" => ~expired' BY <2>1 DEF JoinedInv, FreshSync
  <2>3. QED BY <1>0, <2>1, <2>2, SameJoined
<1>2. CASE PressButton
  <2>1. flags'.joined = flags.joined BY <1>0, <1>2, JoinedBit DEF PressButton
  <2>2. QED BY <1>0, <1>2, <2>1, SameJoined DEF PressButton, mainVars, JoinedInv, FreshSync
<1>3. CASE UNCHANGED vars
  BY <1>0, <1>3, SameJoined DEF vars, mainVars, JoinedInv, FreshSync
<1>4. QED BY <1>0, <1>1, <1>2, <1>3, JoinedByMain, JoinedByTimer DEF Next

(* The invariant holds in every state. *)
LEMMA JoinedInvariant == Spec => []JoinedInv
BY JoinedInit, JoinedStep, PTL DEF Spec

(* A joined client has its slot, and the application thread, which writes   *)
(* the flags back from a copy, never undoes the joining.                    *)
THEOREM JoinedClientHasSlot == Spec => []JoinedHasSlot
<1>1. JoinedInv => JoinedHasSlot BY DEF JoinedInv
<1>2. QED BY <1>1, JoinedInvariant, PTL

-----------------------------------------------------------------------------
(* Only the state JOINED sends a STATUS frame, and only there the mark of a *)
(* pending message is taken away.                                           *)
LEMMA OnlyTimerSends ==
  ASSUME Receive \/ PressButton \/ Main \/ UNCHANGED vars
  PROVE  sent' = sent
BY DEF Receive, RxSync, RxReply, RxOther, RxUnchanged, PressButton, Main, MainClear, MainCopy,
       MainLength, MainLoad, MainStore, MainUnchanged, vars

(* A STATUS frame comes from the joined state, from one action of it. *)
LEMMA OnlySendStatus ==
  ASSUME [Next]_vars, sent' # sent, sent'.kind = "STATUS"
  PROVE  fsm = "JOINED" /\ SendStatus
<1>1. Timer BY OnlyTimerSends DEF Next
<1>2. NoFrame.kind # "STATUS" BY DEF NoFrame
<1>3. ~DevInit /\ ~DevSync BY <1>2 DEF DevInit, DevSync
<1>4. ~DevJoinReq BY <1>2 DEF DevJoinReq, SendJoinReq, ReadJoinResp, JoinReqIdle
<1>5. QED BY <1>1, <1>2, <1>3, <1>4 DEF Timer, DevJoined, Tick, ReadContrl, JoinedIdle

(* A message goes out only in the client's own slot: at the first expiry    *)
(* after a SYNC, with the timer set to its id.                              *)
THEOREM SendsInOwnSlot == Spec => StatusInOwnSlot
<1>1. ASSUME JoinedInv, [Next]_vars
      PROVE  [ (sent' # sent /\ sent'.kind = "STATUS") =>
                  /\ ~expired
                  /\ slotTime => timer = slot
                  /\ sent'.src = slot ]_vars
  <2> SUFFICES ASSUME sent' # sent, sent'.kind = "STATUS"
               PROVE ~expired /\ (slotTime => timer = slot) /\ sent'.src = slot
    OBVIOUS
  <2>1. fsm = "JOINED" /\ SendStatus BY <1>1, OnlySendStatus
  <2>2. QED BY <1>1, <2>1 DEF SendStatus, JoinedInv, JoinedHasSlot, FreshSync
<1>2. QED BY <1>1, JoinedInvariant, PTL DEF Spec, StatusInOwnSlot

(* What the updates of the flags do to the mark of a pending message. *)
LEMMA ReadyBit ==
  ASSUME NEW b \in Bits
  PROVE  /\ [b EXCEPT !.joinRequest = TRUE].appReady = b.appReady
         /\ [b EXCEPT !.joinRequest = FALSE].appReady = b.appReady
         /\ [b EXCEPT !.joined = TRUE, !.joinRequest = FALSE].appReady = b.appReady
         /\ [b EXCEPT !.appReady = TRUE].appReady = TRUE
         /\ [b EXCEPT !.netReady = TRUE].appReady = b.appReady
BY DEF Bits

(* A message handed over stays pending until a frame with it is sent,       *)
(* although the thread writes the flags back from a copy.                   *)
THEOREM MessagesStayPending == Spec => PendingUntilSent
<1>1. ASSUME TypeOK, [Next]_vars
      PROVE  [ (flags.appReady /\ ~flags'.appReady) =>
                  sent'.kind = "STATUS" /\ sent'.msg = appMsg ]_vars
  <2> SUFFICES ASSUME flags.appReady, ~flags'.appReady
               PROVE  sent'.kind = "STATUS" /\ sent'.msg = appMsg
    OBVIOUS
  <2>0. flags \in Bits /\ reg \in Bits BY <1>1 DEF TypeOK
  <2>1. ~Receive /\ ~UNCHANGED vars
    BY DEF Receive, RxSync, RxReply, RxOther, RxUnchanged, vars
  <2>2. ~PressButton BY <2>0, ReadyBit DEF PressButton
  <2>3. ~Main
    BY <2>0, ReadyBit DEF Main, MainClear, MainCopy, MainLength, MainLoad, MainStore
  <2>4. ~DevInit /\ ~DevSync BY DEF DevInit, DevSync
  <2>5. ~DevJoinReq
    BY <2>0, ReadyBit DEF DevJoinReq, SendJoinReq, ReadJoinResp, JoinReqIdle
  <2>6. ~ReadContrl /\ ~JoinedIdle BY <2>0, ReadyBit DEF ReadContrl, JoinedIdle
  <2>7. SendStatus
    BY <1>1, <2>1, <2>2, <2>3, <2>4, <2>5, <2>6 DEF Next, Timer, DevJoined
  <2>8. QED BY <2>7 DEF SendStatus
<1>2. QED BY <1>1, TypeCorrect, PTL DEF Spec, PendingUntilSent
=============================================================================
