------------------------------- MODULE Station -------------------------------
(***************************************************************************)
(* A client as the network sees it: module ClientFsm with its transmit     *)
(* timer counted in slots.  WTIMER5 counts up to its match value, is set   *)
(* to 0 by its own interrupt (wTimer5Isr, client/main.c), by set_tx_timer  *)
(* and, when SYNC is heard, by rst_timer.                                  *)
(*                                                                         *)
(* The main thread hands its messages over without an interrupt in between *)
(* here: the interrupted hand-over is what ClientFsm itself is about.      *)
(***************************************************************************)
EXTENDS ClientFsm

CONSTANT MaxPresses   \* bound on the presses of the button in a run of the client

VARIABLES count,      \* slots left until the transmit timer expires
          presses     \* how often the button was pressed in this run

NoFlags == [joinRequest |-> FALSE, joined |-> FALSE, appReady |-> FALSE, netReady |-> FALSE]

StationInit == Init /\ count = FirstTick /\ presses = 0

(* wTimer5Isr: the counter starts anew, towards the match value that the    *)
(* state machine leaves.                                                    *)
Expire == /\ count = 0
          /\ Timer
          /\ count' = timer'
          /\ UNCHANGED presses

(* The board is reset: everything begins anew.                              *)
Restart == /\ fsm' = "INIT" /\ timer' = FirstTick /\ flag' = "CLEAR" /\ buf' = Unreadable
           /\ netId' = NoNet /\ slotTime' = FALSE /\ slot' = 0
           /\ flags' = NoFlags /\ reg' = NoFlags
           /\ appMsg' = [text |-> "", len |-> ""] /\ pc' = "idle" /\ arg' = ""
           /\ sent' = NoFrame /\ expired' = TRUE
           /\ count' = FirstTick /\ presses' = 0

(* uart1ISR: a whole frame has been heard. *)
HearSync(n)  == RxSync(n)  /\ count' = timer /\ UNCHANGED presses
HearReply(f) == RxReply(f) /\ UNCHANGED <<count, presses>>
HearOther    == RxOther    /\ UNCHANGED <<count, presses>>

Press == /\ presses < MaxPresses
         /\ presses' = presses + 1
         /\ PressButton
         /\ UNCHANGED count

(* send_application_message of a thread that no interrupt disturbs.  A      *)
(* message that has not been sent yet is replaced.                          *)
Post(b) == /\ pc = "idle" /\ flags.joined
           /\ appMsg' = [text |-> b, len |-> b]
           /\ flags' = [flags EXCEPT !.appReady = TRUE]
           /\ UNCHANGED <<fsm, timer, flag, buf, netId, slotTime, slot, mainVars, sent,
                          expired, count, presses>>

(* A slot passes. *)
Pass == /\ count > 0
        /\ count' = count - 1
        /\ UNCHANGED <<vars, presses>>

-----------------------------------------------------------------------------
(* A joined client that has heard a SYNC, and whose timer has not expired   *)
(* since, is not stopped by the next SYNC, and sends what it has to send    *)
(* when the timer expires.                                                  *)
TakesItsTurn == (fsm = "JOINED" /\ fsm' = "JOINED" /\ ~expired) =>
                  /\ expired' \/ count' <= count
                  /\ expired' /\ flags.appReady => sent'.kind = "STATUS"
=============================================================================
