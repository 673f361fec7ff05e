------------------------------- MODULE Messages -------------------------------
(***************************************************************************)
(* The frames of the protocol, octet by octet, as the functions of         *)
(* API/src/comms_protocol.c and comms_network_sync_message make and read   *)
(* them.  Words are little-endian and the structures are packed.           *)
(***************************************************************************)
EXTENDS Integers, SequencesExt

CR == 13    \* '\r'
LT == 116   \* 't'
Terminator == <<CR, LT>>   \* COMMS_MESSAGE_TERMINATOR

SyncType     == 1
JoinReqType  == 2
JoinRespType == 3
StatusType   == 4
ControlType  == 6

Word(n)   == <<n % 256, n \div 256>>
Zeros(n)  == [k \in 1 .. n |-> 0]
Pad(s, n) == s \o Zeros(n - Len(s))

(* comms_checksum, comms_network_checksum: the sum, in an octet, of the     *)
(* octets behind the fixed header.                                          *)
Checksum(octets) ==
  LET sum[n \in 0 .. Len(octets)] == IF n = 0 THEN 0 ELSE (sum[n - 1] + octets[n]) % 256
  IN sum[Len(octets)]

(* A frame: preamble, type and status, the length of what follows, its      *)
(* checksum, and what follows, which ends with the terminator.              *)
Frame(preamble, type, status, fields) ==
  LET rest == fields \o Terminator
  IN preamble \o <<16 * type + status, Len(rest), Checksum(rest)>> \o rest

(* comms_network_sync_message, with the text "sync".                        *)
SyncMessage(net, time) ==
  Frame(<<170, 17>>, SyncType, 0,
        Word(net) \o <<1>> \o Word(time) \o <<2>> \o <<115, 121, 110, 99>>)

(* strncpy of an address: what follows a zero octet is replaced by zeros.   *)
CopyAddress(mac) == [k \in DOMAIN mac |-> IF \E j \in 1 .. k : mac[j] = 0 THEN 0 ELSE mac[k]]

(* comms_joinreq_options and comms_joinreq_message.                         *)
JoinReqMessage(mac, net, slots, user, password) ==
  LET options == 32 + (IF slots = 0 THEN 0 ELSE 16)
  IN Frame(<<187, 17>>, JoinReqType, 0,
           CopyAddress(mac) \o Zeros(6) \o Word(net) \o <<0, options, slots>>
               \o Pad(user, 10) \o Pad(password, 10))

(* ltoa of the id, which has become a signed octet.                         *)
Digits(n) == IF n < 10 THEN <<48 + n>>
             ELSE IF n < 100 THEN <<48 + (n \div 10), 48 + (n % 10)>>
             ELSE <<48 + (n \div 100), 48 + ((n \div 10) % 10), 48 + (n % 10)>>
Decimal(id) == IF id < 128 THEN Digits(id) ELSE <<45>> \o Digits(256 - id)

(* comms_set_joinresp_message_status and comms_joinresp_message.            *)
JoinRespMessage(status, server, mac, net, id) ==
  Frame(<<187, 34>>, JoinRespType, status, server \o mac \o Word(net) \o <<1>> \o Decimal(id))

(* comms_status_message.                                                    *)
StatusMessage(net, slot, dst, text) ==
  Frame(<<204, 17>>, StatusType, 0, Word(net) \o <<slot, dst>> \o text)

(* comms_control_message.                                                   *)
ControlMessage(net, status, src, dst, text) ==
  Frame(<<204, 34>>, ControlType, status, Word(net) \o <<1, src, dst>> \o text)

(* What a device may say, and the frame that says it.  An application's     *)
(* text is shorter than NET_DATA_LENGTH less the terminator.                *)
Octets    == 0 .. 255
Words     == 0 .. 65535
Addresses == [1 .. 6 -> Octets]
Texts     == {t \in Seq(1 .. 255) : Len(t) < 62}
Names     == [1 .. 10 -> Octets]

Syncs     == [kind : {"SYNC"}, net : Words, time : Words, access : {2}]
JoinReqs  == [kind : {"JOINREQ"}, mac : {a \in Addresses : CopyAddress(a) = a},
              net : Words, slots : Octets, user : Names, password : Names]
JoinResps == [kind : {"JOINRESP"}, status : 0 .. 15, server : Addresses, mac : Addresses,
              net : Words, id : Octets]
Statuses  == [kind : {"STATUS"}, net : Words, src : Octets, dst : Octets, text : Texts]
Controls  == [kind : {"CONTRL"}, net : Words, status : 0 .. 15, src : Octets, dst : Octets,
              text : Texts]

Saying(o, s) ==
  \/ s \in Syncs     /\ o = SyncMessage(s.net, s.time)
  \/ s \in JoinReqs  /\ o = JoinReqMessage(s.mac, s.net, s.slots, s.user, s.password)
  \/ s \in JoinResps /\ o = JoinRespMessage(s.status, s.server, s.mac, s.net, s.id)
  \/ s \in Statuses  /\ o = StatusMessage(s.net, s.src, s.dst, s.text)
  \/ s \in Controls  /\ o = ControlMessage(s.net, s.status, s.src, s.dst, s.text)

-----------------------------------------------------------------------------
(* Readers.  m[k] is the octet k of a buffer, counted from 1.               *)
WordAt(m, k)   == m[k] + 256 * m[k + 1]
TypeOf(m)      == m[3] \div 16
LengthOf(m)    == m[4]

(* atoi: the digits from octet k on, up to the first octet that is none. *)
IsDigit(c) == c \in 48 .. 57
DigitsAt(m, k) == CHOOSE d \in 0 .. (Len(m) + 1 - k) :
                    /\ \A j \in 0 .. (d - 1) : IsDigit(m[k + j])
                    /\ k + d <= Len(m) => ~IsDigit(m[k + d])
NumberAt(m, k) ==
  LET value[n \in 0 .. DigitsAt(m, k)] ==
        IF n = 0 THEN 0 ELSE 10 * value[n - 1] + (m[k + n - 1] - 48)
  IN value[DigitsAt(m, k)]

(* Mutant of IdAt: the sign is not understood.                              *)
IdUnsigned(m, k) == NumberAt(m, k) % 256

IdAt(m, k) == IF m[k] = 45 THEN (256 - NumberAt(m, k + 1)) % 256 ELSE NumberAt(m, k) % 256

(* get_sync_data *)
ReadSync(m) == [kind |-> "SYNC", net |-> WordAt(m, 6), time |-> WordAt(m, 9), access |-> m[11]]

(* comms_get_joinreq_data *)
ReadJoinReq(m) == [kind |-> "JOINREQ", mac |-> SubSeq(m, 6, 11), net |-> WordAt(m, 18),
                   slots |-> m[22], user |-> SubSeq(m, 23, 32), password |-> SubSeq(m, 33, 42)]

(* comms_get_joinresp_data *)
ReadJoinResp(m) == [kind |-> "JOINRESP", status |-> m[3] % 16, mac |-> SubSeq(m, 12, 17),
                    id |-> IdAt(m, 21)]

(* comms_get_status_message: as many octets of text as the length says.     *)
TextLength(m) == IF LengthOf(m) >= 6 THEN LengthOf(m) - 6 ELSE 6 - LengthOf(m)
ReadStatus(m) == [kind |-> "STATUS", net |-> WordAt(m, 6), src |-> m[8], dst |-> m[9],
                  text |-> SubSeq(m, 10, 9 + TextLength(m))]

(* comms_get_contrl_data: the text ends at the next zero octet, less two.   *)
StrLen(m, k) == (CHOOSE j \in k .. Len(m) : m[j] = 0 /\ \A i \in k .. (j - 1) : m[i] # 0) - k
ReadControl(m) == [kind |-> "CONTRL", net |-> WordAt(m, 6), src |-> m[9], dst |-> m[10],
                   text |-> SubSeq(m, 11, 8 + StrLen(m, 11))]
=============================================================================
