------------------------------- MODULE Framing -------------------------------
(***************************************************************************)
(* How frames are found in a stream of octets.  The receive interrupt of a *)
(* server (comms_server_recv_it) or a client (comms_client_recv_it, both   *)
(* API/src/comms_network.c) puts each octet into read_message at an index  *)
(* that it keeps, and takes "\rt" for the end of a frame, wherever it      *)
(* stands.  The radio may lose octets.  The timer interrupt reads the      *)
(* buffer between two frames, or does not come in time.                    *)
(***************************************************************************)
EXTENDS Messages, FiniteSets

CONSTANTS
  Frames,       \* the frames that a server and a client may hear: their octets,
                \* what they say, and who is meant to understand them
  DataLength,   \* 64: NET_DATA_LENGTH
  Top,          \* octets of memory from the buffer on that are looked at
  MaxFrames,    \* bound on the frames in a behaviour
  MaxLosses     \* bound on the octets lost in two frames in a row

ASSUME FramesAssumption ==
  /\ DOMAIN Frames = {"server", "client"}
  /\ \A side \in {"server", "client"} : \A f \in Frames[side] :
       /\ Saying(f.octets, f.says)
       /\ f.to = IF f.says.kind \in {"JOINREQ", "STATUS"} THEN "server" ELSE "client"
ASSUME SizeAssumption == DataLength \in 1 .. (Top - 1) /\ Top \in Nat /\ 256 < Top
ASSUME BoundsAssumption == MaxFrames \in Nat /\ MaxLosses \in Nat

VARIABLES
  side,     \* whose receive interrupt this is
  mem,      \* read_message and the octets behind it, up to Top
  index,    \* read_index
  flag,     \* what flag_state was set to for the current frame
  entry,    \* the queue entry that receives a STATUS frame
  hung,     \* the loop of the checksum does not end
  read      \* the state machine has read the current frame

(* The channel, and observations of it.                                     *)
VARIABLES
  wire,     \* octets of the current frame that are still to come
  current,  \* the current frame
  heard,    \* octets of it that were heard
  lost,     \* octets that the current frame lost: their values and places
  before,   \* the same of the frame before it
  frames    \* frames so far

radioVars   == <<wire, current, heard, lost, before, frames>>
machineVars == <<entry, read>>
vars == <<side, mem, index, flag, machineVars, hung, radioVars>>

NoneYet == [octets |-> <<>>, says |-> [kind |-> "none"], to |-> "nobody"]

Init == /\ side \in {"server", "client"}
        /\ mem = Zeros(Top) /\ entry = Zeros(Top) /\ index = 0
        /\ flag = "none" /\ hung = FALSE /\ read = FALSE
        /\ wire = <<>> /\ current = NoneYet /\ heard = <<>> /\ lost = {} /\ before = {} /\ frames = 0

-----------------------------------------------------------------------------
(* The receive interrupt.                                                   *)

(* The octet before read_message holds the application flags: of a client   *)
(* that has joined, has a message and asks to join again, it is a '\r'.     *)
FlagsOctet == IF side = "client" THEN CR ELSE 0

(* Mutant of Ends: the first half of the terminator is not looked at.       *)
EndsAtT(m) == m[index + 1] = LT

Ends(m) == m[index + 1] = LT /\ (IF index = 0 THEN FlagsOctet ELSE m[index]) = CR

(* Mutant of Summed: two fields of the header are mixed up.                 *)
SummedByChecksum(m) == IF side = "server" THEN (index + 1) % 256 ELSE (m[5] + 5) % 256

(* How many octets are summed.  The server counts what it received, the     *)
(* client believes the header.  The loop counts in a signed octet.          *)
Summed(m) == IF side = "server" THEN (index + 1) % 256 ELSE (LengthOf(m) + 5) % 256
Endless(m) == Summed(m) > 127
Valid(m) == m[5] = Checksum(SubSeq(m, 6, Summed(m)))

Kind(m) == CASE side = "server" /\ TypeOf(m) = JoinReqType  -> "JOINREQ"
             [] side = "server" /\ TypeOf(m) = StatusType   -> "STATUS"
             [] side = "client" /\ TypeOf(m) = SyncType     -> "SYNC"
             [] side = "client" /\ TypeOf(m) = JoinRespType -> "JOINRESP"
             [] side = "client" /\ TypeOf(m) = ControlType  -> "CONTRL"
             [] OTHER -> "none"

(* memset of read_message; what lies behind it stays.                       *)
Cleared(m) == Zeros(DataLength) \o SubSeq(m, DataLength + 1, Top)

(* A STATUS frame moves to the queue without its last octet.  There is room *)
(* (module ServerFsm is about the queue's limit).                           *)
Stored(m) == SubSeq(m, 1, index) \o SubSeq(entry, index + 1, Top)

More(m) == /\ ~Ends(m)
           /\ index' = (index + 1) % 256
           /\ mem' = m
           /\ UNCHANGED <<flag, entry, hung>>

Hang(m) == /\ Ends(m) /\ Endless(m)
           /\ hung' = TRUE
           /\ mem' = m
           /\ UNCHANGED <<index, flag, entry>>

(* Mutant of Reject: the index is left where a bad frame ended.             *)
RejectKeepsIndex(m) == /\ Ends(m) /\ ~Endless(m)
                       /\ ~Valid(m) \/ Kind(m) = "none"
                       /\ index' = index
                       /\ mem' = m
                       /\ UNCHANGED <<flag, entry, hung>>

Reject(m) == /\ Ends(m) /\ ~Endless(m)
             /\ ~Valid(m) \/ Kind(m) = "none"
             /\ index' = 0
             /\ mem' = m
             /\ UNCHANGED <<flag, entry, hung>>

Accept(m) == /\ Ends(m) /\ ~Endless(m)
             /\ Valid(m) /\ Kind(m) # "none"
             /\ index' = 0
             /\ flag' = Kind(m)
             /\ mem' = IF Kind(m) = "STATUS" THEN Cleared(m) ELSE m
             /\ entry' = IF Kind(m) = "STATUS" THEN Stored(m) ELSE entry
             /\ UNCHANGED hung

RecvIt(c) == LET m == [mem EXCEPT ![index + 1] = c]
             IN More(m) \/ Hang(m) \/ Reject(m) \/ Accept(m)

-----------------------------------------------------------------------------
(* The channel.                                                             *)
Begin(f) == /\ wire = <<>> /\ ~hung /\ frames < MaxFrames
            /\ wire' = f.octets /\ current' = f
            /\ before' = lost /\ lost' = {} /\ heard' = <<>>
            /\ frames' = frames + 1
            /\ flag' = "none" /\ read' = FALSE
            /\ UNCHANGED <<side, mem, index, entry, hung>>

Hear == /\ wire # <<>> /\ ~hung
        /\ RecvIt(Head(wire))
        /\ wire' = Tail(wire) /\ heard' = Append(heard, Head(wire))
        /\ UNCHANGED <<side, read, current, lost, before, frames>>

Lose == /\ wire # <<>> /\ ~hung
        /\ Cardinality(lost \cup before) < MaxLosses
        /\ lost' = lost \cup {[octet |-> Head(wire), left |-> Len(wire)]}
        /\ wire' = Tail(wire)
        /\ UNCHANGED <<side, mem, index, flag, machineVars, hung, current, heard, before,
                       frames>>

(* What the state machine finds in the buffer or in the queue entry.        *)
Reading == CASE flag = "JOINREQ"  -> ReadJoinReq(mem)
             [] flag = "STATUS"   -> ReadStatus(entry)
             [] flag = "SYNC"     -> ReadSync(mem)
             [] flag = "JOINRESP" -> ReadJoinResp(mem)
             [] flag = "CONTRL"   -> ReadControl(mem)

(* It reads a frame before the next one begins, and clears the memory.      *)
Unread == wire = <<>> /\ flag # "none" /\ ~read /\ ~hung
Read == /\ Unread
        /\ read' = TRUE
        /\ IF flag = "STATUS" THEN entry' = Cleared(entry) /\ UNCHANGED mem
                              ELSE mem' = Cleared(mem) /\ UNCHANGED entry
        /\ UNCHANGED <<side, index, flag, hung, radioVars>>

Next == Hear \/ Lose \/ Read \/ \E f \in Frames[side] : Begin(f)

Spec == Init /\ [][Next]_vars

-----------------------------------------------------------------------------
Ended == wire = <<>> /\ current # NoneYet /\ ~hung

(* The terminator stands in a frame before its end: in an address, in two   *)
(* ids, in a length and a checksum, in an id and the text behind it.        *)
Split(octets) == \E k \in 1 .. (Len(octets) - 2) : octets[k] = CR /\ octets[k + 1] = LT

LostTerminator == \E x \in before : x.left <= Len(Terminator)
LostHeader     == \E x \in lost : x.left > LengthOf(current.octets)

(* A frame without a terminator in it sets the flag if and only if it is    *)
(* meant for this side, whatever was received before, whole, in pieces or   *)
(* damaged: a lost octet costs its own frame, and the next only if it was   *)
(* one of the terminator.                                                   *)
PlainIsHeard ==
  Ended /\ lost = {} /\ ~LostTerminator /\ ~Split(current.octets) =>
    IF current.to = side THEN flag = current.says.kind ELSE flag = "none"

(* What is read of such a frame is what was sent, although the end of an    *)
(* older frame may lie behind it, the header's length is believed and       *)
(* octets behind the header get lost.  A sum cannot notice a lost zero; and *)
(* the client sums as many octets as the header says, so that the place of  *)
(* a lost octet is taken by the one that an older frame left behind.  After *)
(* a lost octet of a header or a lost terminator the sum is met by luck.    *)
(* Only the text of a CONTRL frame may run on.                              *)
Same(g, s) ==
  /\ \A field \in DOMAIN g \ {"text"} : g[field] = s[field]
  /\ g.kind = "STATUS" => g.text = s.text
  /\ g.kind = "CONTRL" => IsPrefix(s.text, g.text)
Replacement    == IF side = "server" THEN 0 ELSE mem[Len(current.octets)]
Unnoticed      == \E x \in lost : x.octet = Replacement
ReadAsSent ==
  Unread /\ ~Split(heard) /\ ~Unnoticed /\ ~LostHeader /\ ~LostTerminator
    => Same(Reading, current.says)

(* Octets are written behind the buffer only by a frame that is longer than *)
(* it, or when an octet of a terminator was lost.                           *)
SpillsOnlyIf == index >= DataLength => Len(current.octets) > DataLength \/ LostTerminator

(* The receive interrupt returns, unless an octet of the terminator was     *)
(* lost; a client also waits for the end of what it takes for a header,     *)
(* behind a terminator in the middle of a frame or with an octet missing.   *)
HangsOnlyIf ==
  hung => LostTerminator \/ (side = "client" /\ (LostHeader \/ Split(heard)))

-----------------------------------------------------------------------------
(* What the repository says and the code does not do.                       *)

(* comms_protocol.c:511: "success: message length of payload".  The text    *)
(* that is handed to the application is the one that was sent.              *)
TextAsSent == Unread /\ flag = "CONTRL" /\ lost = {} => Reading.text = current.says.text
=============================================================================
