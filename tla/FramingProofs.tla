---------------------------- MODULE FramingProofs ----------------------------
(* Theorems about Framing.  At most one octet is lost in two frames in a    *)
(* row; frames are any that the functions of the protocol make.             *)
EXTENDS Framing, MessagesProofs, FiniteSetTheorems

-----------------------------------------------------------------------------
(* The inductive invariant.                                                 *)
AllFrames == Frames["server"] \cup Frames["client"]
Size      == Len(current.octets)
Place(x)  == Size + 1 - x.left

(* What was heard is the part of the frame that has passed, but for the     *)
(* octet that was lost.                                                     *)
NoneLost   == /\ lost = {}
              /\ Len(heard) + Len(wire) = Size
              /\ \A k \in 1 .. Len(heard) : heard[k] = current.octets[k]
OneLost(x) == /\ lost = {x} /\ before = {}
              /\ x.left \in (Len(wire) + 1) .. Size
              /\ x.octet = current.octets[Place(x)]
              /\ Len(heard) + Len(wire) = Size - 1
              /\ \A k \in 1 .. Len(heard) :
                   heard[k] = current.octets[IF k < Place(x) THEN k ELSE k + 1]
ChannelInv ==
  /\ current \in AllFrames \cup {NoneYet}
  /\ wire \in Seq(Octets) /\ heard \in Seq(Octets)
  /\ \A k \in 1 .. Len(wire) : wire[k] = current.octets[Size - Len(wire) + k]
  /\ NoneLost \/ \E x : OneLost(x)
  /\ before = {} \/ \E x : before = {x} /\ x.left \in Nat

TypeInv == /\ side \in {"server", "client"}
           /\ mem \in [1 .. Top -> Octets] /\ entry \in [1 .. Top -> Octets]
           /\ index \in Nat
           /\ flag \in {"none", "JOINREQ", "STATUS", "SYNC", "JOINRESP", "CONTRL"}
           /\ hung \in BOOLEAN /\ read \in BOOLEAN

IndexInv ==
  /\ ~LostTerminator => index <= Len(heard) /\ (hung => index < Len(heard))
  /\ LostTerminator => index <= 127 + Len(heard)
  /\ (wire = <<>> /\ ~hung /\ \A x \in lost : x.left > 2) => index = 0

(* An octet '\r' is still there when the next octet comes. *)
LastInv == (wire # <<>> /\ heard # <<>> /\ ~hung /\ heard[Len(heard)] = CR)
             => index >= 1 /\ mem[index] = CR

(* Until the first terminator the buffer holds what was heard. *)
NoEnd(s)  == \A k \in 1 .. (Len(s) - 1) : ~(s[k] = CR /\ s[k + 1] = LT)
PrefixInv == (~LostTerminator /\ NoEnd(heard)) =>
               /\ index = Len(heard) /\ ~hung /\ flag = "none"
               /\ \A k \in 1 .. Len(heard) : mem[k] = heard[k]

(* The first terminator was the end of the frame. *)
Complete == /\ wire = <<>> /\ current # NoneYet /\ ~hung
            /\ ~LostTerminator /\ ~NoEnd(heard) /\ ~Split(heard)
Kept(o)  == IF flag = "STATUS" THEN \A k \in 1 .. (Len(o) - 1) : entry[k] = o[k]
                               ELSE \A k \in 1 .. Len(o) : mem[k] = o[k]
EndInv == Complete =>
            /\ lost = {} => flag = (IF current.to = side THEN current.says.kind ELSE "none")
            /\ (lost = {} /\ flag # "none" /\ ~read) => Kept(current.octets)
            /\ (lost # {} /\ ~read) => LostHeader \/ Unnoticed \/ flag = "none"

(* The memory behind the index is beyond the reach of an octet. *)
TailInv == \A k \in 257 .. Top : mem[k] = 0 /\ entry[k] = 0

FramingInv == /\ TypeInv /\ ChannelInv /\ IndexInv /\ LastInv /\ PrefixInv /\ EndInv
              /\ TailInv /\ HangsOnlyIf

-----------------------------------------------------------------------------
(* Sequences of octets.                                                     *)
LEMMA LenIs ==
  ASSUME NEW s \in Seq(Octets) PROVE Len(s) \in Nat /\ (s = <<>> <=> Len(s) = 0)
OBVIOUS

(* A sequence with a length is not the empty one. *)
LEMMA Something ==
  ASSUME NEW s, s \in Seq(Octets), Len(s) > 0 PROVE s # <<>>
OBVIOUS

(* What is left of a sequence without its first octet. *)
LEMMA HeadTail ==
  ASSUME NEW s \in Seq(Octets), s # <<>>
  PROVE  /\ Head(s) \in Octets /\ Head(s) = s[1] /\ Tail(s) \in Seq(Octets)
         /\ Len(s) \in Nat \ {0} /\ Len(Tail(s)) = Len(s) - 1
         /\ \A k \in 1 .. (Len(s) - 1) : Tail(s)[k] = s[k + 1]
OBVIOUS

(* A sequence with one more octet. *)
LEMMA Appended ==
  ASSUME NEW s \in Seq(Octets), NEW c \in Octets
  PROVE  /\ Append(s, c) \in Seq(Octets) /\ Len(Append(s, c)) = Len(s) + 1
         /\ \A k \in 1 .. Len(s) : Append(s, c)[k] = s[k]
         /\ Append(s, c)[Len(s) + 1] = c
OBVIOUS

-----------------------------------------------------------------------------
(* Frames.                                                                  *)
LEMMA FrameIs ==
  ASSUME NEW f \in AllFrames
  PROVE  /\ Saying(f.octets, f.says) /\ Proper(f.octets) /\ Len(f.octets) <= 73
         /\ f.to = (IF f.says.kind \in {"JOINREQ", "STATUS"} THEN "server" ELSE "client")
<1>1. /\ Saying(f.octets, f.says)
      /\ f.to = (IF f.says.kind \in {"JOINREQ", "STATUS"} THEN "server" ELSE "client")
  BY FramesAssumption DEF AllFrames
<1>2. Proper(f.octets) /\ Len(f.octets) <= 73 BY <1>1, SayingIsProper
<1>3. QED BY <1>1, <1>2

(* The current frame, if there is one, is proper. *)
LEMMA CurrentIs ==
  ASSUME current \in AllFrames \cup {NoneYet}
  PROVE  /\ current.octets \in Seq(Octets) /\ Size \in 0 .. 73
         /\ current \in AllFrames => Proper(current.octets) /\ Size \in 11 .. 73
         /\ current = NoneYet => Size = 0
         /\ Size > 0 => current \in AllFrames
         /\ current # NoneYet <=> current \in AllFrames
<1>1. CASE current \in AllFrames
  <2>1. Proper(current.octets) /\ Size <= 73 BY <1>1, FrameIs DEF Size
  <2>2. current.octets \in Seq(Octets) /\ Size \in 11 .. 73
    <3>1. current.octets \in Seq(Octets) /\ Len(current.octets) \in 11 .. 127
      BY <2>1 DEF Proper
    <3>2. Size \in 11 .. 127 BY <3>1 DEF Size
    <3>3. QED BY <2>1, <3>1, <3>2
  <2>3. current # NoneYet
    <3>1. SUFFICES ASSUME current = NoneYet PROVE FALSE OBVIOUS
    <3>2. current.octets = <<>> BY <3>1 DEF NoneYet
    <3>3. Size = 0 BY <3>2 DEF Size
    <3>4. QED BY <2>2, <3>3
  <2>4. QED BY <1>1, <2>1, <2>2, <2>3
<1>2. CASE ~(current \in AllFrames)
  <2>1. current = NoneYet BY <1>2
  <2>2. current.octets = <<>> BY <2>1 DEF NoneYet
  <2>3. current.octets \in Seq(Octets) /\ Size = 0 BY <2>2 DEF Size
  <2>4. QED BY <1>2, <2>1, <2>3
<1>3. QED BY <1>1, <1>2

-----------------------------------------------------------------------------
(* The channel.                                                             *)
LEMMA Bounded ==
  ASSUME ChannelInv
  PROVE  /\ Len(heard) \in Nat /\ Len(wire) \in Nat /\ Size \in 0 .. 73
         /\ Len(heard) + Len(wire) <= Size
         /\ heard \in Seq(Octets) /\ wire \in Seq(Octets) /\ current.octets \in Seq(Octets)
         /\ wire # <<>> => Len(wire) > 0
         /\ wire = <<>> => Len(wire) = 0
<1>1. /\ heard \in Seq(Octets) /\ wire \in Seq(Octets)
      /\ current \in AllFrames \cup {NoneYet} BY DEF ChannelInv
<1>2. Len(heard) \in Nat /\ Len(wire) \in Nat /\ (wire = <<>> <=> Len(wire) = 0)
  BY <1>1, LenIs
<1>3. Size \in 0 .. 73 /\ current.octets \in Seq(Octets) BY <1>1, CurrentIs
<1>4. Len(heard) + Len(wire) <= Size
  <2>1. CASE NoneLost BY <1>2, <1>3, <2>1 DEF NoneLost
  <2>2. CASE \E x : OneLost(x) BY <1>2, <1>3, <2>2 DEF OneLost
  <2>3. QED BY <2>1, <2>2 DEF ChannelInv
<1>5. QED BY <1>1, <1>2, <1>3, <1>4

(* What becomes of wire and heard when an octet is heard. *)
HeardStep(c) == /\ c \in Octets /\ c = wire[1] /\ c = current.octets[Size - Len(wire) + 1]
                /\ wire' \in Seq(Octets) /\ Len(wire') = Len(wire) - 1
                /\ \A k \in 1 .. Len(wire') : wire'[k] = wire[k + 1]
                /\ heard' \in Seq(Octets) /\ Len(heard') = Len(heard) + 1
                /\ \A k \in 1 .. Len(heard) : heard'[k] = heard[k]
                /\ heard'[Len(heard) + 1] = c

(* An octet is taken from the wire and heard. *)
LEMMA HearStep ==
  ASSUME ChannelInv, Hear PROVE HeardStep(Head(wire)) /\ Len(wire) > 0
<1>1. /\ wire # <<>> /\ wire' = Tail(wire) /\ heard' = Append(heard, Head(wire)) BY DEF Hear
<1>2. heard \in Seq(Octets) /\ wire \in Seq(Octets) /\ Len(wire) > 0 BY <1>1, Bounded
<1>3. /\ Head(wire) \in Octets /\ Head(wire) = wire[1] /\ wire' \in Seq(Octets)
      /\ Len(wire') = Len(wire) - 1
      /\ \A k \in 1 .. (Len(wire) - 1) : wire'[k] = wire[k + 1]
  BY <1>1, <1>2, HeadTail
<1>4. /\ heard' \in Seq(Octets) /\ Len(heard') = Len(heard) + 1
      /\ \A k \in 1 .. Len(heard) : heard'[k] = heard[k]
      /\ heard'[Len(heard) + 1] = Head(wire)
  BY <1>1, <1>2, <1>3, Appended
<1>5. wire[1] = current.octets[Size - Len(wire) + 1]
  <2>1. 1 \in 1 .. Len(wire) BY <1>2, Bounded
  <2>2. QED BY <2>1 DEF ChannelInv
<1>6. QED BY <1>2, <1>3, <1>4, <1>5 DEF HeardStep

(* Hearing an octet keeps the channel in order. *)
LEMMA HearChannel == ASSUME ChannelInv, Hear PROVE ChannelInv'
<1>1. PICK c : HeardStep(c) /\ Len(wire) > 0 BY HearStep
<1>2. UNCHANGED <<current, lost, before>> BY DEF Hear
<1>3. /\ Len(heard) \in Nat /\ Len(wire) \in Nat /\ Size \in 0 .. 73
      /\ Len(heard) + Len(wire) <= Size
  BY Bounded
<1>4. Size' = Size BY <1>2 DEF Size
<1>5. \A k \in 1 .. Len(wire') : wire'[k] = current.octets[Size - Len(wire') + k]
  <2>1. TAKE k \in 1 .. Len(wire')
  <2>2. k + 1 \in 1 .. Len(wire) /\ wire'[k] = wire[k + 1] BY <1>1, <1>3 DEF HeardStep
  <2>3. wire[k + 1] = current.octets[Size - Len(wire) + (k + 1)] BY <2>2 DEF ChannelInv
  <2>4. Size - Len(wire) + (k + 1) = Size - Len(wire') + k BY <1>1, <1>3 DEF HeardStep
  <2>5. QED BY <2>2, <2>3, <2>4
<1>6. NoneLost => NoneLost'
  <2>1. SUFFICES ASSUME NoneLost PROVE NoneLost' OBVIOUS
  <2>2. Len(heard) + Len(wire) = Size /\ Len(heard') + Len(wire') = Size
    BY <1>1, <1>3, <2>1 DEF NoneLost, HeardStep
  <2>3. \A k \in 1 .. Len(heard') : heard'[k] = current.octets[k]
    <3>1. TAKE k \in 1 .. Len(heard')
    <3>2. CASE k \in 1 .. Len(heard) BY <1>1, <2>1, <3>2 DEF NoneLost, HeardStep
    <3>3. CASE k = Len(heard) + 1
      <4>1. Size - Len(wire) + 1 = k BY <1>3, <2>2, <3>3
      <4>2. QED BY <1>1, <3>3, <4>1 DEF HeardStep
    <3>4. QED BY <1>1, <1>3, <3>2, <3>3 DEF HeardStep
  <2>4. QED BY <1>2, <1>4, <2>1, <2>2, <2>3 DEF NoneLost
<1>7. ASSUME NEW x, OneLost(x) PROVE OneLost(x)'
  <2>1. /\ Place(x)' = Place(x) BY <1>2, <1>4 DEF Place
  <2>2. /\ Len(heard) + Len(wire) = Size - 1 /\ x.left \in (Len(wire) + 1) .. Size
    BY <1>7 DEF OneLost
  <2>3. Len(heard') + Len(wire') = Size - 1 /\ x.left \in (Len(wire') + 1) .. Size
    BY <1>1, <1>3, <2>2 DEF HeardStep
  <2>4. \A k \in 1 .. Len(heard') :
          heard'[k] = current.octets[IF k < Place(x) THEN k ELSE k + 1]
    <3>1. TAKE k \in 1 .. Len(heard')
    <3>2. CASE k \in 1 .. Len(heard) BY <1>1, <1>7, <3>2 DEF OneLost, HeardStep
    <3>3. CASE k = Len(heard) + 1
      <4>1. Size - Len(wire) + 1 = k + 1 /\ ~(k < Place(x))
        BY <1>3, <2>2, <3>3 DEF Place
      <4>2. QED BY <1>1, <3>3, <4>1 DEF HeardStep
    <3>4. QED BY <1>1, <1>3, <3>2, <3>3 DEF HeardStep
  <2>5. QED BY <1>2, <1>4, <1>7, <2>1, <2>3, <2>4 DEF OneLost
<1>8. QED
  <2>1. wire' \in Seq(Octets) /\ heard' \in Seq(Octets) BY <1>1 DEF HeardStep
  <2>2. NoneLost' \/ \E x : OneLost(x)' BY <1>6, <1>7 DEF ChannelInv
  <2>3. before' = before /\ current' = current BY <1>2
  <2>4. /\ current \in AllFrames \cup {NoneYet}
        /\ before = {} \/ \E x : before = {x} /\ x.left \in Nat
    BY DEF ChannelInv
  <2>5. QED BY <1>4, <1>5, <2>1, <2>2, <2>3, <2>4 DEF ChannelInv, AllFrames

(* With at most one octet lost in two frames, the first is lost when none   *)
(* has been.                                                                *)
LEMMA NoneLostYet ==
  ASSUME MaxLosses <= 1, ChannelInv, Lose PROVE lost = {} /\ before = {}
<1>1. \A x : lost \cup before # {x}
  <2>1. SUFFICES ASSUME NEW x, lost \cup before = {x} PROVE FALSE OBVIOUS
  <2>2. Cardinality(lost \cup before) = 1 BY <2>1, FS_Singleton
  <2>3. 1 < MaxLosses BY <2>2 DEF Lose
  <2>4. QED BY <2>3, BoundsAssumption DEF BoundsAssumption
<1>2. lost = {} \/ \E x : lost = {x} /\ before = {} BY DEF ChannelInv, NoneLost, OneLost
<1>3. before = {} \/ \E x : before = {x} BY DEF ChannelInv
<1>4. QED BY <1>1, <1>2, <1>3

(* Losing one does, and the lost octet was the next one on the wire. *)
LEMMA LoseChannel ==
  ASSUME MaxLosses <= 1, ChannelInv, Lose
  PROVE  /\ ChannelInv' /\ NoneLost /\ before' = {}
         /\ \E x : OneLost(x)' /\ x.left = Len(wire) /\ x.octet = Head(wire)
<1>1. lost = {} /\ before = {} BY NoneLostYet
<1>2. /\ wire # <<>> /\ wire' = Tail(wire) /\ UNCHANGED <<current, heard, before>>
      /\ lost' = lost \cup {[octet |-> Head(wire), left |-> Len(wire)]}
  BY DEF Lose
<1>3. PICK x : x = [octet |-> Head(wire), left |-> Len(wire)] OBVIOUS
<1>4. lost' = {x} /\ x.octet = Head(wire) /\ x.left = Len(wire) BY <1>1, <1>2, <1>3
<1>5. /\ Len(heard) \in Nat /\ Len(wire) \in Nat /\ Size \in 0 .. 73 /\ Len(wire) > 0
      /\ wire \in Seq(Octets) /\ heard \in Seq(Octets)
  BY <1>2, Bounded
<1>6. /\ Head(wire) = wire[1] /\ wire' \in Seq(Octets) /\ Len(wire') = Len(wire) - 1
      /\ \A k \in 1 .. (Len(wire) - 1) : wire'[k] = wire[k + 1]
  BY <1>2, <1>5, HeadTail
<1>7. NoneLost BY <1>1 DEF ChannelInv, OneLost
<1>8. Size' = Size /\ Place(x)' = Place(x) BY <1>2 DEF Size, Place
<1>9. Len(heard) + Len(wire) = Size /\ \A k \in 1 .. Len(heard) : heard[k] = current.octets[k]
  BY <1>7 DEF NoneLost
<1>10. OneLost(x)'
  <2>1. x.octet = current.octets[Place(x)]
    <3>1. wire[1] = current.octets[Size - Len(wire) + 1] BY <1>5 DEF ChannelInv
    <3>2. Place(x) = Size - Len(wire) + 1 BY <1>4, <1>5 DEF Place
    <3>3. QED BY <1>4, <1>6, <3>1, <3>2
  <2>2. \A k \in 1 .. Len(heard) : k < Place(x) BY <1>4, <1>5, <1>9 DEF Place
  <2>3. x.left \in (Len(wire') + 1) .. Size /\ Len(heard) + Len(wire') = Size - 1
    BY <1>4, <1>5, <1>6, <1>9
  <2>4. QED BY <1>1, <1>2, <1>4, <1>8, <1>9, <2>1, <2>2, <2>3 DEF OneLost
<1>11. \A k \in 1 .. Len(wire') : wire'[k] = current.octets[Size - Len(wire') + k]
  <2>1. TAKE k \in 1 .. Len(wire')
  <2>2. k + 1 \in 1 .. Len(wire) /\ wire'[k] = wire[k + 1] BY <1>5, <1>6
  <2>3. wire[k + 1] = current.octets[Size - Len(wire) + (k + 1)] BY <2>2 DEF ChannelInv
  <2>4. Size - Len(wire) + (k + 1) = Size - Len(wire') + k BY <1>5, <1>6
  <2>5. QED BY <2>2, <2>3, <2>4
<1>12. ChannelInv'
  <2>1. current \in AllFrames \cup {NoneYet} BY DEF ChannelInv
  <2>2. heard' \in Seq(Octets) /\ current' = current /\ before' = {} BY <1>1, <1>2, <1>5
  <2>3. QED BY <1>6, <1>8, <1>10, <1>11, <2>1, <2>2 DEF ChannelInv, AllFrames
<1>13. QED BY <1>1, <1>2, <1>4, <1>7, <1>10, <1>12

(* A new frame finds the channel empty. *)
LEMMA BeginChannel ==
  ASSUME TypeInv, ChannelInv, NEW f \in Frames[side], Begin(f)
  PROVE  /\ ChannelInv' /\ heard' = <<>> /\ Len(heard)' = 0 /\ wire' # <<>>
         /\ lost # {} => before = {}
<1>1. /\ wire' = f.octets /\ current' = f /\ before' = lost /\ lost' = {} /\ heard' = <<>>
  BY DEF Begin
<1>2. f \in AllFrames BY DEF TypeInv, AllFrames
<1>3. Proper(f.octets) /\ Len(f.octets) <= 73 BY <1>2, FrameIs
<1>4. f.octets \in Seq(Octets) /\ Len(f.octets) \in 11 .. 127 BY <1>3 DEF Proper
<1>5. Size' = Len(f.octets) BY <1>1 DEF Size
<1>6. Len(heard)' = 0 /\ heard' \in Seq(Octets) BY <1>1
<1>7. wire' # <<>>
  <2>1. PICK o : o = f.octets OBVIOUS
  <2>2. o \in Seq(Octets) /\ Len(o) \in 11 .. 127 BY <1>4, <2>1
  <2>3. Len(o) > 0 BY <2>2
  <2>4. o # <<>> BY <2>2, <2>3, Something
  <2>5. QED BY <1>1, <2>1, <2>4
<1>8. NoneLost' BY <1>1, <1>4, <1>5, <1>6 DEF NoneLost
<1>9. \A k \in 1 .. Len(wire') : wire'[k] = current'.octets[Size' - Len(wire') + k]
  BY <1>1, <1>4, <1>5
<1>10. /\ before' = {} \/ \E x : before' = {x} /\ x.left \in Nat
       /\ lost # {} => before = {}
  <2>1. CASE NoneLost BY <1>1, <2>1 DEF NoneLost
  <2>2. ASSUME NEW x, OneLost(x) PROVE lost = {x} /\ before = {} /\ x.left \in Nat
    BY <2>2, Bounded DEF OneLost
  <2>3. QED BY <1>1, <2>1, <2>2 DEF ChannelInv
<1>11. ChannelInv'
  <2>1. current' \in (AllFrames \cup {NoneYet})' BY <1>1, <1>2 DEF AllFrames
  <2>2. wire' \in Seq(Octets) BY <1>1, <1>4
  <2>3. QED BY <1>6, <1>8, <1>9, <1>10, <2>1, <2>2 DEF ChannelInv
<1>12. QED BY <1>1, <1>6, <1>7, <1>10, <1>11

(* The channel without a step. *)
LEMMA StillChannel ==
  ASSUME ChannelInv, UNCHANGED radioVars
  PROVE  ChannelInv'
BY DEF ChannelInv, radioVars, NoneLost, OneLost, Size, Place, AllFrames, NoneYet

-----------------------------------------------------------------------------
(* The memory.                                                              *)
Memory(m) == m \in [1 .. Top -> Octets]

(* memset of read_message clears the first octets and leaves the others. *)
LEMMA ClearedIs ==
  ASSUME NEW m, Memory(m)
  PROVE  /\ Memory(Cleared(m))
         /\ \A k \in 1 .. Top : Cleared(m)[k] = (IF k <= DataLength THEN 0 ELSE m[k])
<1>1. DataLength \in Nat /\ Top \in Nat /\ DataLength < Top /\ DataLength + 1 <= Top
  BY SizeAssumption DEF SizeAssumption
<1>2. m \in Seq(Octets) /\ Len(m) = Top BY <1>1, ArrayIs DEF Memory, Is
<1>3. PICK t : t = SubSeq(m, DataLength + 1, Len(m)) OBVIOUS
<1>4. /\ t \in Seq(Octets) /\ Len(t) = Top - DataLength
      /\ \A k \in 1 .. (Top - DataLength) : t[k] = m[DataLength + k]
  <2>1. DataLength + 1 \in 1 .. (Len(m) + 1) /\ Len(m) + 1 - (DataLength + 1) = Top - DataLength
    BY <1>1, <1>2
  <2>2. /\ t \in Seq(Octets) /\ Len(t) = Top - DataLength
        /\ \A k \in 1 .. (Top - DataLength) : t[k] = m[(DataLength + 1) + k - 1]
    BY <1>2, <1>3, <2>1, SubSeqOctets
  <2>3. QED BY <1>1, <2>2
<1>5. Is(t, Top - DataLength) BY <1>1, <1>4 DEF Is
<1>6. Is(Zeros(DataLength), DataLength) /\ \A k \in 1 .. DataLength : Zeros(DataLength)[k] = 0
  BY <1>1, ZerosAre
<1>7. PICK u : u = Zeros(DataLength) \o t OBVIOUS
<1>8. u = Cleared(m) BY <1>2, <1>3, <1>7 DEF Cleared
<1>9. Joins(u, Zeros(DataLength), DataLength, t, Top - DataLength) BY <1>5, <1>6, <1>7, Parts
<1>10. u \in Seq(Octets) /\ Len(u) = Top BY <1>1, <1>9 DEF Joins, Is
<1>11. Memory(u) BY <1>1, <1>10 DEF Memory
<1>12. ASSUME NEW k \in 1 .. Top PROVE u[k] = IF k <= DataLength THEN 0 ELSE m[k]
  <2>1. CASE k <= DataLength
    <3>1. k \in 1 .. DataLength BY <2>1
    <3>2. QED BY <1>6, <1>9, <2>1, <3>1 DEF Joins
  <2>2. CASE ~(k <= DataLength)
    <3>1. k - DataLength \in 1 .. (Top - DataLength) /\ DataLength + (k - DataLength) = k
      BY <1>1, <2>2
    <3>2. u[DataLength + (k - DataLength)] = t[k - DataLength] BY <1>9, <3>1 DEF Joins
    <3>3. t[k - DataLength] = m[DataLength + (k - DataLength)] BY <1>4, <3>1
    <3>4. QED BY <2>2, <3>1, <3>2, <3>3
  <2>3. QED BY <2>1, <2>2
<1>13. QED BY <1>8, <1>11, <1>12

(* memcpy to the queue replaces as many octets as the index says. *)
LEMMA StoredIs ==
  ASSUME NEW m, Memory(m), Memory(entry), index \in 0 .. 255
  PROVE  /\ Memory(Stored(m))
         /\ \A k \in 1 .. Top : Stored(m)[k] = (IF k <= index THEN m[k] ELSE entry[k])
<1>1. Top \in Nat /\ index \in Nat /\ index < Top BY SizeAssumption DEF SizeAssumption
<1>2. /\ m \in Seq(Octets) /\ Len(m) = Top /\ entry \in Seq(Octets) /\ Len(entry) = Top
  BY <1>1, ArrayIs DEF Memory, Is
<1>3. PICK t : t = SubSeq(entry, index + 1, Len(entry)) OBVIOUS
<1>4. /\ t \in Seq(Octets) /\ Len(t) = Top - index
      /\ \A k \in 1 .. (Top - index) : t[k] = entry[index + k]
  <2>1. index + 1 \in 1 .. (Len(entry) + 1) /\ Len(entry) + 1 - (index + 1) = Top - index
    BY <1>1, <1>2
  <2>2. /\ t \in Seq(Octets) /\ Len(t) = Top - index
        /\ \A k \in 1 .. (Top - index) : t[k] = entry[(index + 1) + k - 1]
    BY <1>2, <1>3, <2>1, SubSeqOctets
  <2>3. \A k \in 1 .. (Top - index) : (index + 1) + k - 1 = index + k BY <1>1
  <2>4. QED BY <2>2, <2>3
<1>5. PICK s : s = SubSeq(m, 1, index) OBVIOUS
<1>6. s \in Seq(Octets) /\ Len(s) = index /\ \A k \in 1 .. index : s[k] = m[k]
  BY <1>1, <1>2, <1>5
<1>7. Is(t, Top - index) /\ Is(s, index) BY <1>1, <1>4, <1>6 DEF Is
<1>8. PICK u : u = s \o t OBVIOUS
<1>9. u = Stored(m) BY <1>2, <1>3, <1>5, <1>8 DEF Stored
<1>10. Joins(u, s, index, t, Top - index) BY <1>7, <1>8, Parts
<1>11. u \in Seq(Octets) /\ Len(u) = Top BY <1>1, <1>10 DEF Joins, Is
<1>12. Memory(u) BY <1>1, <1>11 DEF Memory
<1>13. ASSUME NEW k \in 1 .. Top PROVE u[k] = IF k <= index THEN m[k] ELSE entry[k]
  <2>1. CASE k <= index
    <3>1. k \in 1 .. index BY <1>1, <2>1
    <3>2. QED BY <1>6, <1>10, <2>1, <3>1 DEF Joins
  <2>2. CASE ~(k <= index)
    <3>1. k - index \in 1 .. (Top - index) /\ index + (k - index) = k BY <1>1, <2>2
    <3>2. u[index + (k - index)] = t[k - index] BY <1>10, <3>1 DEF Joins
    <3>3. t[k - index] = entry[index + (k - index)] BY <1>4, <3>1
    <3>4. QED BY <2>2, <3>1, <3>2, <3>3
  <2>3. QED BY <2>1, <2>2
<1>14. QED BY <1>9, <1>12, <1>13

-----------------------------------------------------------------------------
(* One octet in the receive interrupt.                                      *)
TheOctet == [mem EXCEPT ![index + 1] = Head(wire)]

(* The index does not wrap. *)
LEMMA IndexSmall ==
  ASSUME TypeInv, ChannelInv, IndexInv
  PROVE  /\ index \in 0 .. 200 /\ index + 1 \in 1 .. Top /\ (index + 1) % 256 = index + 1
         /\ ~LostTerminator => index <= Len(heard)
<1>1. /\ Len(heard) \in Nat /\ Len(wire) \in Nat /\ Size \in 0 .. 73
      /\ Len(heard) + Len(wire) <= Size
  BY Bounded
<1>2. /\ index \in Nat
      /\ ~LostTerminator => index <= Len(heard)
      /\ LostTerminator => index <= 127 + Len(heard)
  BY DEF TypeInv, IndexInv
<1>3. index \in 0 .. 200 BY <1>1, <1>2
<1>4. index + 1 \in 1 .. Top BY <1>3, SizeAssumption DEF SizeAssumption
<1>5. (index + 1) % 256 = index + 1 BY <1>3
<1>6. QED BY <1>2, <1>3, <1>4, <1>5

(* The new octet goes to its place and to no other. *)
LEMMA TheOctetIs ==
  ASSUME TypeInv, ChannelInv, IndexInv, Hear
  PROVE  /\ Memory(TheOctet) /\ TheOctet[index + 1] = Head(wire)
         /\ \A k \in 1 .. Top : k # index + 1 => TheOctet[k] = mem[k]
<1>1. HeardStep(Head(wire)) BY HearStep
<1>2. Head(wire) \in Octets /\ index + 1 \in 1 .. Top BY <1>1, IndexSmall DEF HeardStep
<1>3. mem \in [1 .. Top -> Octets] BY DEF TypeInv
<1>4. QED BY <1>2, <1>3 DEF TheOctet, Memory

(* The four things that can happen. *)
LEMMA Outcomes ==
  ASSUME Hear
  PROVE  /\ More(TheOctet) \/ Hang(TheOctet) \/ Reject(TheOctet) \/ Accept(TheOctet)
         /\ wire # <<>> /\ ~hung /\ UNCHANGED <<side, read, current, lost, before, frames>>
BY DEF Hear, RecvIt, TheOctet

(* An octet keeps the types, and the index grows by one at most. *)
LEMMA HearTypes ==
  ASSUME TypeInv, ChannelInv, IndexInv, Hear
  PROVE  /\ TypeInv' /\ index' <= index + 1
         /\ hung' => index' = index
<1>1. Memory(TheOctet) BY TheOctetIs
<1>2. index \in 0 .. 200 /\ (index + 1) % 256 = index + 1 BY IndexSmall
<1>3. /\ side \in {"server", "client"} /\ Memory(mem) /\ Memory(entry)
      /\ flag \in {"none", "JOINREQ", "STATUS", "SYNC", "JOINRESP", "CONTRL"}
      /\ hung \in BOOLEAN /\ read \in BOOLEAN
  BY DEF TypeInv, Memory
<1>4. Memory(Cleared(TheOctet)) BY <1>1, ClearedIs
<1>5. Memory(Stored(TheOctet)) BY <1>1, <1>2, <1>3, StoredIs
<1>6. ~hung /\ side' = side /\ read' = read BY Outcomes
<1>7. CASE More(TheOctet) BY <1>1, <1>2, <1>3, <1>6, <1>7 DEF More, TypeInv, Memory
<1>8. CASE Hang(TheOctet) BY <1>1, <1>2, <1>3, <1>6, <1>8 DEF Hang, TypeInv, Memory
<1>9. CASE Reject(TheOctet) BY <1>1, <1>2, <1>3, <1>6, <1>9 DEF Reject, TypeInv, Memory
<1>10. CASE Accept(TheOctet)
  <2>1. Kind(TheOctet) \in {"none", "JOINREQ", "STATUS", "SYNC", "JOINRESP", "CONTRL"}
    BY DEF Kind
  <2>2. index' = 0 /\ flag' = Kind(TheOctet) /\ hung' = hung BY <1>10 DEF Accept
  <2>3. Memory(mem')
    <3>1. mem' = IF Kind(TheOctet) = "STATUS" THEN Cleared(TheOctet) ELSE TheOctet
      BY <1>10 DEF Accept
    <3>2. QED BY <1>1, <1>4, <3>1
  <2>4. Memory(entry')
    <3>1. entry' = IF Kind(TheOctet) = "STATUS" THEN Stored(TheOctet) ELSE entry
      BY <1>10 DEF Accept
    <3>2. QED BY <1>3, <1>5, <3>1
  <2>5. QED BY <1>2, <1>3, <1>6, <2>1, <2>2, <2>3, <2>4 DEF TypeInv, Memory
<1>11. QED BY <1>7, <1>8, <1>9, <1>10, Outcomes

(* A buffer has something in the place of the octet before the new one.     *)
LEMMA EndsIs ==
  ASSUME TypeInv, ChannelInv, IndexInv, Hear
  PROVE  Ends(TheOctet) <=> Head(wire) = LT /\ (IF index = 0 THEN FlagsOctet ELSE mem[index]) = CR
<1>1. TheOctet[index + 1] = Head(wire) BY TheOctetIs
<1>2. index # 0 => TheOctet[index] = mem[index]
  <2>1. index \in 0 .. 200 /\ index + 1 \in 1 .. Top BY IndexSmall
  <2>2. index # 0 => index \in 1 .. Top /\ index # index + 1
    BY <2>1, SizeAssumption DEF SizeAssumption
  <2>3. QED BY <2>2, TheOctetIs
<1>3. QED BY <1>1, <1>2 DEF Ends

(* An octet that ends nothing is only stored. *)
LEMMA NotEnds ==
  ASSUME Hear, ~Ends(TheOctet)
  PROVE  More(TheOctet)
BY Outcomes DEF Hang, Reject, Accept

(* A '\r' that was heard last stays in front of the index. *)
LEMMA HearLast ==
  ASSUME TypeInv, ChannelInv, IndexInv, LastInv, Hear
  PROVE  LastInv'
<1>1. SUFFICES ASSUME heard'[Len(heard')] = CR PROVE index' >= 1 /\ mem'[index'] = CR
  BY DEF LastInv
<1>2. /\ Len(heard') = Len(heard) + 1 /\ heard'[Len(heard) + 1] = Head(wire)
  BY HearStep DEF HeardStep
<1>3. Head(wire) = CR BY <1>1, <1>2
<1>4. ~Ends(TheOctet) BY <1>3, EndsIs DEF CR, LT
<1>5. More(TheOctet) BY <1>4, NotEnds
<1>6. index' = index + 1 /\ mem' = TheOctet BY <1>5, IndexSmall DEF More
<1>7. mem'[index'] = CR BY <1>3, <1>6, TheOctetIs
<1>8. QED BY <1>6, <1>7, IndexSmall

(* What is heard last of a frame whose terminator is whole. *)
LEMMA TerminatorHeard ==
  ASSUME ChannelInv, Hear, Len(wire) = 1, \A x \in lost : x.left > 2
  PROVE  /\ Len(heard) \in Nat \ {0} /\ heard[Len(heard)] = CR /\ Head(wire) = LT
         /\ current \in AllFrames
<1>1. /\ Len(heard) \in Nat /\ Size \in 0 .. 73 BY Bounded
<1>2. current \in AllFrames
  <2>1. Size > 0 BY <1>1, Bounded
  <2>2. QED BY <2>1, CurrentIs DEF ChannelInv
<1>3. Proper(current.octets) /\ Size \in 11 .. 73 BY <1>2, CurrentIs
<1>4. current.octets[Size - 1] = CR /\ current.octets[Size] = LT BY <1>3 DEF Proper, Size
<1>5. Head(wire) = LT
  <2>1. Head(wire) = current.octets[Size - Len(wire) + 1] BY HearStep DEF HeardStep
  <2>2. Size - Len(wire) + 1 = Size BY <1>3
  <2>3. QED BY <1>4, <2>1, <2>2
<1>6. CASE NoneLost
  <2>1. Len(heard) = Size - 1 BY <1>1, <1>6 DEF NoneLost
  <2>2. heard[Len(heard)] = current.octets[Len(heard)] BY <1>3, <1>6, <2>1 DEF NoneLost
  <2>3. QED BY <1>2, <1>3, <1>4, <1>5, <2>1, <2>2
<1>7. ASSUME NEW x, OneLost(x) PROVE Len(heard) \in Nat \ {0} /\ heard[Len(heard)] = CR
  <2>1. Len(heard) = Size - 2 BY <1>1, <1>7 DEF OneLost
  <2>2. x.left > 2 /\ x.left \in Nat BY <1>7, <1>3 DEF OneLost
  <2>3. ~(Len(heard) < Place(x)) BY <1>3, <2>1, <2>2 DEF Place
  <2>4. heard[Len(heard)] = current.octets[Len(heard) + 1] BY <1>3, <1>7, <2>1, <2>3 DEF OneLost
  <2>5. QED BY <1>3, <1>4, <2>1, <2>4
<1>8. QED BY <1>2, <1>5, <1>6, <1>7 DEF ChannelInv

(* The index does not outrun what was heard, and a whole terminator resets  *)
(* it.                                                                      *)
LEMMA HearIndex ==
  ASSUME TypeInv, ChannelInv, IndexInv, LastInv, Hear
  PROVE  IndexInv'
<1>1. /\ Len(heard) \in Nat /\ Len(heard') = Len(heard) + 1 /\ index \in Nat
      /\ Len(wire) \in Nat /\ Len(wire') = Len(wire) - 1 /\ wire' \in Seq(Octets)
      /\ wire # <<>> /\ heard \in Seq(Octets)
  <2>1. /\ Len(heard') = Len(heard) + 1 /\ Len(wire') = Len(wire) - 1
        /\ wire' \in Seq(Octets)
    BY HearStep DEF HeardStep
  <2>2. Len(heard) \in Nat /\ Len(wire) \in Nat /\ heard \in Seq(Octets) BY Bounded
  <2>3. index \in Nat /\ wire # <<>> BY Outcomes DEF TypeInv
  <2>4. QED BY <2>1, <2>2, <2>3
<1>2. index' <= index + 1 /\ (hung' => index' = index) /\ index' \in Nat
  BY HearTypes DEF TypeInv
<1>3. UNCHANGED <<lost, before>> /\ ~hung BY Outcomes
<1>4. LostTerminator' <=> LostTerminator BY <1>3 DEF LostTerminator
<1>5. ~LostTerminator' => index' <= Len(heard') /\ (hung' => index' < Len(heard'))
  BY <1>1, <1>2, <1>4 DEF IndexInv
<1>6. LostTerminator' => index' <= 127 + Len(heard') BY <1>1, <1>2, <1>4 DEF IndexInv
<1>7. ASSUME wire' = <<>>, ~hung', \A x \in lost' : x.left > 2 PROVE index' = 0
  <2>1. Len(wire) = 1
    <3>1. Len(wire') = 0 BY <1>1, <1>7, LenIs
    <3>2. QED BY <1>1, <3>1
  <2>2. /\ Len(heard) \in Nat \ {0} /\ heard[Len(heard)] = CR /\ Head(wire) = LT
    BY <1>3, <1>7, <2>1, TerminatorHeard
  <2>3. heard # <<>> BY <1>1, <2>2, LenIs
  <2>4. index >= 1 /\ mem[index] = CR BY <1>1, <1>3, <2>2, <2>3 DEF LastInv
  <2>5. index # 0 BY <1>1, <2>4
  <2>6. Ends(TheOctet) BY <2>2, <2>4, <2>5, EndsIs
  <2>7. ~More(TheOctet) /\ ~Hang(TheOctet) BY <1>7, <2>6 DEF More, Hang
  <2>8. QED BY <2>7, Outcomes DEF Reject, Accept
<1>8. QED BY <1>5, <1>6, <1>7 DEF IndexInv

-----------------------------------------------------------------------------
(* The first terminator in what is heard.                                   *)
LEMMA NoEndBefore ==
  ASSUME NEW c, HeardStep(c), Len(heard) \in Nat, NoEnd(heard')
  PROVE  NoEnd(heard)
BY DEF NoEnd, HeardStep

(* A frame that is not cut in two has no terminator before its last octet.  *)
LEMMA SplitBefore ==
  ASSUME NEW c, HeardStep(c), Len(heard) \in Nat, ~Split(heard')
  PROVE  NoEnd(heard)
BY DEF NoEnd, Split, HeardStep

(* A frame does not begin like a terminator, even if its first octet is lost. *)
LEMMA Beginning ==
  ASSUME ChannelInv, Hear
  PROVE  /\ heard' \in Seq(Octets)
         /\ heard'[1] \in {170, 187, 204, 17, 34}
         /\ current \in AllFrames /\ Size \in 11 .. 73 /\ Proper(current.octets)
<1>1. Len(wire) > 0 /\ HeardStep(Head(wire)) BY HearStep
<1>2. Size > 0 /\ Len(heard) \in Nat /\ Len(wire) \in Nat
  <2>1. Len(heard) \in Nat /\ Len(wire) \in Nat /\ Len(heard) + Len(wire) <= Size /\ Size \in 0 .. 73
    BY Bounded
  <2>2. QED BY <1>1, <2>1
<1>3. current \in AllFrames /\ Size \in 11 .. 73 /\ Proper(current.octets)
  BY <1>2, CurrentIs DEF ChannelInv
<1>4. current.octets[1] \in {170, 187, 204} /\ current.octets[2] \in {17, 34}
  BY <1>3 DEF Proper
<1>5. ChannelInv' BY HearChannel
<1>6. current' = current /\ Len(heard') >= 1 /\ Size' = Size
  <2>1. current' = current BY Outcomes
  <2>2. Len(heard') = Len(heard) + 1 BY <1>1 DEF HeardStep
  <2>3. QED BY <1>2, <2>1, <2>2 DEF Size
<1>7. Len(heard') \in Nat BY <1>1, <1>2 DEF HeardStep
<1>8. CASE NoneLost'
  <2>1. heard'[1] = current.octets[1] BY <1>6, <1>7, <1>8 DEF NoneLost
  <2>2. QED BY <1>1, <1>3, <1>4, <2>1 DEF HeardStep
<1>9. ASSUME NEW x, OneLost(x)' PROVE heard'[1] \in {170, 187, 204, 17, 34}
  <2>1. heard'[1] = current.octets[IF 1 < Place(x)' THEN 1 ELSE 2]
    BY <1>6, <1>7, <1>9 DEF OneLost
  <2>2. QED BY <1>4, <2>1
<1>10. QED
  <2>1. NoneLost' \/ \E x : OneLost(x)' BY <1>5 DEF ChannelInv
  <2>2. QED BY <1>1, <1>3, <1>8, <1>9, <2>1 DEF HeardStep

(* Up to the first terminator the buffer holds what was heard, so that the  *)
(* terminator is seen.                                                      *)
LEMMA HearPrefix ==
  ASSUME TypeInv, ChannelInv, IndexInv, PrefixInv, Hear, ~LostTerminator, NoEnd(heard)
  PROVE  /\ index = Len(heard) /\ flag = "none" /\ ~hung
         /\ \A k \in 1 .. Len(heard') : TheOctet[k] = heard'[k]
         /\ Ends(TheOctet) <=> ~NoEnd(heard')
<1>1. HeardStep(Head(wire)) BY HearStep
<1>2. Len(heard) \in Nat /\ Len(heard) <= 73
  <2>1. Len(heard) \in Nat /\ Len(wire) \in Nat /\ Len(heard) + Len(wire) <= Size /\ Size \in 0 .. 73
    BY Bounded
  <2>2. QED BY <2>1
<1>3. /\ index = Len(heard) /\ flag = "none" /\ ~hung
      /\ \A k \in 1 .. Len(heard) : mem[k] = heard[k]
  BY DEF PrefixInv
<1>4. \A k \in 1 .. Len(heard') : TheOctet[k] = heard'[k]
  <2>1. TAKE k \in 1 .. Len(heard')
  <2>2. CASE k = Len(heard) + 1 BY <1>1, <1>3, <2>2, TheOctetIs DEF HeardStep
  <2>3. CASE k \in 1 .. Len(heard)
    <3>1. k \in 1 .. Top /\ k # index + 1
      BY <1>2, <1>3, <2>3, SizeAssumption DEF SizeAssumption
    <3>2. TheOctet[k] = mem[k] BY <3>1, TheOctetIs
    <3>3. QED BY <1>1, <1>3, <2>3, <3>2 DEF HeardStep
  <2>4. QED BY <1>1, <1>2, <2>2, <2>3 DEF HeardStep
<1>5. Ends(TheOctet) => ~NoEnd(heard')
  <2>1. SUFFICES ASSUME Ends(TheOctet) PROVE ~NoEnd(heard') OBVIOUS
  <2>2. Head(wire) = LT /\ (index # 0 => mem[index] = CR) BY <2>1, EndsIs
  <2>3. heard'[Len(heard) + 1] = LT BY <1>1, <2>2 DEF HeardStep
  <2>4. index # 0
    <3>1. SUFFICES ASSUME index = 0 PROVE FALSE OBVIOUS
    <3>2. heard'[1] = LT BY <1>3, <2>3, <3>1
    <3>3. QED BY <3>2, Beginning DEF LT
  <2>5. Len(heard) \in 1 .. Len(heard) BY <1>2, <1>3, <2>4
  <2>6. heard'[Len(heard)] = CR BY <1>1, <1>3, <2>2, <2>4, <2>5 DEF HeardStep
  <2>7. Len(heard') = Len(heard) + 1 BY <1>1 DEF HeardStep
  <2>8. Len(heard) \in 1 .. (Len(heard') - 1) BY <2>5, <2>7, <1>2
  <2>9. QED BY <2>3, <2>6, <2>8 DEF NoEnd
<1>6. ~NoEnd(heard') => Ends(TheOctet)
  <2>1. SUFFICES ASSUME ~NoEnd(heard') PROVE Ends(TheOctet) OBVIOUS
  <2>2. PICK k \in 1 .. (Len(heard') - 1) : heard'[k] = CR /\ heard'[k + 1] = LT
    BY <2>1 DEF NoEnd
  <2>3. Len(heard') = Len(heard) + 1 BY <1>1 DEF HeardStep
  <2>4. k \in 1 .. Len(heard) BY <2>2, <2>3, <1>2
  <2>5. k = Len(heard)
    <3>1. SUFFICES ASSUME k # Len(heard) PROVE FALSE OBVIOUS
    <3>2. k \in 1 .. (Len(heard) - 1) /\ k + 1 \in 1 .. Len(heard) BY <1>2, <2>4, <3>1
    <3>3. heard[k] = CR /\ heard[k + 1] = LT BY <1>1, <2>2, <2>4, <3>2 DEF HeardStep
    <3>4. QED BY <3>2, <3>3 DEF NoEnd
  <2>6. heard[Len(heard)] = CR /\ Head(wire) = LT BY <1>1, <2>2, <2>4, <2>5 DEF HeardStep
  <2>7. index # 0 /\ mem[index] = CR BY <1>2, <1>3, <2>4, <2>5, <2>6
  <2>8. QED BY <2>6, <2>7, EndsIs
<1>7. QED BY <1>3, <1>4, <1>5, <1>6

(* What the buffer holds, one octet later. *)
LEMMA HearPrefixInv ==
  ASSUME TypeInv, ChannelInv, IndexInv, PrefixInv, Hear
  PROVE  PrefixInv'
<1>1. HeardStep(Head(wire)) /\ Len(heard) \in Nat BY HearStep, Bounded
<1>2. LostTerminator' <=> LostTerminator BY Outcomes DEF LostTerminator
<1>3. SUFFICES ASSUME ~LostTerminator, NoEnd(heard')
               PROVE  /\ index' = Len(heard') /\ ~hung' /\ flag' = "none"
                      /\ \A k \in 1 .. Len(heard') : mem'[k] = heard'[k]
  BY <1>2 DEF PrefixInv
<1>4. NoEnd(heard) BY <1>1, <1>3, NoEndBefore
<1>5. /\ index = Len(heard) /\ flag = "none" /\ ~hung
      /\ \A k \in 1 .. Len(heard') : TheOctet[k] = heard'[k]
      /\ ~Ends(TheOctet)
  BY <1>3, <1>4, HearPrefix
<1>6. More(TheOctet) BY <1>5, NotEnds
<1>7. index' = index + 1 /\ mem' = TheOctet /\ flag' = flag /\ hung' = hung
  BY <1>6, IndexSmall DEF More
<1>8. Len(heard') = Len(heard) + 1 BY <1>1 DEF HeardStep
<1>9. QED BY <1>5, <1>7, <1>8

(* Nothing is written behind the 256 octets. *)
LEMMA HearTail ==
  ASSUME TypeInv, ChannelInv, IndexInv, TailInv, Hear
  PROVE  TailInv'
<1>1. index \in 0 .. 200 /\ Memory(TheOctet) /\ Memory(entry)
  BY IndexSmall, TheOctetIs DEF TypeInv, Memory
<1>2. DataLength \in Nat /\ Top \in Nat BY SizeAssumption DEF SizeAssumption
<1>3. SUFFICES ASSUME NEW k \in 257 .. Top PROVE mem'[k] = 0 /\ entry'[k] = 0
  BY DEF TailInv
<1>4. k \in 1 .. Top /\ k # index + 1 /\ ~(k <= index) BY <1>1, <1>2
<1>5. mem[k] = 0 /\ entry[k] = 0 BY DEF TailInv
<1>6. TheOctet[k] = 0 BY <1>4, <1>5, TheOctetIs
<1>7. Cleared(TheOctet)[k] = 0 BY <1>1, <1>4, <1>6, ClearedIs
<1>8. Stored(TheOctet)[k] = 0 BY <1>1, <1>4, <1>5, StoredIs
<1>9. CASE Accept(TheOctet)
  <2>1. mem' = TheOctet \/ mem' = Cleared(TheOctet) BY <1>9 DEF Accept
  <2>2. entry' = entry \/ entry' = Stored(TheOctet) BY <1>9 DEF Accept
  <2>3. QED BY <1>5, <1>6, <1>7, <1>8, <2>1, <2>2
<1>10. CASE ~Accept(TheOctet)
  <2>1. mem' = TheOctet /\ entry' = entry BY <1>10, Outcomes DEF More, Hang, Reject
  <2>2. QED BY <1>5, <1>6, <2>1
<1>11. QED BY <1>9, <1>10

-----------------------------------------------------------------------------
(* The first terminator that is heard.                                      *)

(* Of a header without a loss is heard what was sent. *)
LEMMA HeaderHeard ==
  ASSUME ChannelInv, Hear, ~LostHeader, NEW k \in 1 .. 5, k <= Len(heard')
  PROVE  heard'[k] = current.octets[k]
<1>1. ChannelInv' BY HearChannel
<1>2. current' = current /\ lost' = lost BY Outcomes
<1>3. Size \in 11 .. 73 /\ LengthOf(current.octets) = Size - 5
  BY Beginning DEF Proper, Size
<1>4. Size' = Size BY <1>2 DEF Size
<1>5. Len(heard') \in Nat
  <2>1. heard' \in Seq(Octets) BY Beginning
  <2>2. QED BY <2>1, LenIs
<1>6. k \in 1 .. Len(heard') BY <1>5
<1>7. CASE NoneLost' BY <1>2, <1>6, <1>7 DEF NoneLost
<1>8. ASSUME NEW x, OneLost(x)' PROVE heard'[k] = current.octets[k]
  <2>1. x \in lost /\ x.left \in Nat /\ x.left <= Size
    <3>1. lost' = {x} /\ x.left \in (Len(wire') + 1) .. Size' BY <1>8 DEF OneLost
    <3>2. wire' \in Seq(Octets) BY <1>1 DEF ChannelInv
    <3>3. Len(wire') \in Nat BY <3>2, LenIs
    <3>4. QED BY <1>2, <1>3, <1>4, <3>1, <3>3
  <2>2. x.left <= Size - 5 BY <1>3, <2>1 DEF LostHeader
  <2>3. Place(x)' = Size + 1 - x.left BY <1>4 DEF Place
  <2>4. k < Place(x)' BY <1>3, <2>1, <2>2, <2>3
  <2>5. QED BY <1>2, <1>6, <1>8, <2>4 DEF OneLost
<1>9. QED
  <2>1. NoneLost' \/ \E x : OneLost(x)' BY <1>1 DEF ChannelInv
  <2>2. QED BY <1>7, <1>8, <2>1

(* At the first terminator the header is in the buffer as it was sent, and  *)
(* the length with it.                                                      *)
LEMMA FirstEnd ==
  ASSUME TypeInv, ChannelInv, IndexInv, PrefixInv, Hear, ~LostTerminator, ~LostHeader,
         NoEnd(heard), Ends(TheOctet)
  PROVE  /\ Len(heard') \in 4 .. 73 /\ index + 1 = Len(heard') /\ flag = "none"
         /\ \A k \in 1 .. Len(heard') : TheOctet[k] = heard'[k]
         /\ \A k \in 1 .. 4 : TheOctet[k] = current.octets[k]
         /\ LengthOf(TheOctet) + 5 = Size
<1>1. /\ index = Len(heard) /\ flag = "none"
      /\ \A k \in 1 .. Len(heard') : TheOctet[k] = heard'[k]
      /\ ~NoEnd(heard')
  BY HearPrefix
<1>2. Len(heard) \in Nat /\ Len(heard') = Len(heard) + 1 /\ Len(heard) <= 72
  <2>1. Len(heard) \in Nat /\ Len(wire) \in Nat /\ Len(heard) + Len(wire) <= Size /\ Size \in 0 .. 73
    BY Bounded
  <2>2. Len(wire) > 0 /\ Len(heard') = Len(heard) + 1 BY HearStep DEF HeardStep
  <2>3. QED BY <2>1, <2>2
<1>3. /\ heard'[1] \in {170, 187, 204, 17, 34} /\ Size \in 11 .. 73
      /\ current.octets[2] \in {17, 34} /\ LengthOf(current.octets) = Size - 5
  BY Beginning DEF Proper, Size
<1>4. heard'[Len(heard)] = CR /\ Len(heard) >= 1
  <2>1. Head(wire) = LT /\ (index # 0 => mem[index] = CR) BY EndsIs
  <2>2. heard'[Len(heard) + 1] = LT BY <2>1, HearStep DEF HeardStep
  <2>3. Len(heard) # 0
    <3>1. SUFFICES ASSUME Len(heard) = 0 PROVE FALSE OBVIOUS
    <3>2. heard'[1] = LT BY <2>2, <3>1
    <3>3. QED BY <1>3, <3>2 DEF LT
  <2>4. Len(heard) \in 1 .. Top /\ Len(heard) # index + 1 /\ Len(heard) \in 1 .. Len(heard')
    BY <1>1, <1>2, <2>3, SizeAssumption DEF SizeAssumption
  <2>5. TheOctet[Len(heard)] = mem[Len(heard)] BY <2>4, TheOctetIs
  <2>6. QED BY <1>1, <1>2, <2>1, <2>3, <2>4, <2>5
<1>5. Len(heard) # 1
  <2>1. SUFFICES ASSUME Len(heard) = 1 PROVE FALSE OBVIOUS
  <2>2. heard'[1] = CR BY <1>4, <2>1
  <2>3. heard'[1] \in {170, 187, 204, 17, 34} BY <1>3
  <2>4. QED BY <2>2, <2>3 DEF CR
<1>6. Len(heard) # 2
  <2>1. SUFFICES ASSUME Len(heard) = 2 PROVE FALSE OBVIOUS
  <2>2. heard'[2] = current.octets[2] BY <1>2, <2>1, HeaderHeard
  <2>3. QED BY <1>3, <1>4, <2>1, <2>2 DEF CR
<1>7. Len(heard') \in 4 .. 73
  <2>1. PICK n : n = Len(heard) OBVIOUS
  <2>2. n \in Nat /\ n >= 1 /\ n # 1 /\ n # 2 /\ n <= 72 BY <1>2, <1>4, <1>5, <1>6, <2>1
  <2>3. n + 1 \in 4 .. 73 BY <2>2
  <2>4. QED BY <1>2, <2>1, <2>3
<1>8. ASSUME NEW k \in 1 .. 4 PROVE TheOctet[k] = current.octets[k]
  <2>1. PICK n : n = Len(heard') OBVIOUS
  <2>2. n \in 4 .. 73 BY <1>7, <2>1
  <2>3. k \in 1 .. 5 /\ k <= n /\ k \in 1 .. n BY <2>2
  <2>4. heard'[k] = current.octets[k] BY <2>1, <2>3, HeaderHeard
  <2>5. QED BY <1>1, <2>1, <2>3, <2>4
<1>9. LengthOf(TheOctet) + 5 = Size
  <2>1. 4 \in 1 .. 4 OBVIOUS
  <2>2. TheOctet[4] = current.octets[4] BY <1>8, <2>1
  <2>3. QED BY <1>3, <2>2 DEF LengthOf
<1>10. QED BY <1>1, <1>2, <1>7, <1>8, <1>9

(* When the loop does not end. *)
LEMMA HearHangs ==
  ASSUME TypeInv, ChannelInv, IndexInv, PrefixInv, Hear
  PROVE  HangsOnlyIf'
<1>1. UNCHANGED <<side, lost, before, current>> /\ ~hung BY Outcomes
<1>2. (LostTerminator' <=> LostTerminator) /\ (LostHeader' <=> LostHeader)
  BY <1>1 DEF LostTerminator, LostHeader
<1>3. SUFFICES ASSUME hung', ~LostTerminator
               PROVE  side = "client" /\ (LostHeader \/ Split(heard'))
  BY <1>1, <1>2 DEF HangsOnlyIf
<1>4. Hang(TheOctet) BY <1>1, <1>3, Outcomes DEF More, Reject, Accept
<1>5. Ends(TheOctet) /\ Summed(TheOctet) > 127 BY <1>4 DEF Hang, Endless
<1>6. side = "client"
  <2>1. SUFFICES ASSUME side # "client" PROVE FALSE OBVIOUS
  <2>2. Summed(TheOctet) = (index + 1) % 256 BY <2>1 DEF Summed, TypeInv
  <2>3. index <= Len(heard) /\ index \in 0 .. 200 /\ (index + 1) % 256 = index + 1
    BY <1>3, IndexSmall
  <2>4. Len(heard) <= 73
    <3>1. Len(heard) \in Nat /\ Len(wire) \in Nat /\ Len(heard) + Len(wire) <= Size /\ Size \in 0 .. 73
      BY Bounded
    <3>2. QED BY <3>1
  <2>5. Len(heard) \in Nat BY Bounded
  <2>6. QED BY <1>5, <2>2, <2>3, <2>4, <2>5
<1>7. ASSUME ~LostHeader, ~Split(heard') PROVE FALSE
  <2>1. NoEnd(heard) BY <1>7, HearStep, Bounded, SplitBefore
  <2>2. LengthOf(TheOctet) + 5 = Size BY <1>3, <1>5, <1>7, <2>1, FirstEnd
  <2>3. Summed(TheOctet) = Size % 256 BY <1>6, <2>2 DEF Summed
  <2>4. Size \in 0 .. 73 BY Bounded
  <2>5. QED BY <1>5, <2>3, <2>4
<1>8. QED BY <1>6, <1>7

-----------------------------------------------------------------------------
(* The end of a frame.                                                      *)

(* A part of a sequence of octets. *)
IsPart(t, s, a, n) == /\ t \in Seq(Octets) /\ n \in Nat /\ Len(t) = n
                      /\ \A k \in 1 .. n : t[k] = s[(a - 1) + k]

(* A part of a sequence is one. *)
LEMMA APart ==
  ASSUME NEW s \in Seq(Octets), NEW a \in 1 .. Len(s), NEW b \in a .. Len(s), NEW t,
         t = SubSeq(s, a, b)
  PROVE  IsPart(t, s, a, b + 1 - a)
BY DEF IsPart

(* Parts with the same octets are the same. *)
LEMMA SamePart ==
  ASSUME NEW s, NEW t, NEW u, NEW v, NEW a, NEW n,
         IsPart(t, s, a, n), IsPart(v, u, a, n), \A k \in 1 .. n : s[(a - 1) + k] = u[(a - 1) + k]
  PROVE  t = v
<1>1. /\ t \in Seq(Octets) /\ v \in Seq(Octets) /\ Len(t) = n /\ Len(v) = n
      /\ \A k \in 1 .. n : t[k] = v[k]
  BY DEF IsPart
<1>2. QED BY <1>1, SameOctets

(* A frame is known by its type to those it is for. *)
LEMMA KindIs ==
  ASSUME TypeInv, current \in AllFrames, NEW m, TypeOf(m) = TypeOf(current.octets)
  PROVE  /\ Kind(m) = (IF current.to = side THEN current.says.kind ELSE "none")
         /\ current.says.kind \in {"JOINREQ", "STATUS", "SYNC", "JOINRESP", "CONTRL"}
<1> DEFINE o == current.octets
           k == current.says.kind
<1>1. /\ \/ k = "SYNC" /\ TypeOf(o) = SyncType
         \/ k = "JOINREQ" /\ TypeOf(o) = JoinReqType
         \/ k = "JOINRESP" /\ TypeOf(o) = JoinRespType
         \/ k = "STATUS" /\ TypeOf(o) = StatusType
         \/ k = "CONTRL" /\ TypeOf(o) = ControlType
      /\ current.to = (IF k \in {"JOINREQ", "STATUS"} THEN "server" ELSE "client")
  BY FrameIs, SayingIsProper
<1>2. side \in {"server", "client"} BY DEF TypeInv
<1> HIDE DEF o, k
<1>3. /\ Kind(m) = (IF current.to = side THEN k ELSE "none")
      /\ k \in {"JOINREQ", "STATUS", "SYNC", "JOINRESP", "CONTRL"}
  <2>1. TypeOf(m) = TypeOf(o) BY DEF o
  <2>2. CASE k = "SYNC"
    BY <1>1, <1>2, <2>1, <2>2 DEF Kind, SyncType, JoinReqType, JoinRespType, StatusType, ControlType
  <2>3. CASE k = "JOINREQ"
    BY <1>1, <1>2, <2>1, <2>3 DEF Kind, SyncType, JoinReqType, JoinRespType, StatusType, ControlType
  <2>4. CASE k = "JOINRESP"
    BY <1>1, <1>2, <2>1, <2>4 DEF Kind, SyncType, JoinReqType, JoinRespType, StatusType, ControlType
  <2>5. CASE k = "STATUS"
    BY <1>1, <1>2, <2>1, <2>5 DEF Kind, SyncType, JoinReqType, JoinRespType, StatusType, ControlType
  <2>6. CASE k = "CONTRL"
    BY <1>1, <1>2, <2>1, <2>6 DEF Kind, SyncType, JoinReqType, JoinRespType, StatusType, ControlType
  <2>7. QED BY <1>1, <2>2, <2>3, <2>4, <2>5, <2>6
<1>4. QED BY <1>3 DEF k

(* The end of a frame of which nothing was lost. *)
LEMMA WholeEnd ==
  ASSUME TypeInv, ChannelInv, IndexInv, PrefixInv, Hear, ~LostTerminator, NoEnd(heard),
         Ends(TheOctet), NoneLost', wire' = <<>>
  PROVE  /\ flag' = (IF current.to = side THEN current.says.kind ELSE "none")
         /\ flag' # "none" => (Kept(current.octets))'
<1>1. UNCHANGED <<current, side, lost>> BY Outcomes
<1>2. lost = {} BY <1>1 DEF NoneLost
<1>3. ~LostHeader BY <1>2 DEF LostHeader
<1>4. /\ Len(heard') \in 4 .. 73 /\ index + 1 = Len(heard') /\ flag = "none"
      /\ \A k \in 1 .. Len(heard') : TheOctet[k] = heard'[k]
      /\ \A k \in 1 .. 4 : TheOctet[k] = current.octets[k]
      /\ LengthOf(TheOctet) + 5 = Size
  BY <1>3, FirstEnd
<1>5. /\ current \in AllFrames /\ Size \in 11 .. 73
      /\ current.octets \in Seq(Octets) /\ Size = Len(current.octets)
      /\ current.octets[5] = Checksum(SubSeq(current.octets, 6, Size))
  BY Beginning DEF Proper, Size
<1>0. Size \in 11 .. 73 BY <1>5
<1>6. Len(heard') = Size
  <2>1. Len(wire') = 0 BY LenIs
  <2>2. Size' = Size BY <1>1 DEF Size
  <2>3. QED BY <1>4, <2>1, <2>2 DEF NoneLost
<1>7. ASSUME NEW k \in 1 .. Size PROVE TheOctet[k] = current.octets[k]
  <2>1. heard'[k] = current.octets[k] BY <1>1, <1>6 DEF NoneLost
  <2>2. QED BY <1>4, <1>6, <2>1
<1>8. Summed(TheOctet) = Size /\ ~Endless(TheOctet)
  <2>1. (index + 1) % 256 = index + 1 BY IndexSmall
  <2>2. Size % 256 = Size BY <1>0
  <2>3. Summed(TheOctet) = Size BY <1>4, <1>6, <2>1, <2>2 DEF Summed
  <2>4. QED BY <1>0, <2>3 DEF Endless
<1>9. /\ Memory(TheOctet) /\ Top \in Nat /\ Size < Top /\ TheOctet \in Seq(Octets)
      /\ Len(TheOctet) = Top
  <2>1. Memory(TheOctet) BY TheOctetIs
  <2>2. Top \in Nat /\ Size < Top BY <1>0, SizeAssumption DEF SizeAssumption
  <2>3. Is(TheOctet, Top) BY <2>1, <2>2, ArrayIs DEF Memory
  <2>4. QED BY <2>1, <2>2, <2>3 DEF Is
<1>10. Valid(TheOctet)
  <2>1. PICK t : t = SubSeq(TheOctet, 6, Size) OBVIOUS
  <2>2. PICK v : v = SubSeq(current.octets, 6, Size) OBVIOUS
  <2>3. 6 \in 1 .. Top /\ Size \in 6 .. Top /\ 6 \in 1 .. Size /\ Size \in 6 .. Size
    BY <1>0, <1>9
  <2>4. IsPart(t, TheOctet, 6, Size + 1 - 6) /\ IsPart(v, current.octets, 6, Size + 1 - 6)
    BY <1>5, <1>9, <2>1, <2>2, <2>3, APart
  <2>5. \A k \in 1 .. (Size + 1 - 6) : (6 - 1) + k \in 1 .. Size BY <1>0
  <2>6. \A k \in 1 .. (Size + 1 - 6) : TheOctet[(6 - 1) + k] = current.octets[(6 - 1) + k]
    BY <1>7, <2>5
  <2>7. t = v BY <2>4, <2>6, SamePart
  <2>8. 5 \in 1 .. Size BY <1>0
  <2>9. TheOctet[5] = current.octets[5] BY <1>7, <2>8
  <2>10. QED BY <1>5, <1>8, <2>1, <2>2, <2>7, <2>9 DEF Valid
<1>11. /\ Kind(TheOctet) = (IF current.to = side THEN current.says.kind ELSE "none")
       /\ current.says.kind \in {"JOINREQ", "STATUS", "SYNC", "JOINRESP", "CONTRL"}
  <2>1. 3 \in 1 .. 4 OBVIOUS
  <2>2. TypeOf(TheOctet) = TypeOf(current.octets) BY <1>4, <2>1 DEF TypeOf
  <2>3. QED BY <1>5, <2>2, KindIs
<1>12. CASE current.to = side
  <2>1. Kind(TheOctet) = current.says.kind /\ Kind(TheOctet) # "none" BY <1>11, <1>12
  <2>2. Accept(TheOctet) BY <1>8, <1>10, <2>1, Outcomes DEF More, Hang, Reject
  <2>3. flag' = current.says.kind BY <2>1, <2>2 DEF Accept
  <2>4. CASE Kind(TheOctet) = "STATUS"
    <3>1. entry' = Stored(TheOctet) /\ flag' = "STATUS" BY <2>2, <2>4 DEF Accept
    <3>2. index \in 0 .. 255 /\ Memory(entry) BY IndexSmall DEF TypeInv, Memory
    <3>3. ASSUME NEW k \in 1 .. (Size - 1) PROVE entry'[k] = current.octets[k]
      <4>1. k \in 1 .. Top /\ k <= index /\ k \in 1 .. Size
        <5>1. index + 1 = Size BY <1>4, <1>6
        <5>2. index \in Nat BY DEF TypeInv
        <5>3. Top \in Nat /\ Size < Top BY <1>9
        <5>4. QED BY <1>0, <5>1, <5>2, <5>3
      <4>2. Stored(TheOctet)[k] = TheOctet[k] BY <1>9, <3>2, <4>1, StoredIs
      <4>3. QED BY <1>7, <3>1, <4>1, <4>2
    <3>4. QED BY <1>1, <1>5, <1>12, <2>3, <3>1, <3>3 DEF Kept
  <2>5. CASE Kind(TheOctet) # "STATUS"
    <3>1. mem' = TheOctet /\ flag' # "STATUS" BY <2>2, <2>5 DEF Accept
    <3>2. QED BY <1>1, <1>5, <1>7, <1>12, <2>3, <3>1 DEF Kept
  <2>6. QED BY <2>4, <2>5
<1>13. CASE current.to # side
  <2>1. Kind(TheOctet) = "none" BY <1>11, <1>13
  <2>2. Reject(TheOctet) BY <1>8, <2>1, Outcomes DEF More, Hang, Accept
  <2>3. flag' = "none" BY <1>4, <2>2 DEF Reject
  <2>4. QED BY <1>13, <2>3
<1>14. QED BY <1>12, <1>13

(* What is added to a sum can be told from the sum. *)
LEMMA SameSum ==
  ASSUME NEW a \in Octets, NEW b \in Octets, NEW c \in Octets, (a + b) % 256 = (a + c) % 256
  PROVE  b = c
BY DEF Octets

(* What leaves a sum as it is is zero. *)
LEMMA SumOfZero ==
  ASSUME NEW a \in Octets, NEW b \in Octets, a = (a + b) % 256
  PROVE  b = 0
BY DEF Octets

(* The end of a frame that lost an octet behind its header. *)
LEMMA DamagedEnd ==
  ASSUME TypeInv, ChannelInv, IndexInv, PrefixInv, Hear, ~LostTerminator, NoEnd(heard),
         Ends(TheOctet), ~hung', NEW x, OneLost(x)', wire' = <<>>
  PROVE  (LostHeader \/ Unnoticed \/ flag = "none")'
<1>1. UNCHANGED <<current, side, lost>> BY Outcomes
<1>2. lost = {x} /\ lost' = {x} BY <1>1 DEF OneLost
<1>3. LostHeader' <=> LostHeader BY <1>1 DEF LostHeader
<1>4. SUFFICES ASSUME ~LostHeader, flag' # "none" PROVE Unnoticed'
  BY <1>3
<1>5. /\ Len(heard') \in 4 .. 73 /\ index + 1 = Len(heard') /\ flag = "none"
      /\ \A k \in 1 .. Len(heard') : TheOctet[k] = heard'[k]
      /\ LengthOf(TheOctet) + 5 = Size
  BY <1>4, FirstEnd
<1>6. /\ current \in AllFrames /\ Size \in 11 .. 73
      /\ current.octets \in Seq(Octets) /\ Size = Len(current.octets)
      /\ current.octets[5] = Checksum(SubSeq(current.octets, 6, Size))
      /\ LengthOf(current.octets) = Size - 5
  BY Beginning DEF Proper, Size
<1>7. Size \in 11 .. 73 BY <1>6
<1>8. Size' = Size /\ Place(x)' = Place(x) BY <1>1 DEF Size, Place
<1>9. Len(heard') = Size - 1
  <2>1. Len(wire') = 0 BY LenIs
  <2>2. Len(heard') \in Nat BY <1>5
  <2>3. QED BY <1>7, <1>8, <2>1, <2>2 DEF OneLost
<1>10. /\ Place(x) \in 6 .. Size /\ x.octet = current.octets[Place(x)]
       /\ Place(x) - 5 \in 1 .. (Size - 5)
  <2>1. x.left \in 1 .. Size
    <3>1. Len(wire') = 0 BY LenIs
    <3>2. QED BY <1>7, <1>8, <3>1 DEF OneLost
  <2>2. x.left <= Size - 5
    <3>1. LengthOf(current.octets) = Size - 5 BY <1>6
    <3>2. ~(x.left > Size - 5) BY <1>2, <1>4, <3>1 DEF LostHeader
    <3>3. QED BY <1>7, <2>1, <3>2
  <2>3. Place(x) \in 6 .. Size /\ Place(x) - 5 \in 1 .. (Size - 5) BY <1>7, <2>1, <2>2 DEF Place
  <2>4. x.octet = current.octets[Place(x)] BY <1>1, <1>8 DEF OneLost
  <2>5. QED BY <2>3, <2>4
<1>11. ASSUME NEW k \in 1 .. (Size - 1)
       PROVE  TheOctet[k] = current.octets[IF k < Place(x) THEN k ELSE k + 1]
  <2>1. k \in 1 .. Len(heard') BY <1>9
  <2>2. heard'[k] = current.octets[IF k < Place(x) THEN k ELSE k + 1]
    BY <1>1, <1>8, <2>1 DEF OneLost
  <2>3. QED BY <1>5, <2>1, <2>2
<1>12. /\ Memory(TheOctet) /\ Top \in Nat /\ Size < Top /\ TheOctet \in Seq(Octets)
       /\ Len(TheOctet) = Top
  <2>1. Memory(TheOctet) BY TheOctetIs
  <2>2. Top \in Nat /\ Size < Top BY <1>7, SizeAssumption DEF SizeAssumption
  <2>3. Is(TheOctet, Top) BY <2>1, <2>2, ArrayIs DEF Memory
  <2>4. QED BY <2>1, <2>2, <2>3 DEF Is
<1>13. Accept(TheOctet) /\ Valid(TheOctet)
  <2>1. Accept(TheOctet) BY <1>4, <1>5, Outcomes DEF More, Hang, Reject
  <2>2. QED BY <2>1 DEF Accept
<1>14. Summed(TheOctet) = IF side = "server" THEN Size - 1 ELSE Size
  <2>1. index + 1 = Size - 1 /\ (index + 1) % 256 = index + 1 BY <1>5, <1>9, IndexSmall
  <2>2. LengthOf(TheOctet) + 5 = Size BY <1>5
  <2>3. Size % 256 = Size BY <1>7
  <2>4. QED BY <2>1, <2>2, <2>3 DEF Summed
<1>15. PICK s : s = SubSeq(current.octets, 6, Size) OBVIOUS
<1>16. PICK r : r = SubSeq(TheOctet, 6, Size - 1) OBVIOUS
<1>17. PICK u : u = SubSeq(TheOctet, 6, Size) OBVIOUS
<1>18. PICK n : n = Size - 5 OBVIOUS
<1>19. n \in 6 .. 68 /\ Size = n + 5 BY <1>7, <1>18
<1>20. IsPart(s, current.octets, 6, n) /\ IsPart(r, TheOctet, 6, n - 1) /\ IsPart(u, TheOctet, 6, n)
  <2>1. /\ 6 \in 1 .. Top /\ Size - 1 \in 6 .. Top /\ Size \in 6 .. Top
        /\ 6 \in 1 .. Size /\ Size \in 6 .. Size
    BY <1>7, <1>12
  <2>2. /\ IsPart(s, current.octets, 6, Size + 1 - 6) /\ IsPart(u, TheOctet, 6, Size + 1 - 6)
        /\ IsPart(r, TheOctet, 6, Size - 1 + 1 - 6)
    BY <1>6, <1>12, <1>15, <1>16, <1>17, <2>1, APart
  <2>3. Size + 1 - 6 = n /\ Size - 1 + 1 - 6 = n - 1 BY <1>19
  <2>4. QED BY <2>2, <2>3
<1>21. PICK p : p = Place(x) - 5 OBVIOUS
<1>22. p \in 1 .. n /\ Place(x) = p + 5 BY <1>10, <1>18, <1>19, <1>21
<1>23. /\ s \in Seq(Octets) /\ r \in Seq(Octets) /\ u \in Seq(Octets)
       /\ Len(s) = n /\ Len(r) = n - 1 /\ Len(u) = n
  BY <1>20 DEF IsPart
<1>24. s[p] = x.octet /\ x.octet \in Octets
  <2>1. s[p] = current.octets[(6 - 1) + p] BY <1>20, <1>22 DEF IsPart
  <2>2. (6 - 1) + p = Place(x) BY <1>22
  <2>3. s[p] \in Octets BY <1>22, <1>23
  <2>4. QED BY <1>10, <2>1, <2>2, <2>3
<1>25. Checksum(s) = (Checksum(r) + x.octet) % 256 /\ Checksum(r) \in Octets
  <2>1. ASSUME NEW k \in 1 .. Len(r) PROVE r[k] = s[IF k < p THEN k ELSE k + 1]
    <3>1. k \in 1 .. (n - 1) /\ k \in 1 .. n /\ k + 1 \in 1 .. n BY <1>19, <1>23
    <3>2. r[k] = TheOctet[(6 - 1) + k] BY <1>20, <3>1 DEF IsPart
    <3>3. (6 - 1) + k \in 1 .. (Size - 1) BY <1>19, <3>1
    <3>4. r[k] = current.octets[IF (6 - 1) + k < Place(x) THEN (6 - 1) + k ELSE (6 - 1) + k + 1]
      BY <1>11, <3>2, <3>3
    <3>5. CASE k < p
      <4>1. (6 - 1) + k < Place(x) BY <1>22, <3>1, <3>5
      <4>2. s[k] = current.octets[(6 - 1) + k] BY <1>20, <3>1 DEF IsPart
      <4>3. QED BY <3>4, <3>5, <4>1, <4>2
    <3>6. CASE ~(k < p)
      <4>1. ~((6 - 1) + k < Place(x)) BY <1>22, <3>1, <3>6
      <4>2. s[k + 1] = current.octets[(6 - 1) + (k + 1)] BY <1>20, <3>1 DEF IsPart
      <4>3. (6 - 1) + (k + 1) = (6 - 1) + k + 1 BY <3>1
      <4>4. QED BY <3>4, <3>6, <4>1, <4>2, <4>3
    <3>7. QED BY <3>5, <3>6
  <2>2. p \in 1 .. Len(s) /\ Len(r) = Len(s) - 1 BY <1>22, <1>23
  <2>3. Checksum(s) = (Checksum(r) + s[p]) % 256 /\ Checksum(r) \in Octets
    BY <1>23, <2>1, <2>2, ChecksumWithout
  <2>4. QED BY <1>24, <2>3
<1>26. Checksum(u) = (Checksum(r) + TheOctet[Size]) % 256 /\ TheOctet[Size] \in Octets
  <2>1. ASSUME NEW k \in 1 .. Len(r) PROVE r[k] = u[IF k < n THEN k ELSE k + 1]
    <3>1. k \in 1 .. (n - 1) /\ k \in 1 .. n /\ k < n BY <1>19, <1>23
    <3>2. r[k] = TheOctet[(6 - 1) + k] BY <1>20, <3>1 DEF IsPart
    <3>3. u[k] = TheOctet[(6 - 1) + k] BY <1>20, <3>1 DEF IsPart
    <3>4. QED BY <3>1, <3>2, <3>3
  <2>2. n \in 1 .. Len(u) /\ Len(r) = Len(u) - 1 BY <1>19, <1>23
  <2>3. Checksum(u) = (Checksum(r) + u[n]) % 256 BY <1>23, <2>1, <2>2, ChecksumWithout
  <2>4. u[n] = TheOctet[(6 - 1) + n] /\ (6 - 1) + n = Size /\ u[n] \in Octets
    <3>1. n \in 1 .. n /\ (6 - 1) + n = Size BY <1>19
    <3>2. u[n] = TheOctet[(6 - 1) + n] BY <1>20, <3>1 DEF IsPart
    <3>3. u[n] \in Octets BY <1>23, <3>1
    <3>4. QED BY <3>1, <3>2, <3>3
  <2>5. QED BY <2>3, <2>4
<1>27. TheOctet[5] = Checksum(s)
  <2>1. 5 \in 1 .. (Size - 1) /\ 5 < Place(x) BY <1>19, <1>22
  <2>2. TheOctet[5] = current.octets[5] BY <1>11, <2>1
  <2>3. QED BY <1>6, <1>15, <2>2
<1>28. CASE side = "server"
  <2>1. Checksum(s) = Checksum(r) BY <1>13, <1>14, <1>16, <1>27, <1>28 DEF Valid
  <2>2. x.octet = 0 BY <1>24, <1>25, <2>1, SumOfZero
  <2>3. Replacement' = 0 BY <1>1, <1>28 DEF Replacement
  <2>4. QED BY <1>2, <2>2, <2>3 DEF Unnoticed
<1>29. CASE side = "client"
  <2>1. Checksum(s) = Checksum(u) BY <1>13, <1>14, <1>17, <1>27, <1>29 DEF Valid
  <2>2. x.octet = TheOctet[Size] BY <1>24, <1>25, <1>26, <2>1, SameSum
  <2>3. Kind(TheOctet) # "STATUS" BY <1>29 DEF Kind
  <2>4. mem' = TheOctet BY <1>13, <2>3 DEF Accept
  <2>5. Replacement' = TheOctet[Size] BY <1>1, <1>6, <1>29, <2>4 DEF Replacement
  <2>6. QED BY <1>2, <2>2, <2>5 DEF Unnoticed
<1>30. QED BY <1>28, <1>29 DEF TypeInv

(* What the end of a frame leaves behind. *)
LEMMA HearEnd ==
  ASSUME TypeInv, ChannelInv, IndexInv, PrefixInv, Hear
  PROVE  EndInv'
<1>1. UNCHANGED <<current, side, lost, before>> BY Outcomes
<1>2. LostTerminator' <=> LostTerminator BY <1>1 DEF LostTerminator
<1>3. SUFFICES ASSUME Complete'
      PROVE  /\ lost' = {} => flag' = (IF current.to = side THEN current.says.kind ELSE "none")
             /\ (lost' = {} /\ flag' # "none") => (Kept(current.octets))'
             /\ lost' # {} => (LostHeader \/ Unnoticed \/ flag = "none")'
  BY <1>1 DEF EndInv
<1>4. wire' = <<>> /\ ~hung' /\ ~LostTerminator /\ ~NoEnd(heard') /\ ~Split(heard')
  BY <1>2, <1>3 DEF Complete
<1>5. NoEnd(heard) BY <1>4, HearStep, Bounded, SplitBefore
<1>6. Ends(TheOctet) BY <1>4, <1>5, HearPrefix
<1>7. NoneLost' \/ \E x : OneLost(x)'
  <2>1. ChannelInv' BY HearChannel
  <2>2. QED BY <2>1 DEF ChannelInv
<1>8. CASE NoneLost'
  <2>1. lost' = {} BY <1>8 DEF NoneLost
  <2>2. QED BY <1>4, <1>5, <1>6, <1>8, <2>1, WholeEnd
<1>9. ASSUME NEW x, OneLost(x)'
      PROVE  lost' # {} /\ (LostHeader \/ Unnoticed \/ flag = "none")'
  <2>1. lost' # {} BY <1>9 DEF OneLost
  <2>2. QED BY <1>4, <1>5, <1>6, <1>9, <2>1, DamagedEnd
<1>10. QED BY <1>7, <1>8, <1>9

-----------------------------------------------------------------------------
(* The steps.                                                               *)
LEMMA HearKeeps ==
  ASSUME FramingInv, Hear PROVE FramingInv'
<1>1. /\ TypeInv /\ ChannelInv /\ IndexInv /\ LastInv /\ PrefixInv /\ TailInv
  BY DEF FramingInv
<1>2. TypeInv' /\ ChannelInv' BY <1>1, HearTypes, HearChannel
<1>3. IndexInv' /\ LastInv' BY <1>1, HearIndex, HearLast
<1>4. PrefixInv' /\ EndInv' BY <1>1, HearPrefixInv, HearEnd
<1>5. TailInv' /\ HangsOnlyIf' BY <1>1, HearTail, HearHangs
<1>6. QED BY <1>2, <1>3, <1>4, <1>5 DEF FramingInv

(* The last octet of a frame is lost: it has no end. *)
LEMMA EndLost ==
  ASSUME ChannelInv, Lose, NoneLost, Len(wire) = 1, ~NoEnd(heard)
  PROVE  Split(heard)
<1>1. Size \in 0 .. 73 /\ Len(heard) \in Nat BY Bounded
<1>2. Len(heard) + 1 = Size /\ \A k \in 1 .. Len(heard) : heard[k] = current.octets[k]
  BY DEF NoneLost
<1>3. Size > 0 BY <1>1, <1>2
<1>4. Proper(current.octets) /\ Size \in 11 .. 73 BY <1>3, CurrentIs DEF ChannelInv
<1>5. current.octets[Size - 1] = CR BY <1>4 DEF Proper, Size
<1>6. heard[Len(heard)] = CR
  <2>1. Len(heard) \in 1 .. Len(heard) /\ Len(heard) = Size - 1 BY <1>1, <1>2, <1>4
  <2>2. QED BY <1>2, <1>5, <2>1
<1>7. PICK k \in 1 .. (Len(heard) - 1) : heard[k] = CR /\ heard[k + 1] = LT BY DEF NoEnd
<1>8. k + 1 # Len(heard) BY <1>6, <1>7 DEF CR, LT
<1>9. k \in 1 .. (Len(heard) - 2) BY <1>1, <1>8
<1>10. QED BY <1>7, <1>9 DEF Split

(* A lost octet keeps the invariant. *)
LEMMA LoseKeeps ==
  ASSUME MaxLosses <= 1, FramingInv, Lose PROVE FramingInv'
<1>1. /\ TypeInv /\ ChannelInv /\ IndexInv /\ LastInv /\ PrefixInv /\ TailInv
  BY DEF FramingInv
<1>2. ChannelInv' /\ NoneLost /\ before' = {} BY <1>1, LoseChannel
<1>3. PICK x : OneLost(x)' /\ x.left = Len(wire) BY <1>1, LoseChannel
<1>4. /\ wire # <<>> /\ ~hung /\ wire' = Tail(wire)
      /\ UNCHANGED <<side, mem, index, flag, entry, read, hung, current, heard, before>>
  BY DEF Lose, machineVars
<1>5. ~LostTerminator /\ ~LostTerminator' BY <1>2, <1>4 DEF LostTerminator
<1>6. lost' = {x} BY <1>3 DEF OneLost
<1>7. wire' = <<>> => Len(wire) = 1
  <2>1. Len(wire') = Len(wire) - 1 /\ Len(wire) \in Nat BY <1>1, <1>4, Bounded, HeadTail
  <2>2. wire' = <<>> => Len(wire') = 0 OBVIOUS
  <2>3. QED BY <2>1, <2>2
<1>8. TypeInv' BY <1>1, <1>4 DEF TypeInv
<1>9. IndexInv'
  <2>1. index' <= Len(heard') /\ ~hung' BY <1>1, <1>4, <1>5 DEF IndexInv
  <2>2. wire' = <<>> => ~(\A y \in lost' : y.left > 2) BY <1>3, <1>6, <1>7
  <2>3. QED BY <1>5, <2>1, <2>2 DEF IndexInv
<1>10. LastInv' BY <1>1, <1>4 DEF LastInv
<1>11. PrefixInv' BY <1>1, <1>4, <1>5 DEF PrefixInv, NoEnd
<1>12. EndInv'
  <2>1. SUFFICES ASSUME Complete' PROVE FALSE BY DEF EndInv
  <2>2. wire' = <<>> /\ ~NoEnd(heard) /\ ~Split(heard)
    BY <1>4, <2>1 DEF Complete, NoEnd, Split
  <2>3. QED BY <1>1, <1>2, <1>7, <2>2, EndLost
<1>13. TailInv' BY <1>1, <1>4 DEF TailInv
<1>14. HangsOnlyIf' BY <1>4 DEF HangsOnlyIf
<1>15. QED
  BY <1>2, <1>8, <1>9, <1>10, <1>11, <1>12, <1>13, <1>14 DEF FramingInv

(* The begin of a frame keeps it: only a lost terminator leaves an index    *)
(* behind.                                                                  *)
LEMMA BeginKeeps ==
  ASSUME FramingInv, NEW f \in Frames[side], Begin(f) PROVE FramingInv'
<1>1. /\ TypeInv /\ ChannelInv /\ IndexInv /\ TailInv
  BY DEF FramingInv
<1>2. /\ ChannelInv' /\ heard' = <<>> /\ Len(heard)' = 0 /\ wire' # <<>>
      /\ lost # {} => before = {}
  BY <1>1, BeginChannel
<1>3. /\ wire = <<>> /\ ~hung /\ before' = lost /\ flag' = "none" /\ read' = FALSE
      /\ UNCHANGED <<side, mem, index, entry, hung>>
  BY DEF Begin
<1>4. TypeInv' BY <1>1, <1>3 DEF TypeInv
<1>5. ~LostTerminator' => index = 0
  <2>1. SUFFICES ASSUME ~LostTerminator' PROVE index = 0 OBVIOUS
  <2>2. \A x \in lost : ~(x.left <= 2)
    <3>1. Len(Terminator) = 2 BY DEF Terminator
    <3>2. QED BY <1>3, <2>1, <3>1 DEF LostTerminator
  <2>3. \A x \in lost : x.left > 2
    <3>1. TAKE x \in lost
    <3>2. x.left \in Nat
      <4>1. NoneLost \/ \E y : OneLost(y) BY <1>1 DEF ChannelInv
      <4>2. PICK y : OneLost(y) BY <4>1 DEF NoneLost
      <4>3. x = y /\ y.left \in (Len(wire) + 1) .. Size BY <4>2 DEF OneLost
      <4>4. Len(wire) \in Nat /\ Size \in 0 .. 73 BY <1>1, Bounded
      <4>5. QED BY <4>3, <4>4
    <3>3. QED BY <2>2, <3>2
  <2>4. QED BY <1>1, <1>3, <2>3 DEF IndexInv
<1>6. LostTerminator' => index <= 127
  <2>1. SUFFICES ASSUME LostTerminator' PROVE index <= 127 OBVIOUS
  <2>2. before = {} BY <1>2, <1>3, <2>1 DEF LostTerminator
  <2>3. index <= Len(heard) BY <1>1, <2>2 DEF IndexInv, LostTerminator
  <2>4. Len(heard) \in Nat /\ Len(wire) \in Nat /\ Len(heard) + Len(wire) <= Size /\ Size \in 0 .. 73
    BY <1>1, Bounded
  <2>5. \A i, j, k \in Nat : i + j <= k /\ k <= 73 => i <= 73 OBVIOUS
  <2>6. Size \in Nat /\ Size <= 73 BY <2>4
  <2>7. Len(heard) <= 73 BY <2>4, <2>5, <2>6, Zenon
  <2>8. index \in Nat /\ Len(heard) \in Nat BY <1>1, <2>4 DEF TypeInv
  <2>9. QED BY <2>3, <2>7, <2>8
<1>7. IndexInv' BY <1>2, <1>3, <1>5, <1>6 DEF IndexInv
<1>8. LastInv' BY <1>2 DEF LastInv
<1>9. PrefixInv' BY <1>2, <1>3, <1>5 DEF PrefixInv
<1>10. EndInv' BY <1>2 DEF EndInv, Complete
<1>11. TailInv' BY <1>1, <1>3 DEF TailInv
<1>12. HangsOnlyIf' BY <1>3 DEF HangsOnlyIf
<1>13. QED BY <1>2, <1>4, <1>7, <1>8, <1>9, <1>10, <1>11, <1>12 DEF FramingInv

(* The state machine keeps it. *)
LEMMA ReadKeeps ==
  ASSUME FramingInv, Read PROVE FramingInv'
<1>1. /\ TypeInv /\ ChannelInv /\ IndexInv /\ PrefixInv /\ EndInv /\ TailInv
  BY DEF FramingInv
<1>2. /\ wire = <<>> /\ flag # "none" /\ ~hung /\ read' = TRUE
      /\ UNCHANGED <<side, index, flag, hung, wire, current, heard, lost, before>>
      /\ UNCHANGED radioVars
  BY DEF Read, Unread, radioVars
<1>3. /\ mem' = mem \/ mem' = Cleared(mem)
      /\ entry' = entry \/ entry' = Cleared(entry)
  BY DEF Read
<1>4. Memory(mem) /\ Memory(entry) BY <1>1 DEF TypeInv, Memory
<1>5. TypeInv'
  <2>1. Memory(mem') /\ Memory(entry') BY <1>3, <1>4, ClearedIs
  <2>2. QED BY <1>1, <1>2, <2>1 DEF TypeInv, Memory
<1>6. ChannelInv' BY <1>1, <1>2, StillChannel
<1>7. LostTerminator' <=> LostTerminator BY <1>2 DEF LostTerminator
<1>8. IndexInv' BY <1>1, <1>2, <1>7 DEF IndexInv
<1>9. LastInv' BY <1>2 DEF LastInv
<1>10. PrefixInv'
  <2>1. LostTerminator \/ ~NoEnd(heard) BY <1>1, <1>2 DEF PrefixInv
  <2>2. LostTerminator' \/ ~NoEnd(heard)' BY <1>2, <1>7, <2>1 DEF NoEnd
  <2>3. QED BY <2>2 DEF PrefixInv
<1>11. EndInv'
  <2>1. Complete' => Complete BY <1>2, <1>7 DEF Complete, NoEnd, Split, NoneYet
  <2>2. Complete => (lost = {} => flag = (IF current.to = side THEN current.says.kind ELSE "none"))
    BY <1>1 DEF EndInv
  <2>3. QED BY <1>2, <2>1, <2>2 DEF EndInv
<1>12. TailInv'
  <2>1. DataLength \in Nat /\ Top \in Nat /\ DataLength < Top
    BY SizeAssumption DEF SizeAssumption
  <2>2. SUFFICES ASSUME NEW k \in 257 .. Top PROVE mem'[k] = 0 /\ entry'[k] = 0
    BY DEF TailInv
  <2>3. k \in 1 .. Top /\ mem[k] = 0 /\ entry[k] = 0 BY <1>1, <2>1 DEF TailInv
  <2>4. Cleared(mem)[k] = 0 /\ Cleared(entry)[k] = 0 BY <1>4, <2>3, ClearedIs
  <2>5. QED BY <1>3, <2>3, <2>4
<1>13. HangsOnlyIf' BY <1>2 DEF HangsOnlyIf
<1>14. QED BY <1>5, <1>6, <1>8, <1>9, <1>10, <1>11, <1>12, <1>13 DEF FramingInv

(* A stutter keeps it. *)
LEMMA StutterKeeps ==
  ASSUME FramingInv, UNCHANGED vars PROVE FramingInv'
<1>1. /\ TypeInv /\ ChannelInv /\ IndexInv /\ LastInv /\ PrefixInv /\ EndInv /\ TailInv
      /\ HangsOnlyIf
  BY DEF FramingInv
<1>2. /\ UNCHANGED <<side, mem, index, flag, entry, read, hung>>
      /\ UNCHANGED <<wire, current, heard, lost, before>> /\ UNCHANGED radioVars
  BY DEF vars, machineVars, radioVars
<1>3. LostTerminator' <=> LostTerminator BY <1>2 DEF LostTerminator
<1>4. TypeInv' /\ ChannelInv' BY <1>1, <1>2, StillChannel DEF TypeInv
<1>5. IndexInv' /\ LastInv' BY <1>1, <1>2, <1>3 DEF IndexInv, LastInv
<1>6. PrefixInv' BY <1>1, <1>2, <1>3 DEF PrefixInv, NoEnd
<1>7. EndInv'
  <2>1. Complete' <=> Complete BY <1>2, <1>3 DEF Complete, NoEnd, Split, NoneYet
  <2>2. (LostHeader' <=> LostHeader) /\ (Unnoticed' <=> Unnoticed)
    BY <1>2 DEF LostHeader, Unnoticed, Replacement
  <2>3. (Kept(current.octets))' <=> Kept(current.octets) BY <1>2 DEF Kept
  <2>4. QED BY <1>1, <1>2, <2>1, <2>2, <2>3 DEF EndInv
<1>8. TailInv' BY <1>1, <1>2 DEF TailInv
<1>9. HangsOnlyIf' BY <1>1, <1>2 DEF HangsOnlyIf, LostTerminator, LostHeader, Split
<1>10. QED BY <1>4, <1>5, <1>6, <1>7, <1>8, <1>9 DEF FramingInv

(* It holds in the beginning. *)
LEMMA FramingStarts == Init => FramingInv
<1>1. SUFFICES ASSUME Init PROVE FramingInv OBVIOUS
<1>2. /\ side \in {"server", "client"} /\ mem = Zeros(Top) /\ entry = Zeros(Top) /\ index = 0
      /\ flag = "none" /\ hung = FALSE /\ read = FALSE
      /\ wire = <<>> /\ current = NoneYet /\ heard = <<>> /\ lost = {} /\ before = {}
  BY <1>1 DEF Init
<1>3. Top \in Nat BY SizeAssumption DEF SizeAssumption
<1>4. Zeros(Top) \in [1 .. Top -> Octets] /\ \A k \in 1 .. Top : Zeros(Top)[k] = 0
  BY <1>3 DEF Zeros, Octets
<1>5. TypeInv BY <1>2, <1>4 DEF TypeInv
<1>6. Len(heard) = 0 /\ Len(wire) = 0 /\ heard \in Seq(Octets) /\ wire \in Seq(Octets)
  BY <1>2
<1>7. ChannelInv
  <2>1. Size = 0
    <3>1. current \in AllFrames \cup {NoneYet} BY <1>2
    <3>2. QED BY <1>2, <3>1, CurrentIs
  <2>2. NoneLost BY <1>2, <1>6, <2>1 DEF NoneLost
  <2>3. QED BY <1>2, <1>6, <2>1, <2>2 DEF ChannelInv
<1>8. IndexInv BY <1>2, <1>6 DEF IndexInv, LostTerminator
<1>9. LastInv /\ EndInv /\ HangsOnlyIf BY <1>2 DEF LastInv, EndInv, Complete, HangsOnlyIf
<1>10. PrefixInv BY <1>2, <1>6 DEF PrefixInv
<1>11. TailInv
  <2>1. \A k \in 257 .. Top : k \in 1 .. Top BY <1>3
  <2>2. QED BY <1>2, <1>4, <2>1 DEF TailInv
<1>12. QED BY <1>5, <1>7, <1>8, <1>9, <1>10, <1>11 DEF FramingInv

(* Every step keeps it. *)
LEMMA FramingStep ==
  ASSUME MaxLosses <= 1 PROVE FramingInv /\ [Next]_vars => FramingInv'
<1>1. SUFFICES ASSUME FramingInv, [Next]_vars PROVE FramingInv' OBVIOUS
<1>2. CASE Hear BY <1>1, <1>2, HearKeeps
<1>3. CASE Lose BY <1>1, <1>3, LoseKeeps
<1>4. CASE Read BY <1>1, <1>4, ReadKeeps
<1>5. ASSUME NEW f \in Frames[side], Begin(f) PROVE FramingInv' BY <1>1, <1>5, BeginKeeps
<1>6. CASE UNCHANGED vars BY <1>1, <1>6, StutterKeeps
<1>7. QED BY <1>1, <1>2, <1>3, <1>4, <1>5, <1>6 DEF Next

-----------------------------------------------------------------------------
(* What follows from the invariant.                                         *)

(* A whole frame is heard as it is. *)
LEMMA WholeIsHeard ==
  ASSUME ChannelInv, wire = <<>>, lost = {}, current \in AllFrames
  PROVE  /\ Len(heard) = Size /\ ~NoEnd(heard)
         /\ Split(heard) => Split(current.octets)
<1>1. Len(wire) = 0 OBVIOUS
<1>2. Proper(current.octets) /\ Size \in 11 .. 73 BY CurrentIs
<1>3. current.octets[Size - 1] = CR /\ current.octets[Size] = LT BY <1>2 DEF Proper, Size
<1>4. NoneLost BY DEF ChannelInv, OneLost
<1>5. Len(heard) \in Nat BY Bounded
<1>6. Len(heard) = Size BY <1>1, <1>2, <1>4, <1>5 DEF NoneLost
<1>7. \A k \in 1 .. Size : heard[k] = current.octets[k] BY <1>4, <1>6 DEF NoneLost
<1>8. ~NoEnd(heard)
  <2>1. Size - 1 \in 1 .. Size /\ Size \in 1 .. Size /\ Size - 1 \in 1 .. (Size - 1)
        /\ (Size - 1) + 1 = Size
    BY <1>2
  <2>2. heard[Size - 1] = CR /\ heard[(Size - 1) + 1] = LT BY <1>3, <1>7, <2>1
  <2>3. QED BY <1>6, <2>1, <2>2 DEF NoEnd
<1>9. Split(heard) => Split(current.octets)
  <2>1. SUFFICES ASSUME Split(heard) PROVE Split(current.octets) OBVIOUS
  <2>2. PICK k \in 1 .. (Size - 2) : heard[k] = CR /\ heard[k + 1] = LT
    BY <1>6, <2>1 DEF Split
  <2>3. k \in 1 .. Size /\ k + 1 \in 1 .. Size BY <1>2, <2>2
  <2>4. current.octets[k] = CR /\ current.octets[k + 1] = LT BY <1>7, <2>2, <2>3
  <2>5. QED BY <2>2, <2>4 DEF Split, Size
<1>10. QED BY <1>6, <1>8, <1>9

(* A frame that was heard to its end has been told from the others. *)
LEMMA InvIsHeard == FramingInv => PlainIsHeard
<1>1. SUFFICES ASSUME FramingInv, wire = <<>>, current # NoneYet, ~hung, lost = {},
                      ~LostTerminator, ~Split(current.octets)
               PROVE  flag = (IF current.to = side THEN current.says.kind ELSE "none")
  BY DEF PlainIsHeard, Ended
<1>2. ChannelInv /\ EndInv BY <1>1 DEF FramingInv
<1>3. current \in AllFrames BY <1>1, <1>2 DEF ChannelInv
<1>4. ~NoEnd(heard) /\ ~Split(heard) BY <1>1, <1>2, <1>3, WholeIsHeard
<1>5. Complete BY <1>1, <1>4 DEF Complete
<1>6. QED BY <1>1, <1>2, <1>5 DEF EndInv

(* The index reaches the end of the buffer only behind a lost terminator. *)
LEMMA InvSpills == FramingInv => SpillsOnlyIf
<1>1. SUFFICES ASSUME FramingInv, index >= DataLength, ~(Size > DataLength), ~LostTerminator
               PROVE  FALSE
  BY DEF SpillsOnlyIf, Size
<1>2. ChannelInv /\ IndexInv /\ index \in Nat BY <1>1 DEF FramingInv, TypeInv
<1>3. DataLength \in Nat /\ DataLength > 0 BY SizeAssumption DEF SizeAssumption
<1>4. index <= Len(heard) /\ (hung => index < Len(heard)) BY <1>1, <1>2 DEF IndexInv
<1>5. /\ Len(heard) \in Nat /\ Len(wire) \in Nat /\ Size \in 0 .. 73
      /\ Len(heard) + Len(wire) <= Size
  BY <1>2, Bounded
<1>6. Len(heard) = Size /\ Len(wire) = 0 /\ index = Size /\ Size = DataLength
  <2>1. Size \in Nat BY <1>5
  <2>2. QED BY <1>1, <1>2, <1>3, <1>4, <1>5, <2>1
<1>7. ~hung BY <1>4, <1>5, <1>6
<1>8. wire = <<>> BY <1>2, <1>6, Bounded
<1>9. lost = {}
  <2>1. ASSUME NEW x, OneLost(x) PROVE FALSE
    <3>1. Len(heard) + Len(wire) = Size - 1 BY <2>1 DEF OneLost
    <3>2. QED BY <1>5, <1>6, <3>1
  <2>2. QED BY <1>2, <2>1 DEF ChannelInv, NoneLost
<1>10. index = 0 BY <1>2, <1>7, <1>8, <1>9 DEF IndexInv
<1>11. QED BY <1>3, <1>6, <1>10

(* Which frame the state machine reads, and from which memory. *)
LEMMA Retained ==
  ASSUME FramingInv, Unread, ~Split(heard), ~Unnoticed, ~LostHeader, ~LostTerminator
  PROVE  /\ Saying(current.octets, current.says)
         /\ flag = current.says.kind
         /\ IF flag = "STATUS" THEN Has(entry, 0, current.octets, Size - 1)
                               ELSE Has(mem, 0, current.octets, Size)
         /\ Is(mem, Top) /\ Is(entry, Top) /\ Top \in Nat /\ Top > 256
         /\ mem[257] = 0
<1>1. /\ TypeInv /\ ChannelInv /\ PrefixInv /\ EndInv /\ TailInv BY DEF FramingInv
<1>2. wire = <<>> /\ flag # "none" /\ ~read /\ ~hung BY DEF Unread
<1>3. ~NoEnd(heard) BY <1>1, <1>2 DEF PrefixInv
<1>4. current \in AllFrames
  <2>1. SUFFICES ASSUME current = NoneYet PROVE FALSE BY <1>1 DEF ChannelInv
  <2>2. Size = 0 BY <1>1, <2>1, CurrentIs DEF ChannelInv
  <2>3. Len(heard) \in Nat /\ Len(wire) \in Nat /\ Len(heard) + Len(wire) <= Size
    BY <1>1, Bounded
  <2>4. Len(heard) = 0 BY <2>2, <2>3
  <2>5. NoEnd(heard) BY <2>4 DEF NoEnd
  <2>6. QED BY <1>3, <2>5
<1>5. current # NoneYet BY <1>1, <1>4, CurrentIs DEF ChannelInv
<1>6. Complete BY <1>2, <1>3, <1>5 DEF Complete
<1>7. lost = {} BY <1>1, <1>2, <1>6 DEF EndInv
<1>8. flag = current.says.kind /\ Kept(current.octets) BY <1>1, <1>2, <1>6, <1>7 DEF EndInv
<1>9. Saying(current.octets, current.says) BY <1>4, FrameIs
<1>10. IF flag = "STATUS" THEN Has(entry, 0, current.octets, Size - 1)
                          ELSE Has(mem, 0, current.octets, Size)
  <2>1. \A k : k \in Nat => 0 + k = k OBVIOUS
  <2>2. \A n \in Nat : \A k \in 1 .. n : k \in Nat OBVIOUS
  <2>3. Size \in Nat /\ Size - 1 \in Nat
    <3>1. Size \in 11 .. 73 BY <1>4, CurrentIs
    <3>2. QED BY <3>1
  <2>4. QED BY <1>8, <2>1, <2>2, <2>3 DEF Kept, Has, Size
<1>11. Top \in Nat /\ Top > 256 BY SizeAssumption DEF SizeAssumption
<1>12. Is(mem, Top) /\ Is(entry, Top) BY <1>1, <1>11, ArrayIs DEF TypeInv
<1>13. mem[257] = 0
  <2>1. 257 \in 257 .. Top BY <1>11
  <2>2. QED BY <1>1, <2>1 DEF TailInv
<1>14. QED BY <1>8, <1>9, <1>10, <1>11, <1>12, <1>13

(* What the state machine reads is what the frame says, for each kind of    *)
(* frame.                                                                   *)
LEMMA InvReads == FramingInv => ReadAsSent
<1> DEFINE o == current.octets
           s == current.says
<1>1. SUFFICES ASSUME FramingInv, Unread, ~Split(heard), ~Unnoticed, ~LostHeader,
                      ~LostTerminator
               PROVE  Same(Reading, s)
  BY DEF ReadAsSent
<1>2. /\ Saying(o, s) /\ flag = s.kind
      /\ IF flag = "STATUS" THEN Has(entry, 0, o, Size - 1) ELSE Has(mem, 0, o, Size)
      /\ Is(mem, Top) /\ Is(entry, Top) /\ Top \in Nat /\ Top > 256
      /\ mem[257] = 0
  BY <1>1, Retained
<1>3. Size = Len(o) BY DEF Size
<1> HIDE DEF o, s
<1>4. ASSUME s \in Syncs, o = SyncMessage(s.net, s.time) PROVE Same(Reading, s)
  <2>1. s.kind = "SYNC" /\ s.net \in Words /\ s.time \in Words BY <1>4 DEF Syncs
  <2>2. IsFrame(o, 10, SyncType, 0) BY <1>4, <2>1, SyncIs
  <2>3. Size = 17 BY <1>3, <2>2 DEF IsFrame, Is
  <2>4. Has(mem, 0, o, 17) BY <1>2, <2>1, <2>3
  <2>5. ReadSync(mem) = s BY <1>4, <2>4, SyncRead
  <2>6. Reading = s BY <1>2, <2>1, <2>5 DEF Reading
  <2>7. QED BY <2>1, <2>6 DEF Same
<1>5. ASSUME s \in JoinReqs, o = JoinReqMessage(s.mac, s.net, s.slots, s.user, s.password)
      PROVE  Same(Reading, s)
  <2>1. /\ s.kind = "JOINREQ" /\ s.mac \in Addresses /\ CopyAddress(s.mac) = s.mac
        /\ s.net \in Words /\ s.slots \in Octets /\ s.user \in Names /\ s.password \in Names
    BY <1>5 DEF JoinReqs
  <2>2. IsFrame(o, 37, JoinReqType, 0) BY <1>5, <2>1, JoinReqIs
  <2>3. Size = 44 BY <1>3, <2>2 DEF IsFrame, Is
  <2>4. Has(mem, 0, o, 44) /\ Is(mem, Top) /\ Top >= 44 BY <1>2, <2>1, <2>3
  <2>5. ReadJoinReq(mem) = s BY <1>5, <2>4, JoinReqRead
  <2>6. Reading = s BY <1>2, <2>1, <2>5 DEF Reading
  <2>7. QED BY <2>1, <2>6 DEF Same
<1>6. ASSUME s \in JoinResps, o = JoinRespMessage(s.status, s.server, s.mac, s.net, s.id)
      PROVE  Same(Reading, s)
  <2>1. s.kind = "JOINRESP" BY <1>6 DEF JoinResps
  <2>2. Has(mem, 0, o, Len(o)) /\ Is(mem, Top) /\ Top >= 127 BY <1>2, <1>3, <2>1
  <2>3. ReadJoinResp(mem) = [kind |-> s.kind, status |-> s.status, mac |-> s.mac, id |-> s.id]
    BY <1>6, <2>2, JoinRespRead
  <2>4. Reading = [kind |-> s.kind, status |-> s.status, mac |-> s.mac, id |-> s.id]
    BY <1>2, <2>1, <2>3 DEF Reading
  <2>5. QED BY <2>1, <2>4 DEF Same
<1>7. ASSUME s \in Statuses, o = StatusMessage(s.net, s.src, s.dst, s.text)
      PROVE  Same(Reading, s)
  <2>1. s.kind = "STATUS" BY <1>7 DEF Statuses
  <2>2. Has(entry, 0, o, Len(o) - 1) /\ Is(entry, Top) /\ Top >= 127 BY <1>2, <1>3, <2>1
  <2>3. ReadStatus(entry) = s BY <1>7, <2>2, StatusRead
  <2>4. Reading = s BY <1>2, <2>1, <2>3 DEF Reading
  <2>5. QED BY <2>1, <2>4 DEF Same
<1>8. ASSUME s \in Controls, o = ControlMessage(s.net, s.status, s.src, s.dst, s.text)
      PROVE  Same(Reading, s)
  <2>1. s.kind = "CONTRL" BY <1>8 DEF Controls
  <2>2. Has(mem, 0, o, Len(o)) /\ Is(mem, Top) /\ Top >= 127 /\ 257 \in 128 .. Top
        /\ mem[257] = 0
    BY <1>2, <1>3, <2>1
  <2>3. PICK g : g = ReadControl(mem) OBVIOUS
  <2>4. /\ DOMAIN g = {"kind", "net", "src", "dst", "text"}
        /\ g.kind = s.kind /\ g.net = s.net /\ g.src = s.src /\ g.dst = s.dst
        /\ IsPrefix(s.text, g.text)
    BY <1>8, <2>2, <2>3, ControlRead
  <2>5. Reading = g BY <1>2, <2>1, <2>3 DEF Reading
  <2>6. Same(g, s) BY <2>1, <2>4 DEF Same
  <2>7. QED BY <2>5, <2>6
<1>9. Same(Reading, s) BY <1>2, <1>4, <1>5, <1>6, <1>7, <1>8 DEF Saying
<1>10. QED BY <1>9 DEF s

-----------------------------------------------------------------------------
(* The theorems, for at most one lost octet in two frames in a row.         *)

(* The receive interrupt keeps its invariant, octet by octet: where its     *)
(* index stands, what of the frame it holds, and how far it has written.    *)
THEOREM FramingIsInductive ==
  ASSUME MaxLosses <= 1 PROVE Spec => []FramingInv
<1>1. Init => FramingInv BY FramingStarts
<1>2. FramingInv /\ [Next]_vars => FramingInv' BY FramingStep
<1>3. QED BY <1>1, <1>2, PTL DEF Spec

(* The receive interrupts of comms_network.c set the flag for every frame   *)
(* without a terminator in it, and of the kind that was sent.               *)
THEOREM PlainFramesAreHeard ==
  ASSUME MaxLosses <= 1 PROVE Spec => []PlainIsHeard
<1>1. Spec => []FramingInv BY FramingIsInductive
<1>2. QED BY <1>1, InvIsHeard, PTL

(* What the state machine reads of such a frame is what was sent, of any    *)
(* frame that the functions of comms_protocol.c can make.                   *)
THEOREM FramesAreReadAsSent ==
  ASSUME MaxLosses <= 1 PROVE Spec => []ReadAsSent
<1>1. Spec => []FramingInv BY FramingIsInductive
<1>2. QED BY <1>1, InvReads, PTL

(* The receive interrupts write behind read_message only for a frame that   *)
(* is longer, or when a terminator was damaged.                             *)
THEOREM SpillsAreBounded ==
  ASSUME MaxLosses <= 1 PROVE Spec => []SpillsOnlyIf
<1>1. Spec => []FramingInv BY FramingIsInductive
<1>2. QED BY <1>1, InvSpills, PTL

(* The loop of the checksum ends, on the server unless a terminator was     *)
(* damaged, on the client unless it takes other octets for a header.        *)
THEOREM HangsAreBounded ==
  ASSUME MaxLosses <= 1 PROVE Spec => []HangsOnlyIf
<1>1. Spec => []FramingInv BY FramingIsInductive
<1>2. FramingInv => HangsOnlyIf BY DEF FramingInv
<1>3. QED BY <1>1, <1>2, PTL

-----------------------------------------------------------------------------
(* However many octets are lost, the index is an octet: nothing is written  *)
(* behind the 256 octets from read_message on, and the entry of the queue   *)
(* is not reached behind them.                                              *)
Reach == TypeInv /\ index \in 0 .. 255 /\ TailInv /\ wire \in Seq(Octets)

(* An octet is written within reach of the index. *)
LEMMA ReachHears == ASSUME Reach, Hear PROVE Reach'
<1>1. /\ TypeInv /\ index \in 0 .. 255 /\ TailInv /\ wire \in Seq(Octets)
      /\ wire # <<>> /\ wire' = Tail(wire) /\ side' = side /\ read' = read /\ ~hung
  BY DEF Reach, Hear
<1>2. Head(wire) \in Octets /\ wire' \in Seq(Octets) BY <1>1, HeadTail
<1>3. Top \in Nat /\ 256 < Top BY SizeAssumption DEF SizeAssumption
<1>4. index + 1 \in 1 .. Top /\ (index + 1) % 256 \in 0 .. 255 BY <1>1, <1>3
<1>5. Memory(mem) /\ Memory(entry) BY <1>1 DEF TypeInv, Memory
<1>6. /\ Memory(TheOctet)
      /\ \A k \in 1 .. Top : k # index + 1 => TheOctet[k] = mem[k]
  BY <1>2, <1>4, <1>5 DEF TheOctet, Memory
<1>7. Memory(Cleared(TheOctet)) /\ Memory(Stored(TheOctet))
  BY <1>1, <1>5, <1>6, ClearedIs, StoredIs
<1>8. /\ Memory(mem') /\ Memory(entry') /\ index' \in 0 .. 255 /\ hung' \in BOOLEAN
      /\ flag' \in {"none", "JOINREQ", "STATUS", "SYNC", "JOINRESP", "CONTRL"}
      /\ mem' = TheOctet \/ mem' = Cleared(TheOctet)
      /\ entry' = entry \/ entry' = Stored(TheOctet)
  <2>1. /\ flag \in {"none", "JOINREQ", "STATUS", "SYNC", "JOINRESP", "CONTRL"}
        /\ hung \in BOOLEAN
    BY <1>1 DEF TypeInv
  <2>2. CASE Accept(TheOctet)
    <3>1. Kind(TheOctet) \in {"none", "JOINREQ", "STATUS", "SYNC", "JOINRESP", "CONTRL"}
      BY DEF Kind
    <3>2. index' = 0 /\ flag' = Kind(TheOctet) /\ hung' = hung BY <2>2 DEF Accept
    <3>3. mem' = TheOctet \/ mem' = Cleared(TheOctet) BY <2>2 DEF Accept
    <3>4. entry' = entry \/ entry' = Stored(TheOctet) BY <2>2 DEF Accept
    <3>5. QED BY <1>5, <1>6, <1>7, <2>1, <3>1, <3>2, <3>3, <3>4
  <2>3. CASE ~Accept(TheOctet)
    <3>1. mem' = TheOctet /\ entry' = entry /\ flag' = flag /\ hung' \in BOOLEAN
      BY <2>1, <2>3, Outcomes DEF More, Hang, Reject
    <3>2. index' \in 0 .. 255
      <4>1. index \in 0 .. 255 /\ (index + 1) % 256 \in 0 .. 255 /\ 0 \in 0 .. 255
        BY <1>1, <1>4
      <4>2. index' = (index + 1) % 256 \/ index' = index \/ index' = 0
        BY <2>3, Outcomes DEF More, Hang, Reject
      <4>3. QED BY <4>1, <4>2
    <3>3. Memory(mem') /\ Memory(entry') BY <1>5, <1>6, <3>1
    <3>4. QED BY <2>1, <3>1, <3>2, <3>3
  <2>4. QED BY <2>2, <2>3
<1>9. TypeInv' BY <1>1, <1>8 DEF TypeInv, Memory
<1>10. TailInv'
  <2>1. SUFFICES ASSUME NEW k \in 257 .. Top PROVE mem'[k] = 0 /\ entry'[k] = 0
    BY DEF TailInv
  <2>2. k \in 1 .. Top /\ k # index + 1 /\ ~(k <= index) BY <1>1, <1>3
  <2>3. mem[k] = 0 /\ entry[k] = 0 BY <1>1 DEF TailInv
  <2>4. TheOctet[k] = 0 BY <1>6, <2>2, <2>3
  <2>5. Cleared(TheOctet)[k] = 0 BY <1>6, <2>2, <2>4, ClearedIs
  <2>6. Stored(TheOctet)[k] = 0 BY <1>1, <1>5, <1>6, <2>2, <2>3, StoredIs
  <2>7. QED BY <1>8, <2>3, <2>4, <2>5, <2>6
<1>11. QED BY <1>2, <1>8, <1>9, <1>10 DEF Reach

(* The state machine clears no more than the buffer. *)
LEMMA ReachReads == ASSUME Reach, Read PROVE Reach'
<1>1. TypeInv /\ index \in 0 .. 255 /\ TailInv /\ wire \in Seq(Octets) BY DEF Reach
<1>2. read' = TRUE /\ UNCHANGED <<side, index, flag, hung, wire>> BY DEF Read, radioVars
<1>3. /\ mem' = mem \/ mem' = Cleared(mem)
      /\ entry' = entry \/ entry' = Cleared(entry)
  BY DEF Read
<1>4. Memory(mem) /\ Memory(entry) BY <1>1 DEF TypeInv, Memory
<1>5. TypeInv'
  <2>1. Memory(mem') /\ Memory(entry') BY <1>3, <1>4, ClearedIs
  <2>2. QED BY <1>1, <1>2, <2>1 DEF TypeInv, Memory
<1>6. TailInv'
  <2>1. DataLength \in Nat /\ Top \in Nat /\ DataLength < Top
    BY SizeAssumption DEF SizeAssumption
  <2>2. SUFFICES ASSUME NEW k \in 257 .. Top PROVE mem'[k] = 0 /\ entry'[k] = 0
    BY DEF TailInv
  <2>3. k \in 1 .. Top /\ mem[k] = 0 /\ entry[k] = 0 BY <1>1, <2>1 DEF TailInv
  <2>4. Cleared(mem)[k] = 0 /\ Cleared(entry)[k] = 0 BY <1>4, <2>3, ClearedIs
  <2>5. QED BY <1>3, <2>3, <2>4
<1>7. QED BY <1>1, <1>2, <1>5, <1>6 DEF Reach

(* Both receive interrupts count in a uint8_t (read_index): what they write *)
(* is within 256 octets, whatever is lost, hung or rejected.                *)
THEOREM MemoryIsBounded == Spec => []Reach
<1>1. Init => Reach
  <2>1. SUFFICES ASSUME Init PROVE Reach OBVIOUS
  <2>2. FramingInv BY <2>1, FramingStarts
  <2>3. TypeInv /\ TailInv /\ wire \in Seq(Octets) BY <2>2 DEF FramingInv, ChannelInv
  <2>4. index \in 0 .. 255 BY <2>1 DEF Init
  <2>5. QED BY <2>3, <2>4 DEF Reach
<1>2. Reach /\ [Next]_vars => Reach'
  <2>1. SUFFICES ASSUME Reach, [Next]_vars PROVE Reach' OBVIOUS
  <2>2. TypeInv /\ index \in 0 .. 255 /\ TailInv /\ wire \in Seq(Octets) BY <2>1 DEF Reach
  <2>3. CASE Hear BY <2>1, <2>3, ReachHears
  <2>4. CASE Read BY <2>1, <2>4, ReachReads
  <2>5. CASE Lose
    <3>1. /\ wire # <<>> /\ wire' = Tail(wire)
          /\ UNCHANGED <<side, mem, index, flag, entry, read, hung>>
      BY <2>5 DEF Lose, machineVars
    <3>2. wire' \in Seq(Octets) BY <2>2, <3>1, HeadTail
    <3>3. QED BY <2>2, <3>1, <3>2 DEF Reach, TypeInv, TailInv
  <2>6. ASSUME NEW f \in Frames[side], Begin(f) PROVE Reach'
    <3>1. /\ wire' = f.octets /\ flag' = "none" /\ read' = FALSE
          /\ UNCHANGED <<side, mem, index, entry, hung>>
      BY <2>6 DEF Begin
    <3>2. f \in AllFrames BY <2>2 DEF TypeInv, AllFrames
    <3>3. wire' \in Seq(Octets) BY <3>1, <3>2, FrameIs DEF Proper
    <3>4. QED BY <2>2, <3>1, <3>3 DEF Reach, TypeInv, TailInv
  <2>7. CASE UNCHANGED vars
    <3>1. UNCHANGED <<side, mem, index, flag, entry, read, hung, wire>>
      BY <2>7 DEF vars, machineVars, radioVars
    <3>2. QED BY <2>2, <3>1 DEF Reach, TypeInv, TailInv
  <2>8. QED BY <2>1, <2>3, <2>4, <2>5, <2>6, <2>7 DEF Next
<1>3. QED BY <1>1, <1>2, PTL DEF Spec
=============================================================================
