-------------------------- MODULE DeviceTableProofs --------------------------
(* Proofs about DeviceTable, for every table size and every set of devices. *)
EXTENDS DeviceTable, WellFoundedInduction, TLAPS

USE SizesAssumption DEF Octet, Rows

(* An octet counter stays an octet, whatever is added to it. *)
LEMMA OctetMod == ASSUME NEW a \in Nat PROVE a % Width \in Octet /\ (a < Width => a % Width = a)
<1>1. Width \in Nat /\ Width > 0 OBVIOUS
<1>2. a % Width \in 0 .. (Width - 1) BY <1>1
<1>3. a < Width => a % Width = a BY <1>1
<1>4. QED BY <1>2, <1>3

(* The type invariant needs no bound on the requests: the octets wrap.      *)
LEMMA TypeStep == ASSUME TypeOK, [Next]_tableVars PROVE TypeOK'
<1> USE MacsAssumption, RequestsAssumption DEF TypeOK, RetVals, Success, Nack, Dup, AnyIndex
<1>0. RaisedSlots \in Octet BY DEF RaisedSlots
<1>1. CASE Refresh BY <1>0, <1>1 DEF Refresh
<1>2. ASSUME NEW m \in Macs, NEW r \in Requests, Refuse(m, r) PROVE TypeOK'
  BY <1>0, <1>2 DEF Refuse
<1>3. ASSUME NEW m \in Macs, NEW r \in Requests, NEW i \in Rows, Duplicate(i, m, r)
      PROVE TypeOK'
  BY <1>0, <1>3 DEF Duplicate
<1>4. ASSUME NEW m \in Macs, NEW r \in Requests, NEW i \in Rows, Register(i, m, r)
      PROVE TypeOK'
  <2>1. Granted(r) \in Nat /\ r \in Octet BY DEF Granted
  <2>2. /\ (RaisedSlots + 1) % Width \in Octet
        /\ (RaisedSlots + Granted(r)) % Width \in Octet
        /\ (deviceCount + 1) % Width \in Octet
    <3>1. RaisedSlots + 1 \in Nat /\ RaisedSlots + Granted(r) \in Nat /\ deviceCount + 1 \in Nat
      BY <1>0, <2>1
    <3>2. QED BY <3>1, OctetMod
  <2> DEFINE row == [id |-> (RaisedSlots + 1) % Width, mac |-> m, slots |-> r]
  <2>3. row \in [id : Octet, mac : Macs \cup {NoMac}, slots : Octet]
    BY <2>1, <2>2
  <2>4. table' = [table EXCEPT ![i] = row] BY <1>4 DEF Register
  <2>5. table' \in [Rows -> [id : Octet, mac : Macs \cup {NoMac}, slots : Octet]]
    <3> HIDE DEF row
    <3>1. QED BY <2>3, <2>4, Zenon
  <2>6. tableValues' \in [index : AnyIndex, retval : RetVals] /\ requester' \in Macs \cup {NoMac}
    BY <1>4 DEF Register
  <2>7. totalSlots' \in Octet /\ deviceCount' \in Octet
    BY <1>4, <2>2 DEF Register
  <2>8. QED BY <2>5, <2>6, <2>7
<1>5. ASSUME NEW m \in Macs, NEW r \in Requests, Overflow(m, r) PROVE TypeOK'
  BY <1>0, <1>5 DEF Overflow
<1>6. CASE UNCHANGED tableVars BY <1>6 DEF tableVars
<1>7. QED BY <1>1, <1>2, <1>3, <1>4, <1>5, <1>6 DEF Next, Update

(* The table starts in its types. *)
LEMMA TypeInit == Init => TypeOK
BY MacsAssumption DEF Init, TypeOK, EmptyRow, NoMac, RetVals, Success, Nack, Dup, AnyIndex

(* The table, its counter and the answer keep their types in every call.    *)
THEOREM TypeCorrect == Spec => []TypeOK
<1>1. Init => TypeOK BY TypeInit
<1>2. TypeOK /\ [Next]_tableVars => TypeOK' BY TypeStep
<1>3. QED BY <1>1, <1>2, PTL DEF Spec

-----------------------------------------------------------------------------
(* A row that a registration uses is the first one past the clients, and    *)
(* the clients before it have other addresses.                              *)
LEMMA FirstFreeRow ==
  ASSUME NEW m, NEW i \in Rows, TypeOK, deviceCount <= TableSize, FilledInOrder,
         IsFirstRow(i, m), ~SameMac(table[i].mac, m)
  PROVE  /\ i = deviceCount
         /\ i \notin Registered
         /\ \A j \in Registered : ~SameMac(table[j].mac, m)
<1>1. table[i].id = 0 BY DEF IsFirstRow, Stops
<1>2. \A j \in 0 .. (i - 1) : table[j].id # 0 /\ ~SameMac(table[j].mac, m)
  BY DEF IsFirstRow, Stops
<1>3. i \notin Registered BY <1>1 DEF Registered
<1>4. i >= deviceCount BY <1>3 DEF FilledInOrder, TypeOK
<1>5. \A j \in 0 .. (i - 1) : j \in Registered BY <1>2 DEF Registered
<1>6. i <= deviceCount
  <2>1. CASE i = 0 BY <2>1 DEF TypeOK
  <2>2. CASE i # 0
    <3>1. i - 1 \in 0 .. (i - 1) BY <2>2
    <3>2. i - 1 \in 0 .. (deviceCount - 1) BY <1>5, <3>1 DEF FilledInOrder
    <3>3. QED BY <3>2 DEF TypeOK
  <2>3. QED BY <2>1, <2>2
<1>7. i = deviceCount BY <1>4, <1>6 DEF TypeOK
<1>8. QED BY <1>2, <1>3, <1>7 DEF FilledInOrder

(* A counter that has served n of at most N rows is below its bound. *)
LEMMA RoomForOneMore ==
  ASSUME NEW g \in Nat, NEW N \in Nat, NEW n \in 0 .. (N - 1), NEW s \in Nat,
         NEW t \in Nat, t <= s + n * g
  PROVE  t + g <= s + N * g /\ t + g <= s + (n + 1) * g
<1>1. (n + 1) * g = n * g + g OBVIOUS
<1>2. PICK d \in Nat : N = (n + 1) + d
  <2>1. N - (n + 1) \in Nat OBVIOUS
  <2>2. QED BY <2>1
<1>3. N * g = (n + 1) * g + d * g BY <1>2
<1>4. d * g \in Nat /\ n * g \in Nat /\ (n + 1) * g \in Nat BY <1>2
<1>5. QED BY <1>1, <1>3, <1>4

(* A row of the table has an id and a last slot that does not lie below it. *)
LEMMA RowTypes ==
  ASSUME TypeOK, NEW i \in Rows
  PROVE  /\ table[i].id \in Octet /\ table[i].slots \in Octet
         /\ LastSlotOf(i) \in Nat /\ table[i].id <= LastSlotOf(i)
<1>1. table[i] \in [id : Octet, mac : Macs \cup {NoMac}, slots : Octet]
  BY DEF TypeOK
<1>2. table[i].id \in Octet /\ table[i].slots \in Octet BY <1>1
<1>3. SlotsOf(i) \in Nat /\ SlotsOf(i) >= 1
  BY <1>2 DEF SlotsOf
<1>4. QED BY <1>2, <1>3 DEF LastSlotOf

(* A call that enters nobody keeps the invariant. *)
LEMMA QuietStep ==
  ASSUME NEW g \in 1 .. (Width - 1), TableInv(g), TypeOK',
         UNCHANGED <<table, deviceCount>>,
         totalSlots' = RaisedSlots \/ totalSlots' = totalSlots
  PROVE  TableInv(g)'
<1>1. Registered' = Registered BY DEF Registered
<1>2. RaisedSlots' = RaisedSlots BY DEF RaisedSlots, TableInv, TypeOK
<1>3. FilledInOrder' BY <1>1 DEF TableInv, FilledInOrder
<1>4. SlotsInOrder' BY <1>1, <1>2 DEF TableInv, SlotsInOrder, LastSlotOf, SlotsOf
<1>5. UniqueDevices' BY <1>1 DEF TableInv, UniqueDevices
<1>6. QED BY <1>2, <1>3, <1>4, <1>5 DEF TableInv

(* Entering a client keeps the invariant: there is room for its slots. *)
LEMMA RegisterStep ==
  ASSUME NEW g \in 1 .. (Width - 1), GrantBound(g), TableInv(g), TypeOK',
         NEW m \in Macs, NEW r \in Requests, NEW i \in Rows, Register(i, m, r)
  PROVE  TableInv(g)'
<1> DEFINE row == [id |-> (RaisedSlots + 1) % Width, mac |-> m, slots |-> r]
<1>1. /\ i = deviceCount
      /\ i \notin Registered
      /\ \A j \in Registered : ~SameMac(table[j].mac, m)
  BY FirstFreeRow DEF Register, TableInv
<1>2. r \in Octet /\ Granted(r) \in 1 .. g
  BY RequestsAssumption DEF Register, Granted, GrantBound
<1>3. RaisedSlots \in Nat /\ StartingSlots <= RaisedSlots
  BY DEF RaisedSlots, TableInv, TypeOK
<1>4. /\ RaisedSlots + g < Width
      /\ RaisedSlots + g <= StartingSlots + (deviceCount + 1) * g
  <2>1. deviceCount \in 0 .. (TableSize - 1) BY <1>1
  <2>2. /\ RaisedSlots + g <= StartingSlots + TableSize * g
        /\ RaisedSlots + g <= StartingSlots + (deviceCount + 1) * g
    BY <1>3, <2>1, RoomForOneMore DEF TableInv
  <2>3. TableSize * g \in Nat /\ StartingSlots + TableSize * g < Width
    BY DEF GrantBound
  <2>4. QED BY <1>3, <2>2, <2>3
<1>5. /\ (RaisedSlots + 1) % Width = RaisedSlots + 1
      /\ (RaisedSlots + Granted(r)) % Width = RaisedSlots + Granted(r)
      /\ (deviceCount + 1) % Width = deviceCount + 1
  BY <1>1, <1>2, <1>3, <1>4, OctetMod
<1>6. /\ totalSlots' = RaisedSlots + Granted(r)
      /\ deviceCount' = deviceCount + 1
      /\ table' = [table EXCEPT ![i] = row]
  BY <1>5 DEF Register
<1>7. RaisedSlots' = RaisedSlots + Granted(r)
  BY <1>2, <1>3, <1>6 DEF RaisedSlots
<1>8. /\ table'[i] = row
      /\ \A j \in Rows \ {i} : table'[j] = table[j]
  BY <1>6 DEF TableInv, TypeOK
<1>9. row.id = RaisedSlots + 1 /\ row.slots = r /\ row.mac = m BY <1>5
<1>10. Registered' = Registered \cup {i}
  <2>1. row.id # 0 BY <1>3, <1>9
  <2>2. \A j \in Rows : table'[j].id # 0 <=> (table[j].id # 0 \/ j = i)
    <3> HIDE DEF row
    <3>1. QED BY <1>8, <2>1
  <2>3. QED BY <2>2 DEF Registered
<1> HIDE DEF row
<1>11. FilledInOrder'
  BY <1>1, <1>6, <1>10 DEF TableInv, FilledInOrder, TypeOK
<1>12. UniqueDevices'
  <2>1. \A a, b : SameMac(a, b) => SameMac(b, a) BY DEF SameMac
  <2>2. QED BY <1>1, <1>8, <1>9, <1>10, <2>1 DEF TableInv, UniqueDevices, Registered
<1>13. SlotsInOrder'
  <2>1. LastSlotOf(i)' = RaisedSlots + Granted(r)
    BY <1>2, <1>3, <1>8, <1>9 DEF LastSlotOf, SlotsOf, Granted
  <2>2. \A j \in Registered : LastSlotOf(j)' = LastSlotOf(j) /\ table'[j].id = table[j].id
    <3>1. \A j \in Registered : table'[j] = table[j] BY <1>1, <1>8 DEF Registered
    <3>2. QED BY <3>1 DEF LastSlotOf, SlotsOf
  <2>3. \A j \in Registered : j < i
    BY <1>1 DEF TableInv, FilledInOrder, TypeOK
  <2>4. \A j \in Registered : LastSlotOf(j) \in Nat /\ table[j].id \in Octet
    BY RowTypes DEF Registered, TableInv
  <2>5. /\ \A j \in Registered : StartingSlots < table[j].id /\ LastSlotOf(j) <= RaisedSlots
        /\ \A j, k \in Registered : j < k => LastSlotOf(j) < table[k].id
    BY DEF TableInv, SlotsInOrder
  <2>6. ASSUME NEW j \in Registered'
        PROVE  StartingSlots < table'[j].id /\ LastSlotOf(j)' <= RaisedSlots'
    <3>1. CASE j = i BY <1>2, <1>3, <1>7, <1>8, <1>9, <2>1, <3>1
    <3>2. CASE j \in Registered BY <1>2, <1>3, <1>7, <2>2, <2>4, <2>5, <3>2
    <3>3. QED BY <1>10, <3>1, <3>2
  <2>7. ASSUME NEW j \in Registered', NEW k \in Registered', j < k
        PROVE  LastSlotOf(j)' < table'[k].id
    <3>1. j \in Registered
      BY <1>10, <2>3, <2>7 DEF Registered
    <3>2. CASE k = i BY <1>3, <1>8, <1>9, <2>2, <2>4, <2>5, <3>1, <3>2
    <3>3. CASE k \in Registered BY <2>2, <2>5, <2>7, <3>1, <3>3
    <3>4. QED BY <1>10, <3>2, <3>3
  <2>8. QED BY <2>6, <2>7 DEF SlotsInOrder
<1>14. RaisedSlots' <= StartingSlots + deviceCount' * g
  BY <1>2, <1>3, <1>4, <1>6, <1>7 DEF TableInv, TypeOK
<1>15. deviceCount' <= TableSize BY <1>1, <1>6
<1>16. QED BY <1>11, <1>12, <1>13, <1>14, <1>15 DEF TableInv

(* The invariant is inductive: only a registration changes the table. *)
LEMMA TableStep ==
  ASSUME NEW g \in 1 .. (Width - 1), GrantBound(g), TableInv(g), [Next]_tableVars
  PROVE  TableInv(g)'
<1>1. TypeOK' BY TypeStep DEF TableInv
<1>2. CASE Refresh BY <1>1, <1>2, QuietStep DEF Refresh
<1>3. ASSUME NEW m \in Macs, NEW r \in Requests, Refuse(m, r) PROVE TableInv(g)'
  BY <1>1, <1>3, QuietStep DEF Refuse
<1>4. ASSUME NEW m \in Macs, NEW r \in Requests, NEW i \in Rows, Duplicate(i, m, r)
      PROVE TableInv(g)'
  BY <1>1, <1>4, QuietStep DEF Duplicate
<1>5. ASSUME NEW m \in Macs, NEW r \in Requests, NEW i \in Rows, Register(i, m, r)
      PROVE TableInv(g)'
  BY <1>1, <1>5, RegisterStep
<1>6. ASSUME NEW m \in Macs, NEW r \in Requests, Overflow(m, r) PROVE TableInv(g)'
  BY <1>1, <1>6, QuietStep DEF Overflow
<1>7. CASE UNCHANGED tableVars BY <1>1, <1>7, QuietStep DEF tableVars
<1>8. QED BY <1>2, <1>3, <1>4, <1>5, <1>6, <1>7 DEF Next, Update

(* The empty table satisfies the invariant. *)
LEMMA TableInit == ASSUME NEW g \in 1 .. (Width - 1), Init PROVE TableInv(g)
<1>1. TypeOK BY TypeInit
<1>2. \A i \in Rows : table[i].id = 0 BY DEF Init, EmptyRow
<1>3. Registered = {} BY <1>2 DEF Registered
<1>4. FilledInOrder BY <1>3 DEF Init, FilledInOrder
<1>5. RaisedSlots <= StartingSlots + deviceCount * g
  <2>1. deviceCount = 0 /\ RaisedSlots = StartingSlots BY DEF Init, RaisedSlots
  <2>2. 0 * g = 0 OBVIOUS
  <2>3. QED BY <2>1, <2>2
<1>6. QED BY <1>1, <1>3, <1>4, <1>5 DEF Init, TableInv, SlotsInOrder, UniqueDevices

(* The invariant TableInv holds in every state of the table, for any bound  *)
(* g on the slots of a client that the counter has room for.                *)
THEOREM TableInvariant ==
  ASSUME NEW g \in 1 .. (Width - 1), GrantBound(g) PROVE Spec => []TableInv(g)
<1>1. Init => TableInv(g) BY TableInit
<1>2. TableInv(g) /\ [Next]_tableVars => TableInv(g)' BY TableStep
<1>3. QED BY <1>1, <1>2, PTL DEF Spec

-----------------------------------------------------------------------------
(* The order of the slots, with a counter that has not wrapped, makes them  *)
(* unique.                                                                  *)
LEMMA InvGivesUniqueSlots ==
  ASSUME NEW g \in 1 .. (Width - 1), GrantBound(g), TableInv(g) PROVE UniqueSlots
<1>1. RaisedSlots < Width
  BY DEF TableInv, TypeOK, RaisedSlots
<1>2. \A i \in Registered : LastSlotOf(i) \in Nat /\ table[i].id \in Octet
  BY RowTypes DEF Registered, TableInv
<1>3. RaisedSlots \in Nat BY DEF RaisedSlots, TableInv, TypeOK
<1>4. \A i \in Registered : StartingSlots < table[i].id /\ LastSlotOf(i) < Width
  BY <1>1, <1>2, <1>3 DEF TableInv, SlotsInOrder
<1>5. \A i, j \in Registered :
        i # j => LastSlotOf(i) < table[j].id \/ LastSlotOf(j) < table[i].id
  <2>1. \A i, j \in Registered : i # j => i < j \/ j < i BY DEF Registered
  <2>2. QED BY <2>1 DEF TableInv, SlotsInOrder
<1>6. QED BY <1>4, <1>5 DEF UniqueSlots

(* While the counter has room for a full table, no two clients share a slot *)
(* and none has a slot of the server.                                       *)
THEOREM SlotsAreUnique == NoWrap => (Spec => []UniqueSlots)
<1> SUFFICES ASSUME NoWrap PROVE Spec => []UniqueSlots OBVIOUS
<1> PICK g \in 1 .. (Width - 1) : GrantBound(g) BY DEF NoWrap
<1>1. Spec => []TableInv(g) BY TableInvariant
<1>2. TableInv(g) => UniqueSlots BY InvGivesUniqueSlots
<1>3. QED BY <1>1, <1>2, PTL

(* A device never gets a second row. *)
THEOREM DevicesAreUnique == NoWrap => (Spec => []UniqueDevices)
<1> SUFFICES ASSUME NoWrap PROVE Spec => []UniqueDevices OBVIOUS
<1> PICK g \in 1 .. (Width - 1) : GrantBound(g) BY DEF NoWrap
<1>1. Spec => []TableInv(g) BY TableInvariant
<1>2. TableInv(g) => UniqueDevices BY DEF TableInv
<1>3. QED BY <1>1, <1>2, PTL

(* Clients are in the rows from 0 on, and device_count counts them.         *)
THEOREM RowsFillInOrder == NoWrap => (Spec => []FilledInOrder)
<1> SUFFICES ASSUME NoWrap PROVE Spec => []FilledInOrder OBVIOUS
<1> PICK g \in 1 .. (Width - 1) : GrantBound(g) BY DEF NoWrap
<1>1. Spec => []TableInv(g) BY TableInvariant
<1>2. TableInv(g) => FilledInOrder BY DEF TableInv
<1>3. QED BY <1>1, <1>2, PTL

-----------------------------------------------------------------------------
(* A registration, seen from the registered rows: it adds one row and leaves *)
(* the others as they are.  Every other call leaves the table alone.         *)
LEMMA RegisterRows ==
  ASSUME NEW g \in 1 .. (Width - 1), TableInv(g), TableInv(g)',
         NEW m \in Macs, NEW r \in Requests, NEW i \in Rows, Register(i, m, r)
  PROVE  /\ i \notin Registered
         /\ Registered' \subseteq Registered \cup {i}
         /\ \A j \in Registered : table'[j] = table[j]
         /\ table'[i].mac = m
         /\ \A j \in Registered : ~SameMac(table[j].mac, m)
<1>1. /\ i \notin Registered
      /\ \A j \in Registered : ~SameMac(table[j].mac, m)
  BY FirstFreeRow DEF Register, TableInv
<1> DEFINE row == [id |-> (RaisedSlots + 1) % Width, mac |-> m, slots |-> r]
<1>2. table' = [table EXCEPT ![i] = row] BY DEF Register
<1>3. row.mac = m OBVIOUS
<1> HIDE DEF row
<1>4. /\ table'[i] = row
      /\ \A j \in Rows \ {i} : table'[j] = table[j]
  BY <1>2 DEF TableInv, TypeOK
<1>5. QED BY <1>1, <1>3, <1>4 DEF Registered

(* A call that registers nobody leaves the rows alone. *)
LEMMA OtherCalls ==
  ASSUME [Next]_tableVars,
         ~ \E m \in Macs, r \in Requests, i \in Rows : Register(i, m, r)
  PROVE  table' = table
BY DEF Next, Update, Refresh, Refuse, Duplicate, Overflow, tableVars

(* No call changes a registered row. *)
LEMMA RowsAreKept ==
  ASSUME NEW g \in 1 .. (Width - 1), TableInv(g), TableInv(g)', [Next]_tableVars
  PROVE  \A i \in Registered : table'[i] = table[i]
<1>1. ASSUME NEW m \in Macs, NEW r \in Requests, NEW k \in Rows, Register(k, m, r)
      PROVE  \A i \in Registered : table'[i] = table[i]
  BY <1>1, RegisterRows
<1>2. QED BY <1>1, OtherCalls

(* A client keeps its row and its id for ever. *)
THEOREM RowsAreStable == NoWrap => (Spec => StableRows)
<1> SUFFICES ASSUME NoWrap PROVE Spec => StableRows OBVIOUS
<1> PICK g \in 1 .. (Width - 1) : GrantBound(g) BY DEF NoWrap
<1>1. Spec => []TableInv(g) BY TableInvariant
<1>2. TableInv(g) /\ TableInv(g)' /\ [Next]_tableVars
        => [\A i \in Registered : table'[i] = table[i]]_tableVars
  BY RowsAreKept
<1>3. QED BY <1>1, <1>2, PTL DEF Spec, StableRows

-----------------------------------------------------------------------------
(* The answer.                                                              *)

(* A row that holds no client holds no address either. *)
FreeRowsBlank == \A i \in Rows \ Registered : table[i].mac = NoMac

AnswerInv == FreeRowsBlank /\ AnswerForRequester

(* A set of numbers has a least one. *)
LEMMA SmallestNumber ==
  ASSUME NEW S, S \subseteq Nat, S # {} PROVE \E k \in S : \A j \in S : k <= j
<1> DEFINE R == OpToRel(<, Nat)
<1>1. \A x, y \in Nat : <<x, y>> \in R <=> x < y BY DEF OpToRel
<1>2. IsWellFoundedOn(R, Nat) BY NatLessThanWellFounded
<1> HIDE DEF R
<1>3. PICK k \in S : \A j \in S : ~(<<j, k>> \in R) BY <1>2, WFMin
<1>4. \A j \in S : ~(j < k) BY <1>1, <1>3
<1>5. QED BY <1>4

(* An address without a zero octet equals what strncmp finds equal to it,   *)
(* and is not that of a free row.                                           *)
LEMMA PlainIsExact ==
  ASSUME NEW m \in Macs, Plain(m), NEW a \in Macs \cup {NoMac}, SameMac(a, m)
  PROVE  a = m /\ a # NoMac
<1>1. m \in [1 .. MacLength -> Octet] /\ a \in [1 .. MacLength -> Octet]
  BY MacsAssumption DEF NoMac
<1>2. \A k \in 1 .. MacLength : a[k] = m[k]
  <2> SUFFICES ASSUME \E k \in 1 .. MacLength : a[k] # m[k] PROVE FALSE OBVIOUS
  <2> DEFINE Bad == {k \in 1 .. MacLength : a[k] # m[k]}
  <2>1. Bad # {} /\ Bad \subseteq Nat OBVIOUS
  <2>2. PICK k \in Bad : \A j \in Bad : k <= j BY <2>1, SmallestNumber
  <2>3. \A j \in 1 .. (k - 1) : a[j] = m[j]
    <3>1. \A j \in 1 .. (k - 1) : j \in 1 .. MacLength /\ ~(k <= j) BY <2>2
    <3>2. QED BY <2>2, <3>1
  <2>4. \A j \in 1 .. (k - 1) : a[j] # 0 BY <2>2, <2>3 DEF Plain
  <2>5. a[k] = m[k] BY <2>2, <2>3, <2>4 DEF SameMac
  <2>6. QED BY <2>2, <2>5
<1>3. a = m BY <1>1, <1>2
<1>4. m[1] # 0 /\ NoMac[1] = 0 BY DEF Plain, NoMac
<1>5. QED BY <1>3, <1>4

(* A new client is in the table, and the row it took held no client. *)
LEMMA RegisterAdds ==
  ASSUME NEW g \in 1 .. (Width - 1), TableInv(g), TableInv(g)',
         NEW m \in Macs, NEW r \in Requests, NEW i \in Rows, Register(i, m, r)
  PROVE  i \in Registered' /\ table'[i].mac = m
<1>1. i = deviceCount BY FirstFreeRow DEF Register, TableInv
<1>2. deviceCount + 1 \in Nat /\ deviceCount + 1 < Width BY <1>1
<1>3. deviceCount' = deviceCount + 1 BY <1>2, OctetMod DEF Register
<1>4. i \in 0 .. (deviceCount' - 1) BY <1>1, <1>3
<1>5. i \in Registered' BY <1>4 DEF TableInv, FilledInOrder
<1>6. table'[i].mac = m BY RegisterRows
<1>7. QED BY <1>5, <1>6

(* Only a registration puts an address into a row. *)
LEMMA FreeRowsStep ==
  ASSUME NEW g \in 1 .. (Width - 1), TableInv(g), TableInv(g)', FreeRowsBlank,
         [Next]_tableVars
  PROVE  FreeRowsBlank'
<1>1. ASSUME NEW m \in Macs, NEW r \in Requests, NEW i \in Rows, Register(i, m, r)
      PROVE  FreeRowsBlank'
  <2>1. i \in Registered' BY <1>1, RegisterAdds
  <2> DEFINE row == [id |-> (RaisedSlots + 1) % Width, mac |-> m, slots |-> r]
  <2>2. table' = [table EXCEPT ![i] = row] BY <1>1 DEF Register
  <2> HIDE DEF row
  <2>3. \A j \in Rows \ {i} : table'[j] = table[j] BY <2>2 DEF TableInv, TypeOK
  <2>4. QED BY <2>1, <2>3 DEF FreeRowsBlank, Registered
<1>2. CASE table' = table BY <1>2 DEF FreeRowsBlank, Registered
<1>3. QED BY <1>1, <1>2, OtherCalls

(* Each way through update_server_device_table answers for its caller, but  *)
(* the two that leave the index unset.                                      *)
LEMMA AnswerStep ==
  ASSUME NEW g \in 1 .. (Width - 1), TableInv(g), TableInv(g)', AnswerInv, [Next]_tableVars
  PROVE  AnswerInv'
<1>1. FreeRowsBlank' BY FreeRowsStep DEF AnswerInv
<1> SUFFICES ASSUME Plain(requester'), tableValues'.retval # Nack,
                    deviceCount' < TableSize \/ OwnRows' # {}
             PROVE  tableValues'.index \in OwnRows'
  BY <1>1 DEF AnswerInv, AnswerForRequester, Answered
<1>2. CASE UNCHANGED <<table, deviceCount, tableValues, requester>>
  BY <1>2 DEF AnswerInv, AnswerForRequester, Answered, OwnRows, Registered
<1>3. ASSUME NEW m \in Macs, NEW r \in Requests, Refuse(m, r)
      PROVE  FALSE
  BY <1>3 DEF Refuse
<1>4. ASSUME NEW m \in Macs, NEW r \in Requests, NEW i \in Rows, Duplicate(i, m, r)
      PROVE  tableValues'.index \in OwnRows'
  <2>1. table[i].mac \in Macs \cup {NoMac} BY DEF TableInv, TypeOK
  <2>2. requester' = m /\ tableValues'.index = i /\ table' = table BY <1>4 DEF Duplicate
  <2>3. table[i].mac = m /\ table[i].mac # NoMac
    BY <1>4, <2>1, <2>2, PlainIsExact DEF Duplicate
  <2>4. i \in Registered BY <2>3 DEF AnswerInv, FreeRowsBlank
  <2>5. QED BY <2>2, <2>3, <2>4 DEF OwnRows, Registered
<1>5. ASSUME NEW m \in Macs, NEW r \in Requests, NEW i \in Rows, Register(i, m, r)
      PROVE  tableValues'.index \in OwnRows'
  <2>1. i \in Registered' /\ table'[i].mac = m BY <1>5, RegisterAdds
  <2>2. requester' = m /\ tableValues'.index = i BY <1>5 DEF Register
  <2>3. QED BY <2>1, <2>2 DEF OwnRows
<1>6. ASSUME NEW m \in Macs, NEW r \in Requests, Overflow(m, r)
      PROVE  FALSE
  <2>1. requester' = m /\ table' = table /\ deviceCount' = deviceCount BY <1>6 DEF Overflow
  <2>2. \A i \in Rows : i \in Registered /\ ~SameMac(table[i].mac, m)
    BY <1>6 DEF Overflow, Stops, Registered
  <2>3. TableSize - 1 \in 0 .. (deviceCount - 1)
    BY <2>2 DEF TableInv, FilledInOrder
  <2>4. deviceCount' >= TableSize BY <2>1, <2>3 DEF TableInv, TypeOK
  <2>5. SameMac(m, m) BY DEF SameMac
  <2>6. OwnRows' = {} BY <2>1, <2>2, <2>5 DEF OwnRows, Registered
  <2>7. QED BY <2>4, <2>6 DEF TableInv, TypeOK
<1>7. CASE UNCHANGED tableVars BY <1>2, <1>7 DEF tableVars
<1>8. QED BY <1>2, <1>3, <1>4, <1>5, <1>6, <1>7 DEF Next, Update, Refresh

(* Nobody has asked in the beginning. *)
LEMMA AnswerInit == Init => AnswerInv
<1> SUFFICES ASSUME Init PROVE AnswerInv OBVIOUS
<1>1. FreeRowsBlank BY DEF Init, EmptyRow, FreeRowsBlank
<1>2. requester[1] = 0 BY DEF Init, NoMac
<1>3. ~Plain(requester) BY <1>2 DEF Plain
<1>4. QED BY <1>1, <1>3 DEF AnswerInv, AnswerForRequester, Answered

(* The result kept for the next timer interrupt names the row of the device *)
(* that asked, for every sequence of calls.                                 *)
THEOREM RequesterIsAnswered == NoWrap => (Spec => []AnswerForRequester)
<1> SUFFICES ASSUME NoWrap PROVE Spec => []AnswerForRequester OBVIOUS
<1> PICK g \in 1 .. (Width - 1) : GrantBound(g) BY DEF NoWrap
<1>1. Spec => []TableInv(g) BY TableInvariant
<1>2. TableInv(g) /\ TableInv(g)' /\ AnswerInv /\ [Next]_tableVars => AnswerInv' BY AnswerStep
<1>3. AnswerInv => AnswerForRequester BY DEF AnswerInv
<1>4. QED BY <1>1, <1>2, <1>3, AnswerInit, PTL DEF Spec

-----------------------------------------------------------------------------
(* The refinement: a registration admits one device, any other call leaves  *)
(* the grants as they are.                                                  *)
GrantOf(i) == [mac |-> table[i].mac, first |-> table[i].id, last |-> LastSlotOf(i)]
Grants     == {GrantOf(i) : i \in Registered}

GrantsProper == \A i \in Registered :
                  /\ table[i].id \in 1 .. (Width - 1)
                  /\ LastSlotOf(i) \in 1 .. (Width - 1)
                  /\ table[i].id <= LastSlotOf(i)
                  /\ StartingSlots < table[i].id

(* The invariant gives every grant a proper range of slots. *)
LEMMA InvGivesProper ==
  ASSUME NEW g \in 1 .. (Width - 1), GrantBound(g), TableInv(g) PROVE GrantsProper
<1> SUFFICES ASSUME NEW i \in Registered
             PROVE  /\ table[i].id \in 1 .. (Width - 1)
                    /\ LastSlotOf(i) \in 1 .. (Width - 1)
                    /\ table[i].id <= LastSlotOf(i)
                    /\ StartingSlots < table[i].id
  BY DEF GrantsProper
<1>1. UniqueSlots BY InvGivesUniqueSlots
<1>2. i \in Rows /\ table[i].id # 0 BY DEF Registered
<1>3. QED BY <1>1, <1>2, RowTypes DEF UniqueSlots, TableInv

(* A call is a grant of the registry or changes no grant. *)
LEMMA RegistryStep ==
  ASSUME NEW g \in 1 .. (Width - 1), TableInv(g), TableInv(g)', UniqueSlots',
         GrantsProper', [Next]_tableVars
  PROVE  Registry!Next \/ Grants' = Grants
<1>1. ASSUME NEW m \in Macs, NEW r \in Requests, NEW i \in Rows, Register(i, m, r)
      PROVE  Registry!Next \/ Grants' = Grants
  <2>1. /\ i \notin Registered
        /\ Registered' \subseteq Registered \cup {i}
        /\ \A j \in Registered : table'[j] = table[j]
        /\ table'[i].mac = m
        /\ \A j \in Registered : ~SameMac(table[j].mac, m)
    BY <1>1, RegisterRows
  <2>2. \A j \in Registered : GrantOf(j)' = GrantOf(j) /\ j \in Registered'
    BY <2>1 DEF GrantOf, LastSlotOf, SlotsOf, Registered
  <2>3. CASE i \in Registered'
    <3>1. Registered' = Registered \cup {i} BY <2>1, <2>2, <2>3
    <3> DEFINE new == GrantOf(i)'
    <3>2. Grants' = Grants \cup {new}
      BY <2>2, <3>1 DEF Grants
    <3>3. new.mac = m /\ new.first = table'[i].id /\ new.last = LastSlotOf(i)'
      BY <2>1 DEF GrantOf
    <3>4. new \in Registry!Grant
      BY <2>1, <2>3 DEF GrantsProper, GrantOf, Registry!Grant
    <3>5. ASSUME NEW h \in Grants PROVE ~Registry!Overlap(new, h) /\ h.mac # new.mac
      <4>1. PICK j \in Registered : h = GrantOf(j) BY DEF Grants
      <4>2. j # i /\ j \in Registered' BY <2>1, <2>2, <4>1
      <4>3. LastSlotOf(i)' < table'[j].id \/ LastSlotOf(j)' < table'[i].id
        BY <2>3, <4>2 DEF UniqueSlots
      <4>4. h.first = table'[j].id /\ h.last = LastSlotOf(j)' /\ h.mac = table[j].mac
        BY <2>1, <4>1 DEF GrantOf, LastSlotOf, SlotsOf
      <4>5. ~SameMac(h.mac, m) BY <2>1, <4>4
      <4>6. SameMac(m, m) BY DEF SameMac
      <4>7. h.mac # new.mac BY <3>3, <4>5, <4>6
      <4>8. ~Registry!Overlap(new, h)
        <5>1. /\ table'[i].id \in Int /\ LastSlotOf(i)' \in Int
              /\ table'[j].id \in Int /\ LastSlotOf(j)' \in Int
          BY <2>3, <4>2 DEF GrantsProper
        <5> HIDE DEF new
        <5>2. QED BY <3>3, <4>3, <4>4, <5>1 DEF Registry!Overlap
      <4>9. QED BY <4>7, <4>8
    <3>6. StartingSlots < new.first /\ new.first <= new.last
      BY <2>3, <3>3 DEF GrantsProper
    <3> HIDE DEF new
    <3>7. PICK n \in Registry!Grant : n = new BY <3>4
    <3>8. Registry!Admit(n)
      BY <3>2, <3>5, <3>6, <3>7 DEF Registry!Admit, Grants, GrantOf
    <3>9. QED BY <3>8 DEF Registry!Next
  <2>4. CASE i \notin Registered'
    <3>1. Registered' = Registered BY <2>1, <2>2, <2>4
    <3>2. QED BY <2>2, <3>1 DEF Grants
  <2>5. QED BY <2>3, <2>4
<1>2. CASE table' = table
  <2>1. Registered' = Registered BY <1>2 DEF Registered
  <2>2. QED BY <1>2, <2>1 DEF Grants, GrantOf, LastSlotOf, SlotsOf
<1>3. QED BY <1>1, <1>2, OtherCalls

(* Joining through the table implements the registry of slots: whatever the *)
(* order and the repetition of the requests, and whatever is refused.       *)
THEOREM TableImplementsRegistry == NoWrap => (Spec => ImplementsRegistry)
<1> SUFFICES ASSUME NoWrap PROVE Spec => Registry!Spec BY DEF ImplementsRegistry
<1> PICK g \in 1 .. (Width - 1) : GrantBound(g) BY DEF NoWrap
<1>1. Spec => []TableInv(g) BY TableInvariant
<1>2. TableInv(g) => UniqueSlots /\ GrantsProper
  BY InvGivesUniqueSlots, InvGivesProper
<1>3. Init => Registry!Init
  BY DEF Init, EmptyRow, Registered, Registry!Init
<1>4. TableInv(g) /\ TableInv(g)' /\ (UniqueSlots /\ GrantsProper)' /\ [Next]_tableVars
        => [Registry!Next]_Grants
  BY RegistryStep
<1>5. QED BY <1>1, <1>2, <1>3, <1>4, PTL DEF Spec, Registry!Spec, Grants, GrantOf
=============================================================================
