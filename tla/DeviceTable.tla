----------------------------- MODULE DeviceTable -----------------------------
(***************************************************************************)
(* The server's client device table (API/src/comms_server_db.c) together   *)
(* with the slot counter of the server device (create_server_device in     *)
(* API/src/comms_network.c).  A step is one call of                        *)
(* update_server_device_table as the timer interrupt makes it: the         *)
(* interrupt first calls create_server_device, which lifts the slot        *)
(* counter to its starting value if it is below, and then the state        *)
(* machine may update the table.  All counters are octets.                 *)
(*                                                                         *)
(* A MAC address is the sequence of its octets.  The table compares them   *)
(* with strncmp and copies them with strncpy, which both stop at a zero    *)
(* octet, so the octets matter and the address is not a model value.       *)
(***************************************************************************)
EXTENDS Integers, Sequences, FiniteSets

CONSTANTS
  MacLength,      \* NET_MAC_SIZE (6): octets of a MAC address
  Macs,           \* the MAC addresses of the devices that may ask to join
  Requests,       \* the slot counts a join request may ask for (an octet)
  TableSize,      \* CLIENT_TABLE_SIZE (20): rows of the table
  MaxSlots,       \* COMMS_SERVER_MAX_SLOTS (20): most slots one request may ask
  StartingSlots,  \* STARTING_SLOTS (3): sync, access and broadcast slot
  Width           \* 256: the values of an octet

Octet == 0 .. (Width - 1)
Rows  == 0 .. (TableSize - 1)

(* What every build has: octets that hold the table and its requests. *)
ASSUME SizesAssumption ==
  /\ MacLength \in Nat \ {0}
  /\ Width \in Nat
  /\ TableSize \in 1 .. (Width - 1)
  /\ MaxSlots \in 1 .. (Width - 1)
  /\ StartingSlots \in 1 .. (Width - 1)

ASSUME MacsAssumption     == Macs \subseteq [1 .. MacLength -> Octet]
ASSUME RequestsAssumption == Requests \subseteq Octet

VARIABLES
  table,        \* client_devices: id, MAC and slots of every row
  totalSlots,   \* server_device.total_slots
  deviceCount,  \* server_device.device_count
  tableValues,  \* table_values: index and return value of the last update
  requester     \* client_mac_address: whom the last update was made for

tableVars == <<table, totalSlots, deviceCount, tableValues, requester>>

-----------------------------------------------------------------------------
(* A MAC address of zeros is that of a row never written. *)
NoMac    == [k \in 1 .. MacLength |-> 0]
EmptyRow == [id |-> 0, mac |-> NoMac, slots |-> 0]

(* Mutant of SameMac: only the first octet is compared. *)
SameMacFirst(a, b) == a[1] = b[1]

(* strncmp(a, b, 6) == 0: nothing after a common zero octet is compared. *)
SameMac(a, b) == \A k \in 1 .. MacLength :
                   (\A j \in 1 .. (k - 1) : a[j] = b[j] /\ a[j] # 0) => a[k] = b[k]

(* strncpy(_, a, 6): the octets after the first zero are not copied. *)
CopyMac(a) == [k \in 1 .. MacLength |->
                 IF \E j \in 1 .. k : a[j] = 0 THEN 0 ELSE a[k]]

(* Mutants of RaisedSlots: the starting slots are added in every interrupt; *)
(* the constructor does not run before the first request.                   *)
RaisedSlotsAdded == totalSlots + StartingSlots
RaisedSlotsLate  == totalSlots

(* create_server_device: total_slots is lifted, never lowered. *)
RaisedSlots == IF StartingSlots > totalSlots THEN StartingSlots ELSE totalSlots

(* Mutant of Granted: the counter counts clients, not slots. *)
GrantedOne(r) == 1

(* Slots the counter advances by for a request of r slots. *)
Granted(r) == IF r > 1 THEN r ELSE 1

(* Return values of update_server_device_table. *)
Success == 0
Nack    == -2
Dup     == -3
RetVals == {Success, Nack, Dup}

(* An index read before it was written: any octet.  The value TableSize     *)
(* stands for all the octets that lie outside the table.                    *)
AnyIndex == 0 .. TableSize

(* Mutants of Stops: only a free row ends the loop; a row is taken to be    *)
(* free when it records no slots.  Mutant of IsFirstRow: the loop does not  *)
(* end at the first row that fits.                                          *)
StopsAtFree(i, m)    == table[i].id = 0
StopsAtNoSlots(i, m) == SameMac(table[i].mac, m) \/ table[i].slots = 0
IsSomeRow(i, m)      == SameMac(table[i].mac, m) \/ table[i].id = 0

(* The loop stops at row i for the request of m: a row with that MAC, or a  *)
(* free row, whichever comes first.                                         *)
Stops(i, m)     == SameMac(table[i].mac, m) \/ table[i].id = 0
IsFirstRow(i, m) == Stops(i, m) /\ \A j \in 0 .. (i - 1) : ~Stops(j, m)

-----------------------------------------------------------------------------
Init == /\ table       = [i \in Rows |-> EmptyRow]
        /\ totalSlots  = 0
        /\ deviceCount = 0
        /\ tableValues = [index |-> 0, retval |-> Success]
        /\ requester   = NoMac

(* A timer interrupt that does not touch the table. *)
Refresh == /\ totalSlots' = RaisedSlots
           /\ UNCHANGED <<table, deviceCount, tableValues, requester>>

(* More slots than one client may have: the index is left unset. *)
Refuse(m, r) ==
  /\ r > MaxSlots
  /\ \E x \in AnyIndex : tableValues' = [index |-> x, retval |-> Nack]
  /\ totalSlots' = RaisedSlots
  /\ requester' = m
  /\ UNCHANGED <<table, deviceCount>>

(* The table holds a row for this MAC. *)
Duplicate(i, m, r) ==
  /\ r <= MaxSlots
  /\ IsFirstRow(i, m)
  /\ SameMac(table[i].mac, m)
  /\ tableValues' = [index |-> i, retval |-> Dup]
  /\ totalSlots' = RaisedSlots
  /\ requester' = m
  /\ UNCHANGED <<table, deviceCount>>

(* The next free row becomes the client's. *)
Register(i, m, r) ==
  /\ r <= MaxSlots
  /\ IsFirstRow(i, m)
  /\ ~SameMac(table[i].mac, m)
  /\ table' = [table EXCEPT ![i] = [id |-> (RaisedSlots + 1) % Width, mac |-> m, slots |-> r]]
  /\ totalSlots' = (RaisedSlots + Granted(r)) % Width
  /\ deviceCount' = (deviceCount + 1) % Width
  /\ tableValues' = [index |-> i, retval |-> Success]
  /\ requester' = m

(* No row left: the loop ends and neither field of the result is set. *)
Overflow(m, r) ==
  /\ r <= MaxSlots
  /\ \A i \in Rows : ~Stops(i, m)
  /\ \E x \in AnyIndex, v \in RetVals : tableValues' = [index |-> x, retval |-> v]
  /\ totalSlots' = RaisedSlots
  /\ requester' = m
  /\ UNCHANGED <<table, deviceCount>>

(* update_server_device_table. *)
Update(m, r) == \/ Refuse(m, r)
                \/ \E i \in Rows : Duplicate(i, m, r)
                \/ \E i \in Rows : Register(i, m, r)
                \/ Overflow(m, r)

Next == Refresh \/ \E m \in Macs, r \in Requests : Update(m, r)

Spec == Init /\ [][Next]_tableVars

-----------------------------------------------------------------------------
(* Mutant of RowsWithId: the id is taken for the index of a row. *)
RowsAtIndex(id) == {i \in Rows : i = id}

(* find_client_device by id: the first row with that id, zero included. *)
RowsWithId(id) == {i \in Rows : table[i].id = id}
Known(id)      == RowsWithId(id) # {}

(* The clients the table holds. *)
Registered == {i \in Rows : table[i].id # 0}
MemberIds  == {table[i].id : i \in Registered}
SlotsOf(i)     == IF table[i].slots = 0 THEN 1 ELSE table[i].slots
LastSlotOf(i)  == table[i].id + SlotsOf(i) - 1

TypeOK ==
  /\ table \in [Rows -> [id : Octet, mac : Macs \cup {NoMac}, slots : Octet]]
  /\ totalSlots \in Octet
  /\ deviceCount \in Octet
  /\ tableValues \in [index : AnyIndex, retval : RetVals]
  /\ requester \in Macs \cup {NoMac}

(* The slot counter can serve a full table without leaving its octet: the   *)
(* case for clients that ask for one slot, as the client of the repository  *)
(* does, and no longer the case for twenty clients of twenty slots.         *)
GrantBound(g) == /\ \A r \in Requests : r <= MaxSlots => r <= g
                 /\ StartingSlots + TableSize * g < Width
NoWrap == \E g \in 1 .. (Width - 1) : GrantBound(g)

-----------------------------------------------------------------------------
(* No transmit slot is shared: the slots a client may send in, from its id  *)
(* on, belong to no other client and to none of the server's own slots.     *)
(* The id is computed from a running octet counter, never from the rows.    *)
UniqueSlots ==
  /\ \A i \in Registered : StartingSlots < table[i].id /\ LastSlotOf(i) < Width
  /\ \A i, j \in Registered :
       i # j => LastSlotOf(i) < table[j].id \/ LastSlotOf(j) < table[i].id

(* One row per device: a device that asks again is found in its row and not *)
(* entered a second time, whatever zero octets the addresses hold.          *)
UniqueDevices ==
  \A i, j \in Registered : i # j => ~SameMac(table[i].mac, table[j].mac)

(* The clients fill the table from row 0 and device_count counts them, so   *)
(* that the first free row is the one after the last client.                *)
FilledInOrder == Registered = 0 .. (deviceCount - 1)

(* The slots are handed out in the order of the rows, each client's above   *)
(* those of the clients before it and within what the counter has counted.  *)
SlotsInOrder ==
  /\ \A i \in Registered : StartingSlots < table[i].id /\ LastSlotOf(i) <= RaisedSlots
  /\ \A i, j \in Registered : i < j => LastSlotOf(i) < table[j].id

(* The inductive invariant behind UniqueSlots: no client takes more than g  *)
(* slots, so the counter stays below its octet while rows are left.         *)
TableInv(g) == /\ TypeOK
               /\ deviceCount <= TableSize
               /\ FilledInOrder
               /\ SlotsInOrder
               /\ UniqueDevices
               /\ RaisedSlots <= StartingSlots + deviceCount * g

(* A client keeps its row: no later call, accepted or refused, moves or     *)
(* changes the id a client was told.                                        *)
StableRows == [][\A i \in Registered : table'[i] = table[i]]_tableVars

(* An address without a zero octet, and the rows of the last requester.     *)
Plain(m) == \A k \in 1 .. MacLength : m[k] # 0
OwnRows  == {i \in Registered : table[i].mac = requester}

(* The last call had an answer to give: it was no refusal, the address has  *)
(* no zero octet and the table was not full without it.                     *)
Answered == /\ tableValues.retval # Nack
            /\ Plain(requester)
            /\ deviceCount < TableSize \/ OwnRows # {}

(* The row the state machine will read to build its JOINRESP is the row of  *)
(* the device that asked, whenever there is an answer for it.  The index is *)
(* kept for a later interrupt and in two branches never written.            *)
AnswerForRequester == Answered => tableValues.index \in OwnRows

(* The registry this table implements: the grants are the registered rows.  *)
Registry == INSTANCE SlotRegistry WITH
              Reserved <- StartingSlots,
              LastSlot <- Width - 1,
              grants   <- {[mac |-> table[i].mac, first |-> table[i].id,
                            last |-> LastSlotOf(i)] : i \in Registered}

(* Joining through the table implements the registry of slots.              *)
ImplementsRegistry == Registry!Spec
=============================================================================
