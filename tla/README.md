# Light-weight wireless protocol: TLA+ models, checks and proofs

This directory holds a formal model of the protocol in `src/API` (a slotted-ALOHA network of one
server and up to twenty clients) and of the interrupt routines of the TM4C123 example that run it.
TLC checks the modules on small instances; TLAPS proves the central invariants for every value of
the constants.

## The system

A device is a microcontroller with a radio on a serial port. Nothing runs but interrupt routines
and, on a client, a main loop that reads lines from a console. The interrupts have one priority:
a handler is never interrupted by another handler, and it may interrupt the main loop anywhere.

| Component | State it keeps | Operations | Interacts with |
|---|---|---|---|
| Client device table (`comms_server_db.c`) | `client_devices[20]` (id, MAC, slots), `server_device.total_slots` and `.device_count` (octets), the last `table_values` | `update_server_device_table`, `read_client_table`, `find_client_device` | called by the server state machine |
| Server state machine (`comms_server_fsm.c`) | `fsm_state`, ids, payload and table result in `static` variables | `comms_start_server`, one state per timer interrupt | reads flags and queue that the receive interrupt fills; sends frames; sets its own timer; uses the table |
| Server reception (`comms_server_recv_it`) | `read_message`, `flag_state`, `network_queue[4]`, `queue_pos` | one octet per interrupt; a whole frame sets a flag or is moved to the queue | shares everything with the state machine |
| Client state machine (`comms_client_fsm.c`) | `fsm_state`, `device_network_id`, slot, slot time, `application_flags`, `network_message` | `comms_start_client`, one state per timer interrupt | flags of the receive interrupt, button, main loop |
| Client reception (`comms_client_recv_it`) | `read_message`, `flag_state` | a whole frame sets the one flag; a SYNC restarts the timer | state machine |
| Application interface (`send_application_message`) | `application_message`, its length, one bit of `application_flags` | called from the main loop | shares the octet of flags and the message with the interrupts |
| Messages (`comms_protocol.c`) | none | build and read JOINREQ, JOINRESP, STATUS, CONTRL frames | the state machines |
| Timer (`application(s)_functions.c`) | match value of the hardware timer | `set_tx_timer`, `rst_timer` | paces the state machine |
| Button, gateway application | `network_join_response`, `network_join_request`; `gateway_connected`, `network_message_ready` | set or clear a flag | state machines |
| Wrappers for LEDs and debug output, UART/GPIO/radio/console drivers | - | pure I/O | not modelled |

**What is hard here.** A decision is made in one timer period and carried out in the next, from
`static` variables, while frames arrive in between. A frame is received octet by octet into the one
buffer from which an earlier frame is still to be read. A message is announced twice (by a flag and
by `queue_pos`). The application thread writes shared flags by loading and storing a whole octet.
Devices keep time by timers of their own, restarted by the last SYNC each of them heard. The end of a
frame is looked for in binary data, in a buffer that still holds the tail of an older frame.
All counters are octets. Every array has a bound which some other function checks, or does not.
`PROJECT.json` lists each such hazard with its line.

**What makes each part correct.**
*Table*: no slot is given twice, no slot of the server is given away, one row per device, rows never
move, the answer names the device that asked.
*Server*: the queue is never read empty nor written full, the timer fits the frame that comes next,
an answer goes to the device whose frame it answers, SYNC recurs, the queue drains.
*Client*: joined exactly when it has a slot, sends only in its own slot and only once per SYNC, never
forgets or tears a message.
*Frames*: a frame is heard if it is whole and meant for the receiver, it is read as it was sent, nothing
is written behind a buffer and the receive interrupt returns.
*Network*: a joined client holds the slot that the table has for it, members never transmit at once, a
message that an application hands over is sent after the next SYNC that its client hears, and answered,
once, if no frame is lost.

## Modules

| Module | What it is |
|---|---|
| `SlotRegistry` | Abstract specification of joining: each admitted device gets an interval of slots disjoint from all others and above the server's own. |
| `DeviceTable` | The table and the slot counter. One action per branch of `update_server_device_table`. Implements `SlotRegistry`. |
| `DeviceTableProofs` | Theorems about `DeviceTable`. |
| `ServerFsm` | The server: state machine, reception, button and gateway application. EXTENDS `DeviceTable` and calls its actions. |
| `ServerFsmProofs` | Theorems about `ServerFsm`, and the table's theorems carried over to it. |
| `ClientFsm` | The client: state machine, reception, button and application thread. |
| `ClientFsmProofs` | Theorems about `ClientFsm`. |
| `ServerQueueProofs` | Theorems about the server's queue and its answers. |
| `Station` | A client with its timer counted in slots. EXTENDS `ClientFsm`. |
| `StationProofs` | Lemmas about one client beside the server's clock and the channel; `NetworkProofs` has it twice. |
| `Network` | One server, two clients and the radio channel in slotted time. EXTENDS `ServerFsm`, two INSTANCEs of `Station`. |
| `Delivery` | Abstract specification of what the network promises its applications. Implemented by `Network`. |
| `NetworkProofs` | Theorems about `Network`: slots, collisions, joining, and the server as alone. |
| `Messages` | The octets of the frames: how they are made and read, and what a device may say in them. |
| `MessagesProofs` | Theorems that frames are well formed and read as they were made. |
| `Framing` | The receive interrupts octet by octet, on a channel that loses octets. EXTENDS `Messages`. |
| `FramingProofs` | Theorems about `Framing`. |
| `MCDeviceTable`, `MCServerFsm`, `MCClientFsm`, `MCNetwork`, `MCFraming` | Small sets of values for TLC. |

### DeviceTable and the code

`table`, `totalSlots`, `deviceCount`, `tableValues` are the C variables; `requester` is the local
`client_mac_address` of the caller. A step is one call as the timer interrupt makes it: the interrupt
first runs the constructor `create_server_device`, which lifts `total_slots` to at least three
(`RaisedSlots`), so every action applies that lift. `Refuse`, `Duplicate`, `Register` and `Overflow`
are the four ways through the function. `strncmp` and `strncpy` stop at a zero octet, so a MAC
address is a sequence of octets and `SameMac`/`CopyMac` say what these calls do. The fields of the
result that a branch leaves unwritten are whatever the stack held: `Refuse` picks any index,
`Overflow` any index and any result. `AnyIndex` has one value, `TableSize`, for all indices outside
the table.

### ServerFsm and the code

| Action | Code |
|---|---|
| `Start`, `MsgRead`, `Sync`, `JoinRequest`, `JoinResponse` | the `case`s of the same name in `comms_start_server` |
| `StatusLocal`, `StatusForward`, `StatusOffline`, `StatusDrop` | the branches of `STATUSMSG_STATE`; `TakeStatus` is what they share |
| `ControlLocal`, `ControlGateway` | `CONTROLMSG_STATE` in the two modes |
| `RxStatus`, `RxForeign` | a STATUS frame, from a client or a neighbouring network, that `comms_server_recv_it` stores |
| `RxJoinReq` | a JOINREQ frame, left in `read_message` with the flag set |
| `RxHead`, `RxOther` | the first octets of some frame have arrived; a frame that is not stored has ended |
| `PressButton`, `GatewayApp` | `gpioPortFIsr`; the external gateway application |

A frame is a record of the fields the state machine distinguishes. A join request in the buffer has
an address, a slot count and `valid`, which stands for the comparison of network id, user name and
password. `RxHead` replaces the address only: this is the state in the middle of a frame, which the
state machine sees when the timer expires then. Reading the row of a result whose index is outside
the table yields any address and id (`RowRead`).

A store beyond the queue (`queue_pos` = 4) and the copy with length -9 overwrite other variables.
The model sets `overrun` and stops: nothing after it is predictable, so nothing is claimed.
The run `ServerGateway`, which reaches an overrun, therefore does not check for deadlock; in
`ServerLocal` no overrun occurs and deadlock is checked.

`handling` is the STATUS frame last taken from the queue, `sent` the frame sent by the last timer
interrupt: the properties refer to them, no guard does. `heard` is the set of clients that may still
answer the last SYNC (a client sends at most one STATUS for a SYNC, which is `StatusInOwnSlot` of
`ClientFsm`), and `foreignLeft` bounds the frames of the neighbouring network.

`server/main.c` writes `buffer.receive_message`, which the API's structure does not have; the model
takes it for `read_message`, as in the client's `main.c`. `STATUSACK_STATE` ("Not implemented /
tested") cannot be entered: no received frame sets a flag of that value and no state assigns it.

### ClientFsm and the code

`DevInit`, `DevSync`, `DevJoinReq`, `DevJoined` are the `case`s of `comms_start_client`, with the
conditions inside as actions of their own (`SendJoinReq`, `ReadJoinResp`, `SendStatus`,
`ReadContrl`, ...). `MainClear`, `MainCopy`, `MainLength`, `MainLoad`, `MainStore` are the places of
`send_application_message` between which an interrupt can run: clearing the text, copying it,
writing its length, loading the octet of flags, storing it with one bit set. The copy of the text is
one step; half-copied texts are not distinguished from the cleared one.

`buf` is the last frame. A frame of which only the beginning has arrived makes the buffer
`Unreadable`, and what is read from it is open (`SyncData`, `OfferedIds`, `Taken`). The text of a
CONTRL frame is left out; `Taken` says whether `comms_get_contrl_data` returns something else
than 0, which sets `network_message_ready`.
`SetTimer` is the chain `comms_network_set_timer` and `set_tx_timer`: a slot time or slot number of 0
leaves the timer as it was.

### Station, Network and the code

`Station` adds to `ClientFsm` the one thing it leaves open, when the timer expires. `count` is what is
left of the match value that `set_tx_timer` programmed, in slots: `Expire` is `wTimer5Isr`, which sets
the counter back, `HearSync` is the reception of a SYNC with `rst_timer`. The main thread hands its
message over in one step (`Post`), since the interrupted hand-over is the subject of `ClientFsm`.
`Restart` is a reset of the board: everything in RAM begins anew.

`Network` has one server and two clients. Every step of a device is the action of its own module; the
module adds the channel and time:

| Action | What it is |
|---|---|
| `ServerExpires`, `AExpires`, `BExpires` | a timer interrupt; what it sends goes into `air` (`Transmit`, the code's `comms_send` and `xbee_send`) |
| `SlotPasses` | the counters of all timers go down by one |
| `Begin` | the first octets of a frame are in the buffers of those who hear it (`RxHead`, `HearOther`) |
| `Arrive` | the frame has been received by everybody but its sender |
| `Miss` | the same, but the radio lost the frame for one receiver |
| `Operator`, `Applications` | the three buttons; a message of a client's application |
| `Reset` | a client is reset |

Two assumptions tie clocks to each other. A client's clock is set by a SYNC on its arrival and so runs
behind the server's: within a slot the server's timer comes first (`ClientsMayExpire`). A frame is in
the air for about a slot: the server's frames arrive in the slot they were sent in, before or after
the clients' timers; a client's frame arrives before the clients' timers expire again, which may be
after the server's next expiry. Frames in the air together spoil each other; a spoiled frame still
leaves its octets in the buffers.

A client's STATUS is moved from the frame to the server's queue (`StatusOf`, `Store`), and a server's
frame becomes what its reader distinguishes (`Reply`): is the address mine, is the destination mine.
The module `ServerFsm` assumes that a client sends at most one STATUS per SYNC and only when it is in
the table (`heard`); `ServerAsAlone` checks here that the clients do no more than that, so what was
shown of the server alone holds of the server in its network.

`Delivery` counts for each client the messages that are not answered. The refinement mapping `Owed`
adds up where such a message can be: the flag of the thread, the air, the queue, the server's `static`
variables, the air again as a CONTRL frame, the buffer of the client that the answer is for.

### Messages, Framing and the code

`Messages` has one operator for each function that makes a frame and one for each that reads it, over
sequences of octets, with the packed little-endian layout of the structures. `Decimal` and `IdAt` are
the way of an id through `ltoa` and `atoi`, as a signed octet. `ReadControl` takes the length of the
text with `strlen`, as the code does. `Saying(o, s)` ties a frame to what it says: `Syncs`, `JoinReqs`,
`JoinResps`, `Statuses` and `Controls` are all contents that the structures and the callers allow. A text
is a C string of less than 62 octets (`send_application_message` refuses longer ones); an address in a
JOINREQ is what `strncpy` leaves of one.

`Framing` is one receive interrupt, the server's or the client's (`side`), that gets the octets of
frames one by one (`Hear`) or not (`Lose`). `RecvIt` stores the octet at the index and continues
(`More`), hangs in the checksum (`Hang`), drops the frame (`Reject`) or sets the flag (`Accept`). The
server sums the octets it counted, the client those that the header announces (`Summed`). `mem` is
`read_message` with the memory behind it; the octet before it, which the code reads when the index is
0, holds the application flags (`FlagsOctet`). In the program that octet changes with the flags; here it
has one value for each side, which is enough to have an octet there that is no `\r`. `Read` is the state machine, which clears the buffer
after it has read a frame, or does not come before the next frame begins. After `Hang` the interrupt
does not return and nothing more happens. `FramesAssumption` says that the frames are any that the
functions of the protocol make. `heard`, `lost` and `before` (what was heard and lost of the current
frame, what was lost of the one before) are observations: the properties refer to them, no action of
the receiver does.

## Runs

Each run checks one question; `PROJECT.json` maps properties to runs and to a mutant of the code
that the run must reject.

| Run | Instance | Question |
|---|---|---|
| `TableJoins` | 3 rows, 5 devices (addresses equal up to a zero octet, beginning with zero, ordinary), requests of 0, 2 and 3 slots of at most 2, octets of 12 values | slots and devices unique, rows in order and stable, answers name the requester's row, types, refinement of `SlotRegistry` |
| `ServerLocal` | local server, 2 clients (one with a zero octet in its address), requests that are granted and refused, queue of 4 (limit 5) | types, flag/queue and timer consistency, no overrun, messages and join requests are answered where they belong, a join request yields to nothing but a message, the table's promises kept; SYNC recurs, the queue drains |
| `ServerGateway` | gateway, 1 client, requests that are granted and refused, up to 2 foreign frames, queue of 2 (limit 3) | flag/queue and timer consistency, offline notice reaches its sender |
| `Client` | 2 networks, 2 ids | joined state and slot agree, pending messages stay pending, STATUS only in the own slot |
| `Network` | local server, 2 clients that may ask to join at once, queue of 4 (limit 5), no loss | slots agree with the table, members do not collide, SYNC data are read from a SYNC, only clients are in the table, no message or answer is lost, the server as alone; every message is answered |
| `NetworkFaults` | the same with one missed frame and one reset, one client asking to join at a time | the same slots, collisions, SYNC data and server; a message is sent after the next SYNC its client hears (with its frame it may be lost, and the answer, too) |
| `Framing` | both sides, buffer of 64, 6 and 10 frames (ordinary, with a terminator inside, of 72 octets), up to 3 in a row, one lost octet in two frames in a row | which frames are heard, what is read, what is written behind the buffer, when the interrupt hangs |

The runs that end in a violation state what a comment or the README says and show that the code does
otherwise:

| Run | What it shows |
|---|---|
| `ServerGatewayQueue` | the fifth message is stored behind the queue of four |
| `GatewayTimer` | a gateway that has answered once keeps the broadcast slot as its period: SYNC comes every six slots, however many it has given away |
| `ServerEcho` | a message for the server itself is answered with DEVICE NOT FOUND and not with its echo |
| `ClientWholeMessages` | the interrupt sends half of a message, or one with another's length |
| `FramingStaleTail` | a short CONTRL frame after a SYNC is delivered with the end of the SYNC behind its text, without any loss |

Some limits of the code are premises of a property instead of a run of their own:

- `AnswerForRequester` excludes addresses with a zero octet (`strncmp` takes a free row for theirs) and
  devices that find the table full (neither field of the result is written), and refusals (the index is
  not written). `Answered` is the name of what is left, and `JoinRespToRequester` has the same premise.
  The code does send a JOINRESP in the other cases as well: that of a refusal is built from the row the
  stack points to, another client's or a free one, and does not reach the device that asked. `ServerLocal`
  has refusals in between; devices for which the table has no room come in `TableJoins` and, for the
  answer a period later, in the theorem `JoinAnswersRequester`, which is about any devices and any table.
- The properties about CONTRL frames speak of messages of this network. `comms_get_status_message` reads
  nothing of another network's, `comms_server_fsm.c` ignores that result and answers all the same: a
  local server without text and from the ids 0 that the last answer has left, a gateway with
  the ids of the message before.
- `ControlAnswersStatus` says of a message to destination 1 only that it is answered to its sender.
  `comms_control_message` has a branch that echoes such a message, but `comms_server_fsm.c` has set the
  destination to 0 before, because the server is not in its own table. The branch is dead, and the
  client of the repository, which sends to 1 only, is always told DEVICE NOT FOUND (run `ServerEcho`).
- `StatusInOwnSlot` and `MembersDoNotCollide` exclude JOINREQ frames: a JOINREQ may go out at a later
  expiry than the access slot, since a SYNC flag that no press of the button consumes stays set.
- `IdsAssumption` says that a client is given an id above 3, which `UniqueSlots` guarantees while the
  server's counter does not wrap. With twenty rows and up to twenty slots for each it can wrap:
  the slots of the thirteenth client of twenty each run past 255, and what follows are slots of earlier
  clients or of the server (ids 0 to 3).
- `JoinsThisNetwork` holds in `NetworkFaults` only because one client asks to join at a time
  (`OneAtATime`). Otherwise a client that is reset around a SYNC may read its network id and its
  slot time from the JOINREQ of the other client that follows. Without a reset both may ask at once
  (theorem `NetworkIsJoined`). With a slot time from a foreign frame
  its timer may take minutes to expire, or never expire.
- `MembersAreClients` is about frames that arrive or do not. If the head of a frame arrives and its
  end is lost, its octets can replace the address of a join request already checked, and a device that
  does not exist is entered.
- `PlainIsHeard` is about frames that hold no terminator before their end, behind a frame whose own
  terminator was not damaged. A network id of 29709, a MAC address with 13 and 116 in a row, or a STATUS or
  CONTRL frame to id 13 with a text that begins with `t` is cut in two and never heard. `ReadAsSent` is
  about what was heard of a frame: a loss may put 13 and 116 next to each other. It also excludes a lost
  octet of a header, and a lost octet that is replaced by an equal one: a zero on the server's side,
  whose sum does not see it; on the client's side the octet that an older frame left where the frame now
  ends one octet early.
- `SpillsOnlyIf`: frames of STATUS and CONTRL may have up to 73 octets, nine more than the buffer.
- `HangsOnlyIf`: a lost octet before the length can make the client take a larger octet for the length,
  and a lost terminator lets the server count past 127; the loop of the checksum counts in a signed
  octet and never ends. A client also hangs without any loss, on a frame that is cut in two: in a CONTRL
  frame to id 13 with the text `taaa{` the second half has `{`, 123, where a header has its length.

**Bounds.** Octets have `Width` values, 256 in the code. `TableJoins` chooses a width at which a full
table just fits; the others need no more than the ids in use. A queue of four with limit five is kept
where the question is about it; in `ServerGateway` the queue is two with limit three, which keeps the
off-by-one and is full after two frames, so that the run covers the steps up to and including the
overrun. `MaxForeign` bounds the neighbouring network. Two clients suffice for the
server's properties, which relate at most two (sender and addressee), and the queue's bound
"two messages of each client" is reached with four entries. One text suffices for the client's
properties; the run about torn messages uses two.
In the network each client's button is pressed once per boot (`MaxPresses`), so that a client asks,
is heard or not, and asks again after a reset. A second press without a reset is no mere repetition:
a client that has missed a frame and still has an older SYNC flag sends its second request out of its
phase. Its first octets then replace a JOINRESP in the other client's buffer before that client's timer
expires, which joins with another id than the table's. TLC finds this with one missed frame and two
presses, both clients joining at once; without a missed frame the slots agree with two presses, too. `MaxOwed` (3) is not
reached by the model: it bounds `Delivery`, and TLC would report a submission above it. Two clients are
the least that can collide and exchange messages; the slot arithmetic of more is the table's, which is
proved. One missed frame and one reset, in any order and at any time, cover a lost SYNC, JOINREQ,
JOINRESP, STATUS and CONTRL frame and a client that was in any of its states.
`Framing` takes three frames: one that leaves octets behind, one that is damaged, one to see the
recovery; a lost octet damages its own frame and the next at most, which is what `PlainIsHeard` says,
so that losses are counted in two frames in a row. `Top` leaves room for 260 octets from the buffer on,
more than an index of an octet can reach.

**Fairness.** On the server, `WF_vars(Tick)`: the timer interrupt writes 0 to its counter and
leaves the timer running, nothing else restarts it and nothing masks it, so it recurs. No fairness is
assumed of the radio, the button, the applications or the main loop, and none of a client alone: every
SYNC restarts the client's timer, and the SYNCs of two networks, or of a gateway that has left its timer
on the broadcast slot (run `GatewayTimer`), may come so often that it never expires. What a client does in
the end is therefore a question to `Network`, where the slots of all timers are counted.
In `Network`, `WF_networkVars(Progress)`: timers expire, slots pass and frames that are in the air
arrive. Nothing in a device can hold these off. Buttons, applications and resets get no fairness.
`QueueDrains` holds because a server takes one message in each two periods while each client sends at
most one per SYNC, and SYNC is sent only when the queue was empty at the last look.
That a client's timer does expire is no matter of fairness but of the slots that are counted:
`MessageFollowsSync` says that the period of the server, which grows as clients join, is longer than the
slot of any client that it has told one, so that no SYNC restarts a timer that has not expired. If frames
are missed it holds still; that a client hears a SYNC at all is assumed of no radio.

## Proofs

All theorems hold for every value of the constants that satisfies the named assumptions
(`SizesAssumption`, `MacsAssumption`, `RequestsAssumption`; `ModeAssumption`, `DevicesAssumption`,
`QueueAssumption`; `NetsAssumption`, `IdsAssumption`, `TextAssumption`; `ClientsAssumption`,
`BodiesAssumption`; `FramesAssumption`, `SizeAssumption`; `BoundsAssumption` of `Network` and of
`Framing`), which TLC evaluates in the runs.
Premises beyond these are named in the theorem.

*DeviceTableProofs.* `TypeCorrect` needs no more than that octets wrap. `SlotsAreUnique`,
`DevicesAreUnique`, `RowsAreStable` and `TableImplementsRegistry` have the premise `NoWrap`: some bound
g on the slots of a granted request lets `StartingSlots + TableSize * g` stay an octet. This holds for
the client in the repository and not for twenty clients of twenty slots.
`UniqueSlots` alone is not inductive: an id is computed from the counter, never from the rows. The
invariant `TableInv(g)` adds that rows are filled in order and counted by `deviceCount`, that slots
grow with the rows and stay below the counter, and that the counter is at most
`StartingSlots + deviceCount * g`, so that there is room while a row is free. `RegisterStep` is the one
case with content; every other branch is `QuietStep`. `RowsFillInOrder` is the part of it that the search
for a free row needs. `RequesterIsAnswered` adds that a free row holds no address (`FreeRowsBlank`), and
that `strncmp` is exact for an address without a zero octet (`PlainIsExact`): the first place where two
such addresses differ is reached. It is found by well-founded induction on the naturals (`SmallestNumber`).

*ServerFsmProofs.* `ServerUsesTable`: every step of the server is a step of `DeviceTable` or leaves it
alone. The point is `JoinRequest`, which must hand over an address and a count that a frame
carried; `ReadMsgOK` says that a request that reads as valid has both, and is inductive because the
buffer is blanked and a torn frame writes an address only. All table theorems follow for the server,
e.g. `ServerSlotsAreUnique`. `StatusHasMessage` has the invariant `QueueInv` (position in range,
and a set flag or the status state imply a message); `TimerIsSet` and `ServerTypeCorrect` follow from
`ServerInv`, the conjunction.
`JoinAnswersRequester` has the premise `NoWrap` only. It is `RequesterIsAnswered`, carried over to the server by
`ServerUsesTable`: the table and its last result stay as they are until the next request, so the state that
sends the answer reads the row of the caller (`AnswerRow`), and an address without a zero octet is copied
whole (`PlainIsCopied`). `CallerIsNamed` and `NeverFull`, a pigeonhole argument that a table with a row for
every device always has an answer, are there for `NetworkProofs`.

*ServerQueueProofs.* Two premises: `SlotsReserved` (the server's own slots lie below all clients' and
the counter does not wrap) and, for the queue, `NothingRefused` (frames of the neighbouring network come
from slots of clients). `SenderInv`: whoever may send, and whose message is in the queue, has an id above the
reserved ones; so the reader never fails and the ids kept aside are those of the message just taken
(`HandlingInv`). From it follow `LocalServerAnswers` and `GatewayTellsSender`.
`LocalQueueSuffices` says that nothing is written beyond the queue while `RoomFor` holds: there are two entries
for every client that has joined so far, and one for every frame of a neighbour. How many rows the table
has does not matter: with the four entries of the code the theorem covers a table of twenty rows in which
there are one or two clients and no neighbour, and it claims nothing from the moment the third client
joins. TLC finds an overflow then, so the bound is tight. `RoomFor` can only be lost, since clients never leave the table
(`MembersGrow`, from the lemma that no call changes a registered row), and so `RoomFor => RoomWith(Members)` is
inductive. `RoomWith(m)`: the messages in the queue, the clients that may still answer the last SYNC, the
foreign frames to come and, unless the queue is being drained, one more round of m answers fit.
`RequestsYieldToMessages` needs no premise.

*ClientFsmProofs.* `JoinedInv` adds to `JoinedHasSlot` that the thread is between two of its places
only in a client that has joined, that the octet it has loaded says so (`ThreadAfterJoin`), and that a
joined client's SYNC flag is younger than its last timer expiry (`FreshSync`). From it follow
`JoinedClientHasSlot` and `SendsInOwnSlot`; `MessagesStayPending` needs the types only.

*StationProofs, NetworkProofs.* Five theorems about the local server with its two clients: `SlotsAgree`,
`NobodyCollides`, `NetworkIsJoined`, `RowsAreClients` and `ServerBehavesAlone`, with which every theorem about
the server alone holds of it in the network. The premise is `Calm`: the slot counter does not wrap, the
table has two rows or more, the clients' addresses have no zero octet, no client is reset and each button
is pressed once (see **Bounds** for what a second press does). How many frames are missed, which of them
and by whom is free, as are the size of the table and of the queue, the first slot and whether both clients ask at once.
None of the properties is inductive, since each depends on who sends when, and nobody is told the time.
`NetworkInv` has four parts. The server's own (`ServerInv`, `TableInv`, `FreeRowsBlank`) are kept because every
step is one of `ServerFsm`, which is at the same time what `ServerBehavesAlone` says. `ChannelInv` is about the
air: what may be in it, that a frame of the server is alone there (`ServerFrames`), that a client's frame was
sent in its slot and is over before the server's next (`ClientFrames`), that frames which overlap are
spoiled (`Spoiling`), that a join request in the server's buffer has a client's address unless the
beginning of a frame has just gone over it (`RequestIsWhole`), and that the result kept for the next
timer interrupt names a row of a client (`AnswerPending`). `StationInv`, once for each client, ties its timer to the
server's: a client that will send is as far behind the server's clock as its slot lies before the end of
the period (`SendsInPhase`); whatever it reads of a SYNC or a JOINRESP has been lying in its buffer
undisturbed, because nobody else can be sending since (`SyncIsWhole`, `OfferIsWhole`); a joined client's slot is a row of its
address (`IsMember`), and the server still waits for the STATUS that it has not sent (`MayAnswer`). Collisions are
excluded by `SendsInPhase` and by the table's slots being distinct. The steps with content are
`ClientSends` (a client transmits), `ServerExpiresChannel` (the server does, or its period begins anew) and
`ArriveChannel`. The lemmas about a client are proved once, in `StationProofs`, with the server's clock, the
air and the table as variables. TLC has checked `NetworkInv` on the instance of the run `Network` with up
to three missed frames.

*MessagesProofs.* For every content of every kind of frame: the frame is what a receiver takes for one
(`SayingIsProper`: length, checksum, terminator, at most 73 octets), and a reader that finds it at the
beginning of any buffer reads what was put in (`SyncRead`, `JoinReqRead`, `JoinRespRead`, `StatusRead`,
`ControlRead`; of a CONTRL frame the text may run on). Checksums and numbers in digits are recursive
functions. That such a function exists, and what it computes, is shown by induction as a statement about
sets: a set of numbers that holds 0, and with k also k + 1, has no gap (`CountUp`, from the library's
least element of a well-founded order). `ChecksumWithout` says how a sum changes when an octet is left
out: the fact behind `Unnoticed`. `NumberRead` takes `atoi` through up to three digits to whatever octet
follows, and so `JoinRespRead` covers all 256 ids, those above 127 as negative numbers.

*FramingProofs.* `MemoryIsBounded` holds for any losses: the receive interrupt stays within the 256 octets
that its index reaches. The others have the premise `MaxLosses <= 1`, at most one lost octet in two frames
in a row, which is also the bound of the run; frames, buffer size and the number of frames are free. None of the four properties is
inductive: they look at the end of a frame, and what happens there depends on everything since its
beginning. `FramingInv` says of every moment: what was heard is the passed part of the frame with one
octet taken out at most (`ChannelInv`); the index is not ahead of what was heard, and is 0 behind a frame
whose terminator was heard (`IndexInv`); a `\r` just heard stands in front of the index (`LastInv`, with
which a terminator is never missed, wherever the index is); up to the first terminator the buffer holds what was heard
(`PrefixInv`, for which a frame must not begin like the second half of a terminator); if the first
terminator is the end of the frame, the flag and the memory are as the properties want them
(`EndInv`); nothing is written beyond the reach of the index (`TailInv`). The step with content is the
octet that ends a frame: `WholeEnd` without a loss, `DamagedEnd` with one, where the checksum decides.
TLC has checked `FramingInv` on the instance of the run with two frames.

**Only model-checked:** the liveness properties (`SyncRecurs`, `QueueDrains`, `DeliversMessages`), since
fairness and ENABLED are out of the prover's reach; `AnswersAreRead`, for which the invariant would have to
follow each message through queue, `static` variables and frames; `MessageFollowsSync`; `Network` with
resets, where the properties depend on when a client comes back; and everything a violation run shows.

## Not modelled

- LED and debug wrappers, console, radio, UART and GPIO drivers, start-up code: they program registers
  and write octets, with no effect on the state of the protocol.
- Register headers: four copies of `tm4c123gh6pm.h` with 12,713 lines of definitions each, and two of
  `mcu_tm4c123gh6pm.h`. They are five sixths of the repository's lines and hold no behaviour.
- The console library: a submodule whose directory is empty. A line of input is any text.
- The parser of address strings, the handle constructors and the default callbacks: they run on constants
  of the program, before or at the beginning of each interrupt, with the same result each time.
- STATUSACK frames: never made, never read (`STATUSACK_STATE` cannot be entered).
- What an overrun, a spill or a copy of 65,527 octets overwrites: the models stop there, or say when it
  happens, and claim nothing afterwards.
- A reset of the server: its table is in RAM, so that joined clients keep slots of which the server
  knows nothing, and nothing in the code tells them.
- Two networks in one time: the code does not compare the network id of a SYNC, so that a neighbour's
  SYNC restarts a client's timer. `ClientFsm` has such frames as inputs, `Network` does not.
- A gateway in the network: `Network` runs the local server. The gateway is checked alone.
