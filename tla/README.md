# Verification of the MeshPigeon firmware

MeshPigeon turns a LoRa board into a modem: phones and PCs connect over USB,
BLE or TCP, and the firmware sends and receives raw LoRa packets for them,
keeps a history of packets in RAM, and holds a tuning and a few device
settings in flash. This directory holds TLA+ models of the firmware, the TLC
runs that check them on small instances, and TLAPS proofs that carry most of the
properties from those instances to every value of the constants. `PROJECT.json`
lists the components, runs, mutants, findings, hazards and theorems, and says which
source lines each definition translates.

## The system

Everything the firmware decides runs on one loop (`loop()` in `src/main.cpp`):
pump the transports, poll the core, poll the radio. A request handler runs to
completion before anything else happens. What interleaves is the world around
the loop: several clients, their connections, the radio chip, the clock, the
power, and on ESP32 the BLE host task.

| Component | State | Operations | Talks to |
|---|---|---|---|
| Protocol core, `CommandProcessor` | connection registry, settings in force, epoch, auth counters and penalty window, pending transmission | one handler per request, `boot`, `poll`, `on_packet_received`, `on_tx_result`, `on_wifi_state_changed`, `add_sink`/`remove_sink` | store, radio port, settings store, board hooks, every connection |
| Packet store, `PacketStore` | byte ring: head, tail, wrap, count, sequence numbers, drop counter | `append`, `clear`, `get`, `fetch_since`, `count_since` | called by the core only |
| Radio port, `LoraRadioBase` | `tx_started_`; the chip's mode, registers and interrupt | `begin`, `apply`, `transmit`, `tx_done`, `receive` | RadioLib and the chip |
| Settings records and stores | radio record, device record, boot count, in flash | load, save, clear | NVS on ESP32, LittleFS on nRF52 |
| BLE transport, ESP32 | connection slots, RX queues | host-task callbacks, `pump` | two tasks share the slots |
| BLE transport, nRF52 | one connection, outbound queue | callbacks, `pump`, `send_frame`, `flush` | |
| Wi-Fi transport | link state, server, client slots, backoff | `apply`, `pump`, `accept_clients`, `drop_client` | pushes Status through the core |
| USB CDC transport | reader | `pump` | |
| Framing | COBS reader state | encode, `feed`, `drain_frames` | under every transport |
| RX hand-over queue, `RxFifo` | ring and two indices | `write`, `read`, `clear` | BLE host task and board loop (ESP32) |
| nanopb and the messages | none | `pb_decode`, `pb_encode` over descriptors | called by the core for every envelope |
| Uptime clock | last reading, rollovers | `poll` | read by the core |

What is hard here, and what makes each part correct:

* **Packet store.** Records of different lengths in a ring whose wrap point
  moves; eviction in two loops inside one append. A retained record is never
  overwritten, a fetch returns exactly the retained packets after its cursor,
  nothing is evicted without need, numbering has no gap and never restarts.
* **Sessions.** A flag per connection, one PIN per device, connections reused by
  strangers, a PIN changed under open sessions, pushes filtered at the moment
  they are sent. A session is worth exactly the PIN it was opened with.
* **Rate limit.** Counted per device over all connections, on a clock that moves
  only in `poll()`.
* **Transmission.** The core's lock, the port's flag and the chip's interrupt
  state are one fact kept in three places; if they part, the device answers
  BUSY until it is power-cycled.
* **Tuning and persistence.** Clients compare `config_epoch` to know whether
  they are up to date; power cuts must not make one epoch name two tunings, and
  a refused retune must leave the old one in force.
* **Transports.** Two tasks on shared slots and a queue without a lock (ESP32),
  a bounded queue towards a slow reader (nRF52), link state against settings and
  retries (Wi-Fi), a fetch of many frames through any of them to a client that
  stalls.
* **Bytes.** Resynchronisation after lost and damaged bytes, a peer that writes
  without end, a body that decodes to more than it occupies; clients older and
  newer than the firmware, values at the edge of their width or cap.
* **Time and flash.** A counter that wraps under a clock that must not go back; a
  record replaced in five calls, any of which may be the last before the power
  goes.

`PROJECT.json` "hazards" gives each of these at its line.

## Modules

**`PacketLog`** is what the store promises: `log`, a function from the retained
sequence numbers to packets, under a byte budget. An append may forget any
number of its oldest entries (`AppendFrom`), a packet that can never fit is
counted and refused, a purge keeps the numbering. `FetchLog` is the reference
for a fetch.

**`PacketStore`** is the ring. The variables are the class's fields; `buf` maps
each offset to a cell saying which byte of which record lies there, so offsets,
sizes and overwriting are exact while the payload is not spelled out. `append`
is cut at its loops: `AppendDrop` (can never fit), `AppendBegin`, `EvictOldest`
(first loop), `Place` (the three-way layout decision), `RewrapPop` (second
loop), `RewrapDone`, `Write`; `pc` says where the append is. `Clear` is
`clear()`. `FreeBytes`, `NextOffset`, `ReadHeader`, `ReadEntry`, `FetchSince`
(its loop is `Delivered`), `Get` and `CountSince` are the member functions; sequence numbers are taken
modulo `SeqMod` where the code's width matters. `live` and `held` are auxiliary
variables that remember where every record was put.

**`LoraRadio`** is the radio port as action operators, one per outcome of each
method, plus the external chip: `mode`, a pending interrupt `irq`, and `NumRegs`
registers that `apply()` writes one after the other, each of which remembers
the tuning its value comes from. A RadioLib call may fail when its name is in
`Faults`. Two auxiliary variables tell the ways to lose the receiver apart: `deaf`,
the last `startReceive()` failed, and `halfway`, `apply()` stopped the receiver and
returned before it came to `start_rx()`. The port's own refusals while `tx_started` stand in the model as they
do in the code, behind the core's lock.

**`CommandProcessor`** extends both: one action per handler outcome, with the
store as `PacketLog` and the radio as `LoraRadio`. A handler that calls several
things is one step, because nothing else runs meanwhile, except that a power
cut can fall after a flash write: `HandleSetRadioSettings` and
`HandleSetDeviceSettings` have that outcome. `emitted` holds the frames the last
step sent, in order, each with its recipients, so pushes, responses and their
filtering can be talked about. `Connect` and `Disconnect` are what the TCP and
BLE transports do to the registry; a changed Wi-Fi configuration drops the TCP
connections inside the handler, the writer's own included. `PowerLoss` and
`Boot` restart the board with whatever flash holds. Names, PINs, Wi-Fi
configurations, tunings and packets are single values; a request with a
malformed field is a refused request.

**`WifiTransport`** is the station and its TCP server. `pump()` is cut where
other code can run inside it: the link (`LinkLost`, `LinkUp`, `LinkRetry`,
`LinkWait`, `LinkSteady`), the accept (`AcceptClient`, `TurnAway`,
`NobodyWaits`), then one slot after the other (`PumpClient`). `apply()` is
`ApplyOff`, `ApplyRejoin` or `ApplyPort`, by the branch it takes; it runs between
two pumps, for a request of another transport, or inside the drain of a slot,
whose request then tears down the slots being walked. `reg` counts each slot's
entries in the core's registry, `others` those of the other transports. The
driver (`drv`, and `target`, the credentials it was last given), the network
(`ap`), the peers and `millis()` (`now`, modulo `Wrap`) are external; `waited` is
real time since the last attempt. Reading the driver's status may consume a
failure, so a failure may show in the state for one pass only. That `status()`
clears what it returns is known from the code's comments.

**`Messages`, `Nanopb`, `EnvelopeWire`.** `Messages` is the generated descriptors:
every message of the contract as the sequence of its fields, with their tags,
kinds and buffer sizes. `Nanopb` is the codec over descriptors, function by
function (`Read` is `pb_read()`, `DecodeInner` `pb_decode_inner()`, `EncodeVarint`
`pb_encode_varint()`, ...), for what this build uses of it. A stream is the bytes
still to come, a failure ends the decoding. `EnvelopeWire` puts it between the
core and a client: `ClientSends` (external) is the standard's encoding of a
request, written down independently, with the fields in another order, unknown
fields, or a value over its cap; `RadioReads` is `decode_envelope()`, `RadioSends`
`encode_envelope()`.

**`Cobs`, `Crc`, `FrameLink`.** `Cobs` is the streaming encoder, one `CobsPut` per
byte (`Encoder` is its states, `CloseBlock` is `close_block()`), and `cobs_decode()`,
one `DecodeBlock` per turn of its loop (`Decoder`), with the cap. `Crc` is the CRC-16,
bit by bit. `FrameLink` has the frames (`FrameBuild`, `FrameEncode`), the reader
(`Feed` is `FrameReader::feed()`, `out` what it leaves in `frame_out`), and the
pump of `drain_frames()` as actions (`PumpBegin`, `PumpByte`, `PumpEnd`) on a byte
stream that delivers, loses, damages and inserts bytes and, when all is sent, goes
on for ever (`Flood`). The checksum is a constant operator of `FrameLink`: the runs
give it `Crc16Ccitt`, the proofs hold for any. `sending` is the byte that leaves the
peer next and the frame it belongs to, so the frames that may be missing are known.

**`UptimeClock`** is `poll()` and `uptime_ms64()` over a counter of `Wrap` values,
with real time beside it.

**`RxFifo`** is the ESP32's FIFO, one action per access to shared memory. The
language leaves open whether `buf_[(head_++) & (N - 1)] = b` moves the index or
stores the byte first, so a build may do either, for the write and for the read
(`indexFirst`). **`ByteQueue`** is the bounded queue it implements.

**`BleCentrals`** is the ESP32's BLE transport as two processes. The host task:
`OnConnect` and the three stores of `claim()` the loop can see, `OnDisconnect` and
the flag it sets, `OnSubscribe`, `OnWrite`. The board loop: `pump()` from slot to
slot, `PumpRelease`, `PumpFree`, `PumpRegister`, `PumpRequest`, `PumpDrained`. The
controller (`link`) is external and gives out any handle no central has, also one
that a slot still holds. Each request carries the central that wrote it, each
session the central that opened it. `shared` is auxiliary: the slots that have shared
their handle with another slot, until they are claimed again with nothing of the
old central left in them.

**`FetchBurst`** is one `FetchPackets` answer, entry after entry and the `FetchEnd`,
over TCP (`Client::send_frame()`, `pump_clients()`), the ESP32's BLE
(`notify_chunk()`) or the nRF52's (`make_room()`, `drain_step()`, `pump()`), in
pieces, to a reader that reads, stalls or leaves.

**`RecordFiles`** is the nRF52's `write_record()` call by call on an external
littlefs, with failing calls, short writes and power cuts. **`RecordStore`** is what
`SettingsStore` promises and `CommandProcessor` relies on when it writes a record in
one step; NVS on the ESP32 replaces a value in one call.

The modules ending in **`Proofs`** hold the proofs about the module they are named
after (those about `Cobs` are in `FrameLinkProofs`, those about `UptimeClock` and
`RecordFiles` in `SmallPartsProofs`); **`MCCommandProcessor`** and
**`MCWifiTransport`** give constants their values for TLC. **`MCMemory`** and
**`MCParts`** are benches for parts that share no state with one another: the packet
store and the ESP32's BLE slots in the first, the codec, framing, clock, FIFO, bursts
and record files in the second. `part` says which of them a behaviour is about, that
part's next-state relation moves, and the others stay as they begin. `Checking` selects the parts of a run. Operators whose comment
begins with "Mutant" are broken variants of the definition that follows them; each
shows that a property would notice that mistake.

## Runs

| Run | What it asks | Result |
|---|---|---|
| `store_and_centrals` | every append, eviction, wrap and clear on a pool of a few records, all cursors and page sizes; and two centrals, two handles and two slots of the ESP32's BLE under two tasks | `TypeOK`, `RecordsIntact`, `ReadExact`, `EvictionNecessary`, refinement of `PacketLog` (`ImplementsLog`), `AppendTerminates`, `OwnSession`, `SlotsFollowLinks` hold |
| `sessions` | three connections for two registry slots, PINs presented, rotated, cleared, Wi-Fi switched, time passing | `SessionProvenance`, `GatedMaterial`, `RateLimit` hold |
| `radio` | sends, retunes, receptions, restarts, and a failure of every radio call | `TxAccounted`, `TxResultOwed`, `TxNeverAborted`, `OffOnlyAfterRefusal`, `TxResolves` hold |
| `settings_or_packets` | retunes, device writes, factory reset, restarts and power cuts; or sends, receptions, purges and paged fetches on a small pool, the allocation failing too | `AirMatchesSettings`, `EpochNamesTuning`, `AnsweredIsDurable`, `AdvertisedName`, `SeqNamesPacket` hold |
| `wifi` | two client slots, a registry shared with another transport, five settings in every order and under the walk over the slots, a network that is good, absent or refuses, a wrapping clock | `SlotsMatchRegistry`, `ServesOnlyWhileUp`, `LinkMatchesSettings`, `RightNetwork`, `BackoffSeeded`, `RetryPaced`, `ComesBack` hold |
| `parts` | each of the parts of `MCParts`, see below | its 12 properties hold |
| `refused_retune` | a register write fails in `apply()` | `AirMatchesSettings` violated: the chip is left on a mixture, against the documentation |
| `receiver_off_after_refused_retune` | the same failure, and the receiver | `Listening` violated: it stays off, against the documentation |
| `same_pin_with_another_change` | a PIN is set and a session opened with it, then it is written again together with a new name | `SameValuePinKeepsSessions` violated: the other session is closed, against the documentation |
| `ble_handle_reused` | the controller gives a handle out again before the board loop has freed the slot that holds it | `NoSessionOutlivesItsLink` violated: the next central is served in the session of the one that left |
| `burst_over_tcp` | a fetch to a TCP reader that stalls and reads on | `BurstWhole` violated: a burst with a hole ends in `FetchEnd` |
| `burst_over_nrf52_ble` | a fetch through the nRF52's queue | `ReadersLoseNothing` violated: the backlog of a central that reads is dropped |

The properties of `parts`:

| Part | Property | What it says |
|---|---|---|
| codec | `RequestUnderstood` | a request within the caps is read as it was meant, from older and newer clients too |
| | `NeverCut` | what decodes is what was sent; nothing is cut to fit (texts without NUL bytes) |
| | `ResponseIsProtobuf` | every response fits its frame and is the standard's encoding |
| framing | `ExactlyTheSound` | the core gets the frames the stream did not spoil, once and in order, and nothing else |
| | `WithinBuffers` | no input makes the reader write past its buffers |
| | `PumpEnds` | every pump ends, whatever keeps arriving |
| clock | `UptimeExact`, `NeverBack` | the uptime is the time of the last poll across rollovers, and never goes back |
| FIFO | `DamageIsLocal` | with the byte stored and loaded before the index moves the reader gets what was written; otherwise a byte may be damaged, none lost or repeated |
| | `ImplementsQueue` | the indices are a bounded queue, also while they wrap |
| burst | `BurstEnds` | a reader that stops or leaves never wedges the loop, and a cut socket is closed |
| nRF52 records | `ImplementsStore` | `write_record()` replaces a record atomically |

**Bounds.** The store's pool holds two or three records with lengths chosen so
that a record can fit exactly, miss by a byte, or never fit; this gives every
layout (linear, wrapped, full to the last byte, emptied in the middle of an
append) and every transition between them. `MaxSeq` stops the numbering after
enough appends for the ring to wrap twice. In `sessions`, `FreeFails` = 1 and
`FailCap` = 2 put the threshold and the saturation of the failure counter within
reach, and `MaxTime` leaves time for a penalty to end and another to begin.
Two sinks' room for three connections makes the registry overflow.
`settings_or_packets` bounds the board to one of two lives (the constraint
`SettingsOrPackets`): settings, restarts and power cuts, before the first packet; or
packets, with nothing in flash yet. What the properties of the first tell apart does
not depend on the store, and every boot gives numbers out anew. One connection is
enough there: neither flash nor the numbering knows who asked. `MaxEpoch` = 2 allows a retune, a power cut and a second retune. `NumRegs` = 2 is enough
for a half-written tuning. In `wifi` the five
settings differ from one another in one field each, so every branch of `apply()`
is taken; two slots for a registry of two shared with another transport
make either run out first and leave a hole before a client; `BackoffMax` = 3 is no
power of two times the floor, so the cap really cuts a doubling, and `Wrap` = 4
puts the rollover inside every wait. `Ops`, `Writes` and `Faults` select the requests and
failures of a run; between them the runs fire every action.

In `parts`, integers of 11 and 22 bits stand for 32 and 64: like those they leave 4
and 1 bits over a multiple of a varint byte's 7, and the wider is twice the
narrower, so the shared byte of `pb_encode_varint_32()` and the overflow checks of
the decoder lie at the same places. Buffers have their real sizes, with every field
alone at each edge of its range and all at their largest; the frame of 509 bytes is
the code's less the bytes by which the largest id is shorter, so that the largest `Pong` fills
it to the last byte. Unknown fields of each wire type stand at each depth and place. The texts of the
samples hold no NUL bytes, so that what decodes is what was sent is shown for such
texts only: the code reads a text up to its first NUL. COBS runs
of up to `CodeMax` = 4 stand for 255; payloads of one and three bytes with their CRC
(16 bits as in the code) fill a run exactly and go one over; two frames and one
faulty byte are a fault and what it does to the neighbour. A FIFO of four bytes with
indices modulo 16 fills, empties and wraps. In `store_and_centrals`
two centrals and two handles on two slots let one leave and another come, on another
handle or the same, while the loop is in each step. A burst of five
frames of two pieces through a queue of two and a window of two fills both. Two paths (with
and without a CRC), two records and two parts make every mixture possible.

**Conditions.** `settings_or_packets` excludes failures of register writes
(`refused_retune` and `receiver_off_after_refused_retune` are about those) and of
flash writes: the code ignores the result of `save()`, so nothing it does could make
the durability properties hold then. `Listening` and `OffOnlyAfterRefusal` exclude the
moment after `startReceive()` itself failed (`deaf`): the code has no retry for it.
`OffOnlyAfterRefusal` also excludes the state a refused retune leaves (`halfway`),
which is what breaks `Listening`, and says that there is no other. `OwnSession`
and `SlotsFollowLinks` speak of the slots that are not `shared`: where two slots hold
one handle `find()` returns the first, and `NoSessionOutlivesItsLink`, without the
condition, is broken. `FrameLink` assumes that the largest decoded frame is
no multiple of a full run, which holds for the code's 514 bytes and 254:
`FRAME_MAX_WIRE` has no room for the empty run behind a last full one. It also assumes
that the checksum of zeros is not 0 (`ZerosAssumption`): the register of
`crc16_ccitt()` starts at 0xFFFF and a zero byte maps no other value to 0, so bytes
that are no frame but decode to zeros are never taken for one.

**Fairness.** `TxResolves` assumes that the loop keeps polling (`loop()` never
returns) and that the chip finishes a transmission it has begun. The code
relies on the second: there is no transmit timeout. `ComesBack` assumes that the
loop keeps pumping, that time passes and that an attempt to join ends; `Tick`
assumes that the loop runs at least once in each period of `millis()`, 49.7 days
in the code. "Good" in its premise means that the network also keeps the
station. `AppendTerminates` assumes only
that the append's own loops are executed. `PumpEnds`, `SlotsFollowLinks` and
`BurstEnds` assume that the board loop goes on with its next step, `SlotsFollowLinks`
also that the host task finishes a callback it is in; nothing is assumed of peers,
centrals and readers. The waits of `send_frame()` count milliseconds and end, so a
step that gives up is one the loop takes.

## Proofs

The theorems hold for every value of the constants that the named `ASSUME`s of the
modules allow; no run's bound is in them, except that a counter a guard caps may be
capped anywhere. "Property" is what the theorem states; every one of them with a
name is also checked by a run (`Listening`, which holds only under the hypothesis given, by
the run that refutes it without). TLC also checked the inductive invariants of the ring, the FIFO, the
BLE slots and the records on instances of these sizes.

| Module | Theorem | Property |
|---|---|---|
| `PacketStoreProofs` | `TypeCorrect`, `RetainedBytesSafe` | `TypeOK`, `RecordsIntact` |
| | `RingIsLog` | `ImplementsLog`, the refinement of `PacketLog` |
| | `EvictsOnlyForRoom` | `EvictionNecessary` |
| | `ReadsAreExact` | `ReadExact` |
| | `CountSinceOffOnlyAtTheTop` | what `count_since()` returns: the retained packets past every cursor but the largest, `next_seq` past that one |
| `CommandProcessorProofs` | `SessionsBacked`, `GatedMaterialGuarded` | `SessionProvenance`, `GatedMaterial` |
| | `GuessingIsLimited` | `RateLimit` |
| | `TransmissionAccounted`, `TransmissionKept` | `TxAccounted`, `TxNeverAborted` |
| | `ReceiverLostOnlyByRefusal` | `OffOnlyAfterRefusal` |
| | `ReceiverOn` | `Listening`, if "set" is no fault |
| | `ResultsAreOwed` | `TxResultOwed` |
| | `OnlyRotationEndsSessions` | a session that ends was ended by another connection's write of a PIN and a change |
| | `NumbersNamePackets` | `SeqNamesPacket` |
| | `NameIsAdvertised` | `AdvertisedName` |
| | `AirFollowsSettings` | `AirMatchesSettings`, if "set" and "startReceive" are no faults |
| | `EpochsNameTunings`, `AnswersAreDurable` | `EpochNamesTuning`, `AnsweredIsDurable`, if "save" is no fault |
| `WifiTransportProofs` | `SlotsAndRegistryAgree` | `SlotsMatchRegistry` |
| | `ListenerFollowsLink`, `LinkFollowsSettings`, `CredentialsInForce` | `ServesOnlyWhileUp`, `LinkMatchesSettings`, `RightNetwork` |
| | `BackoffIsSeeded`, `RetriesArePaced` | `BackoffSeeded`, `RetryPaced` |
| `FrameLinkProofs` | `CobsRoundTrip` | decoding what was encoded gives the bytes back, into any buffer that holds them |
| | `FramesFit` | a frame is at most `FRAME_MAX_WIRE` bytes and its only zero is its last |
| | `FrameArrives` | an undamaged frame fed to an idle reader yields its envelope, at the delimiter |
| | `ReaderStaysWithinBuffers` | `WithinBuffers` |
| | `SoundFramesArrive` | the frames the stream did not spoil reach the core, each once and in order, whatever becomes of the others |
| | `ExactUntilAFault` | `ExactlyTheSound`, until a byte is lost, damaged or inserted |
| `RxFifoProofs` | `DamageStaysLocal` | `DamageIsLocal` |
| | `FifoIsQueue` | `ImplementsQueue`, the refinement of `ByteQueue` |
| `BleCentralsProofs` | `SessionsAreOwn` | `OwnSession` |
| `FetchBurstProofs` | `BurstInOrder` | a burst brings each frame at most once and in order, over every transport |
| | `OnlyCutBurstsHaveHoles` | `BurstWhole`, and in the end all of the burst, for TCP while no frame was broken |
| `SmallPartsProofs` | `RecordsAreAtomic` | `ImplementsStore`, the refinement of `RecordStore` |
| | `UptimeIsExact`, `UptimeIsMonotonic` | `UptimeExact`, `NeverBack` |

**Packet store.** `RecordsIntact` is not inductive: that `Write` spares the live
records follows only from where they are. `IndInv` adds the geometry: the counters
agree with the set of live records (`Counters`); following `next_offset` from the
head visits them in sequence order and ends at the tail (`Chain`); each lies inside
its segment, linear `[head, tail)` or wrapped `[head, wrap)` and `[0, tail)`
(`Segments`); later records lie after earlier ones in the same segment (`Order`);
the wrap is the capacity while the layout is linear (`LinearWrap`); and when `pc` is
at the write the hole at the tail is large enough (`ReadyToWrite`). The lemmas
follow the code: a pop removes the first link of the chain (`PopPreserves`), the
layout decision keeps the geometry (`PlacePreserves`, `RewrapPreserves`), the write
adds the last link (`WritePreserves`).

For the refinement `HeldInv` says that during an append the packets still retained
are the newest of the log that was there when it began. The budget of the abstract
log is not in the ring's code: `RetainedFits` derives it by counting, since every
byte of every retained record has an offset of the pool to itself. For the
necessity of evictions the other direction is needed, that the used part has no
holes (`NoHoles`) and that the second loop is entered only when the packet does not
fit above the tail (`RoomAbove`); then every place below the wrap that is long
enough meets a used byte (`InTheWay`). The reads are loops: `Walk` shows that the
offset after `i` headers is the next record's, `Turn` what one turn of
`fetch_since()` adds to the page. They are inductions over the number of turns,
done by the least counterexample (`Agree`), and the definitions of the loops are
recursive functions that the explicit results are shown to satisfy. `CountedPast`
says what `count_since()` returns: with a non-empty store the sum is right while
`since_seq + 1` does not overflow, and the one cursor that overflows is charged with
every number ever given.

**Protocol core.** `StepCases` sorts the steps into the requests that change
something, the steps of the board, the restarts, and those that only send; each
invariant then looks at the steps that touch its variables. `SessionInv` adds the
types of the records and that a board without power has no session.
`EndedByRotation` is the part of `SameValuePinKeepsSessions` that the code keeps: a
session is ended by a write with a PIN and by nothing else, though the PIN may be the
one in force. `LockInv` ties
the saturating counter and the deadline of the code to the failures in a row and the
time of the last one. `RadioInv` says that the core's lock, the port's flag, the
chip's mode and interrupt and the results owed are one fact. `LogInv` and `SeqInv`
say that numbers are given in order and that what was sent agrees with the log
while the log has it. `FlashInv` and `ToldInv` say that what is in force is what flash
holds and that nobody was told of anything newer. The four conditional theorems
state as hypotheses what the configuration of their run leaves out (`Faults`
without failing saves, register writes or receiver starts); with those faults
`refused_retune` and `receiver_off_after_refused_retune` have the counterexamples of
`AirFollowsSettings` and `ReceiverOn`, and the result of `save()` is ignored by the
code.

**Wi-Fi.** `SlotInv` says that the registry has exactly one entry for each used slot
and that the count is the number of used slots, in every position of the walk over
them; `SlotsFinite` and `RegistryCount` count. `LinkInv` adds to the properties
that the elapsed time computed from the wrapping counter is the real one (`Paced`).
`MaxClients > 0` is an assumption: the code divides nothing by it, but a walk needs
a first slot.

**Framing.** Encoder and decoder are recursive functions of the bytes consumed.
`EncoderTurns` and `DecoderTurns` show that such functions exist and satisfy their
equations; facts about every turn follow by induction on the number of turns, for
a set that has 0 and with every number the next (`ReachesAll`). `Sound` is the
encoder's invariant: which bytes of the source the open run holds, that no closed
code is zero, and that each byte of overhead behind the first has a full run of its
own, which bounds the encoded length (`NoDelimiter`, `FramesFit`).
`EncoderKeeps` says that what is written behind an open run stays. The round trip
goes block by block: for every prefix of the source the decoder has a turn at which
it stands at the encoder's open block and has written what the closed blocks stand
for (`Follows`); when the encoder closes a block the decoder takes one turn
(`DecodesBlock`). `Capped` holds of the decoder on any bytes at all, and `LinkInv`
carries it through the faults of the stream. The proofs assume of the checksum that
it has two bytes and that no run of zeros has the checksum 0, and of the sizes what
the code's have (see Conditions).

The queue between the peer and the reader only delays. `SoundInv` therefore speaks
of the reader as it will be when it has read what is under way (`Takes`): a byte
that arrives takes that reader one step on, and the pump does not change it. Of it
the invariant says that it is at the peer's place in a frame that is not spoilt
(`UpToDate`); that the unspoilt frames that have left the peer are among its
envelopes, each at a place of its own and in order (`InOrder`); and that until the
first fault it has nothing else (`Exact`). A fault ends the first and the last and
spoils what the reader then joins to the frame; the delimiter makes the first true
again. With no delimiter under way (`NothingAhead`) the core has what that reader
has.

**FIFO.** The indices run freely modulo `IndexMod`, of which the size of the ring is
a divisor. `FifoInv` says which index's byte each cell holds (`CellsHold`), with the
one cell that an access in progress has claimed or not yet published, and what each
task still owes (`Owed`).

**ESP32 BLE.** `BleInv` says, slot by slot and through the stores of a claim, whose
slot it is: a free slot has nothing in it, a slot whose central left stays flagged,
and its handle without a link, until the loop frees it, and a settled slot has one
central who wrote its requests and opened its session. It speaks of the slots that
are not `shared` and of each by itself, so whatever `find()` does to two slots on one
handle leaves the others alone (`Members` says whose slot a callback is given), and
nothing is assumed of the controller. `Draining` adds that the slot being served is in
use, so that no claim can take it: a request served on a shared slot does not become
one of a slot that is not.

**Bursts.** `BurstInv` follows pieces: what the reader has is older than what is in
the pipe, and this than what is still to be written, of the queue (`QueueInOrder`)
and of the frame that is handed over (`PipeInOrder`). A queue may be emptied in the
middle of a frame, because what comes next is of a later one. For TCP `NothingMissed`
adds that from the piece the reader waits for to the one the core writes next none
is missing (`Continues`), as long as no frame was broken. The two findings about
bursts show why no more can be said: with a broken frame the rest is still sent, and
the queue of the nRF52 drops frames without telling anybody.

**Records.** `FilesInv` says that a path never holds anything but a whole record and
that the temporary file is what the call reached in `write_record()` implies.
`MissingAssumption` says that a missing file is not a content.

**Uptime.** `UptimeExact` says nothing of where the counter is between polls;
`Window` adds that it is less than one period further. The assumption is that of the
code, written into `Tick`: a poll in every period.

**Only model-checked.** Liveness (`AppendTerminates`, `TxResolves`, `ComesBack`,
`PumpEnds`, `SlotsFollowLinks`, `BurstEnds`): fairness is outside what the prover
supports. The protobuf codec (`RequestUnderstood`, `NeverCut`, `ResponseIsProtobuf`):
`Nanopb` is written with recursive operators, which the prover does not take.
`ExactlyTheSound` after a fault: that a spoilt frame is refused is a matter of which
damages this CRC notices, and `Crc` needs bitwise arithmetic. What does not depend
on it is proved: before a fault all of it (`ExactUntilAFault`), and after one that
no sound frame is lost, repeated or overtaken (`SoundFramesArrive`).

## Findings

1. A retune the radio refuses half way leaves registers of the new tuning in
   the chip while the core reports the old tuning (`radio_lora.h:36`, `apply()`);
   `docs/radio-protocol.md` says the previous tuning stays in force.
2. The same retune leaves the receiver stopped, because `apply()` returns before
   `start_rx()`: the board is deaf until the next transmission or retune. The same
   sentence says that the device stays fully usable. Nothing else in the port
   leaves the receiver off, unless `startReceive()` itself fails
   (`OffOnlyAfterRefusal`).
3. A device write that changes anything and repeats the PIN in force is treated
   as a rotation (`command_processor.cpp:556`); the documentation says a
   same-value PIN write is not one. The run shows a rename, with a PIN set.
4. On the ESP32 a slot keeps its handle from the moment its central leaves until
   `pump()` frees it, and `find()` (`transports.h:335`) returns the first slot with the
   handle. If the controller gives the handle to the next central in that time, what
   it writes is served in the old session, against the comment of `onDisconnect()`.
   Its disconnect then flags the old slot, too, so its own may not come free. How
   soon a controller gives a handle out again is not in this repository.
5. After a frame the socket did not take in full, the rest of a burst is still
   written, `FetchEnd` included, before the next pass closes the socket
   (`wifi_transport.cpp:43`); the documentation promises the whole stream or a
   disconnect.
6. `make_room()` stops at the first chunk that drains and then drops the whole queue
   if it is still full, which it is unless that chunk ended a frame
   (`transports.h:544`): a burst longer than the queue loses frames of a central that
   is reading.

Observations that are no run of their own:

* `SendPacket.raw` may have 256 bytes: the struct of a 255-byte field and its
  length is padded to 258 bytes, and `pb_dec_bytes()` compares with that. The
  documentation has the caps as the enforcement point; the handler's own check
  (`command_processor.cpp:428`) answers BAD_PAYLOAD instead of silence.
* `count_since()` adds one to its cursor in 32 bits (`packet_store.cpp:126`), so past
  the largest cursor it counts every number ever given out
  (`CountSinceOffOnlyAtTheTop`). No path of the firmware calls it.
* The claim of a slot sets `in_use` three stores before the session flag is reset
  (`transports.h:351`). Requests cannot pass in between, a push could.
* `RxFifo::clear()` in `claim()` writes the reader's index from the writer's task,
  against the comment that each index has one writer; it runs while the slot's
  queue is not read.

## Not modelled, and the plan

Left out for good: board variants, battery reading, the host simulator (the same
core behind sockets), RSSI, SNR and timestamps carried in packets, mDNS, BLE
advertising and naming; of nanopb what this build compiles out or never reaches
(pointer and callback fields, extensions, required and fixed-count fields, fixed-width
and zigzag integers, floats, UTF-8 validation).

Left out so far:

* the byte layout of the settings records (`settings.cpp`): a record is parts of
  which a CRC tells a mixture;
* on nRF52, `flush()` before a restart, and a central that connects before the pump
  has seen the last one go;
* pushes that fall into the claim of an ESP32 slot;
* a client paging through the store while packets arrive and are evicted, as one
  process of its own (`SeqNamesPacket` and `ReadExact` cover the two ends).

Proofs that could follow: the varint codec of `Nanopb`, once it is written with
recursive functions as `Cobs` is.
