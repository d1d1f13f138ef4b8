-------------------------- MODULE CommandProcessor --------------------------
(***************************************************************************)
(* The protocol core (class CommandProcessor) with the radio port and the  *)
(* packet store it drives: one action per request handler and per call the *)
(* board loop makes.  Handlers run to completion on the one loop, so a     *)
(* handler is one step; what interleaves is the clients' requests, their   *)
(* connections, the chip, the clock and the power.                         *)
(*                                                                         *)
(* `emitted` is what the last step sent: frames in order, each with the    *)
(* connections it went to.  Names, PINs, Wi-Fi configurations and tunings  *)
(* are single values; malformed ones are a request of their own.  A power  *)
(* cut in the middle of a handler matters only once the handler has        *)
(* written flash, so the two handlers that write have such a cut.          *)
(*                                                                         *)
(* shown, streak, fail_at, too_soon, unresolved, told and seen are         *)
(* auxiliary: they record what happened, and no guard reads them, nor the  *)
(* radio's deaf and halfway.                                               *)
(***************************************************************************)
EXTENDS LoraRadio, PacketLog, Functions, FiniteSets

CONSTANTS
    Fixed, Links, Tcp,   \* connections: USB; BLE and TCP; the TCP ones
    MaxSinks,            \* kMaxSinks
    Pins, DefaultPin,    \* PINs, the public default included
    Names, DerivedName,  \* stored names (one may be Unset); MeshPigeon-XXXX
    Wifis, WifiOff,      \* Wi-Fi configurations, WifiOff the disabled one
    WifiSupported,       \* the board has the WIFI_STA capability
    Absent, Unset,       \* a field a request leaves out; the empty string
    FreeFails,           \* kAuthFailsBeforeDelay
    FailCap,             \* 0xFF, where auth_fails_ saturates
    FailDelay,           \* kAuthFailDelayMs, in ticks
    Grace,               \* kFirstOwnerGraceMs, in ticks
    MaxFetch,            \* kMaxFetchPerRequest
    Ops,                 \* the requests clients make in this model
    Writes,              \* the SetDeviceSettings bodies clients send
    MaxTime,             \* bound: the clock stops there
    MaxEpoch,            \* bound: no retune once the epoch has reached it
    MaxSeq               \* bound: no append once next_seq has reached it

Sinks == Fixed \cup Links

ASSUME SinksAssumption == Fixed \cap Links = {} /\ Tcp \subseteq Links
ASSUME ConfigAssumption ==
    /\ DefaultPin \in Pins /\ WifiOff \in Wifis /\ Unset \in Names
    /\ Absent \notin Pins \cup Names \cup Wifis /\ Unset \notin Pins
    /\ {FreeFails, FailCap, FailDelay, Grace, MaxFetch, MaxSinks} \subseteq Nat
    /\ FreeFails < FailCap /\ MaxFetch > 0

VARIABLES
    up,                  \* the board is powered and past setup()
    now,                 \* the uptime the last poll() read
    sinks,               \* sinks_: the registered connections
    authenticated,       \* IFrameSink::authenticated, per connection
    device,              \* device_: name, PIN and Wi-Fi configuration
    adv_name,            \* the name the BLE stack advertises
    settings,            \* settings_: tuning and config_epoch
    set_count,           \* set_count_since_boot_
    radio_ok,            \* radio_ok_
    auth_fails,          \* auth_fails_
    auth_backoff_until,  \* auth_backoff_until_
    tx_pending,          \* tx_pending_
    tx_pending_seq,      \* tx_pending_seq_
    flash,               \* what the settings store holds
    emitted,             \* frames the last step sent
    shown,               \* auxiliary: PINs a connection presented or wrote
    streak,              \* auxiliary: wrong PINs evaluated in a row, capped
    fail_at,             \* auxiliary: when the last of them was
    too_soon,            \* auxiliary: a PIN was evaluated inside a window
    unresolved,          \* auxiliary: accepted sends without a TxResult
    told,                \* auxiliary: radio settings any client was sent
    seen                 \* auxiliary: numbered packets sent out since boot

sessVars == <<sinks, authenticated, shown>>
lockVars == <<auth_fails, auth_backoff_until, streak, fail_at, too_soon>>
devVars == <<device, adv_name>>
tuneVars == <<settings, set_count, radio_ok>>
txVars == <<tx_pending, tx_pending_seq, unresolved>>
coreVars == <<up, now, sessVars, lockVars, devVars, tuneVars, txVars, flash>>
outVars == <<emitted, told, seen>>
vars == <<coreVars, radioVars, logVars, outVars>>

\* A flash record: at most one value; none reads as never written.
Never == {}
Stored(f, default) == IF f = Never THEN default ELSE CHOOSE r \in f : TRUE

DefaultDevice == [name |-> Unset, pin |-> DefaultPin, wifi |-> WifiOff]
DefaultSettings == [tune |-> DefaultTune, epoch |-> 0]

EffectiveName(d) == IF d.name = Unset THEN DerivedName ELSE d.name

-----------------------------------------------------------------------------
(* Who may see what, and the frames. *)

PinIsDefault == device.pin = DefaultPin

\* is_authorized()
Authorized(s) == authenticated[s] \/ PinIsDefault

\* Whom a response to s reaches; sending on a link that is gone is lost.
Only(s) == {s} \cap sinks

Error(s, code) == [body |-> "Error", code |-> code, to |-> Only(s)]
Ok(s) == [body |-> "Ok", to |-> Only(s)]

RadioSettingsFrame(r, to) == [body |-> "RadioSettings", radio |-> r, to |-> to]
DeviceSettingsFrame(d, to) ==
    [body |-> "DeviceSettings", name |-> EffectiveName(d), wifi |-> d.wifi, to |-> to]
PacketFrame(e, to) == [body |-> "PacketEntry", seq |-> e.seq, pkt |-> e.pkt, to |-> to]

\* Radio settings clients have been sent once these frames are out.
ToldBy(frames) ==
    told \cup {f.radio : f \in {g \in Range(frames) : g.body = "RadioSettings"}}

\* Send these frames, in this order (dispatch()).
Emit(frames) ==
    /\ emitted' = frames
    /\ told' = ToldBy(frames)
    /\ seen' = seen \cup {[seq |-> f.seq, pkt |-> f.pkt] :
                    f \in {g \in Range(frames) : g.body \in {"PacketEntry", "PacketAccepted"}}}

\* A step that only sends these frames.
JustSend(frames) ==
    /\ Emit(frames)
    /\ UNCHANGED <<coreVars, radioVars, logVars>>

\* A request that is refused.
Refuse(s, code) == JustSend(<<Error(s, code)>>)

\* Connection s makes a request of this kind.
Request(s, op) == up /\ s \in sinks /\ op \in Ops

GatedOps == {"GetRadioSettings", "SetRadioSettings", "SendPacket", "FetchPackets",
             "PurgeStore", "Bootloader", "GetDeviceSettings", "SetDeviceSettings",
             "Reboot", "FactoryReset"}

\* require_auth() refusing, the first thing every gated handler does.
RequireAuth(s, op) ==
    /\ op \in GatedOps /\ Request(s, op) /\ ~Authorized(s)
    /\ Refuse(s, "AUTH_REQUIRED")

\* A gated request that passed require_auth().
Admitted(s, op) == Request(s, op) /\ Authorized(s)

\* The settings store's saves and deletes; a failure is not reported.
SaveTo(field, value) ==
    \E ok \in BOOLEAN :
        /\ Outcome("save", ok)
        /\ flash' = IF ok THEN [flash EXCEPT ![field] = value] ELSE flash

\* The power goes, or the firmware restarts, after these frames: nothing in
\* RAM survives, only flash.
PowerDown(frames) ==
    /\ up' = FALSE /\ now' = 0
    /\ sinks' = {} /\ authenticated' = [s \in Sinks |-> FALSE]
    /\ device' = DefaultDevice /\ adv_name' = DerivedName
    /\ settings' = DefaultSettings /\ set_count' = 0 /\ radio_ok' = FALSE
    /\ auth_fails' = 0 /\ auth_backoff_until' = 0
    /\ tx_pending' = FALSE /\ tx_pending_seq' = 0
    /\ tx_started' = FALSE /\ mode' = "standby" /\ irq' = NoIrq
    /\ deaf' = FALSE /\ halfway' = FALSE
    /\ regs' = [i \in 1..NumRegs |-> DefaultTune]
    /\ capacity' = 0 /\ log' = << >> /\ oldest' = 1 /\ next_seq' = 1 /\ dropped' = 0
    /\ shown' = [s \in Sinks |-> {}]
    /\ streak' = 0 /\ fail_at' = 0 /\ too_soon' = FALSE /\ unresolved' = {}
    /\ emitted' = frames /\ told' = ToldBy(frames) /\ seen' = {}

-----------------------------------------------------------------------------
(* Requests anyone may make, and the reads. *)

HandlePing(s) == Request(s, "Ping") /\ JustSend(<<[body |-> "Pong", to |-> Only(s)]>>)

\* send_device_info()
HandleGetDeviceInfo(s) ==
    /\ Request(s, "GetDeviceInfo")
    /\ JustSend(<<[body |-> "DeviceInfo", auth_required |-> ~Authorized(s),
                   oldest |-> oldest, epoch |-> settings.epoch,
                   radio_ok |-> radio_ok, to |-> Only(s)]>>)

HandleGetStatus(s) ==
    Request(s, "GetStatus") /\ JustSend(<<[body |-> "Status", to |-> Only(s)]>>)

\* The default of the switch: an operation this firmware does not know.
HandleUnknown(s) == Request(s, "Unknown") /\ Refuse(s, "BAD_COMMAND")

HandleGetRadioSettings(s) ==
    /\ Admitted(s, "GetRadioSettings")
    /\ JustSend(<<RadioSettingsFrame(settings, Only(s))>>)

HandleGetDeviceSettings(s) ==
    /\ Admitted(s, "GetDeviceSettings")
    /\ JustSend(<<DeviceSettingsFrame(device, Only(s))>>)

-----------------------------------------------------------------------------
(* The PIN. *)

\* auth_backoff_active()
AuthBackoffActive == auth_backoff_until # 0 /\ now < auth_backoff_until

\* Mutant: the failure counter wraps instead of saturating.
NoteAuthFailure_Wraps ==
    LET n == (auth_fails + 1) % (FailCap + 1)
    IN  /\ auth_fails' = n
        /\ auth_backoff_until' = IF n > FreeFails THEN now + FailDelay
                                 ELSE auth_backoff_until

\* note_auth_failure()
NoteAuthFailure ==
    LET n == IF auth_fails < FailCap THEN auth_fails + 1 ELSE auth_fails
    IN  /\ auth_fails' = n
        /\ auth_backoff_until' = IF n > FreeFails THEN now + FailDelay
                                 ELSE auth_backoff_until

\* handle_auth() inside a penalty window: not even evaluated.
HandleAuthBackoff(s) ==
    Request(s, "Auth") /\ AuthBackoffActive /\ Refuse(s, "AUTH_REQUIRED")

\* handle_auth() evaluating pin.
HandleAuth(s, pin) ==
    /\ Request(s, "Auth") /\ ~AuthBackoffActive
    /\ too_soon' = (too_soon \/ (streak > FreeFails /\ now < fail_at + FailDelay))
    /\ shown' = [shown EXCEPT ![s] = @ \cup {pin}]
    /\ \/ /\ Authorized(s) \/ pin = device.pin
          /\ authenticated' = [authenticated EXCEPT ![s] = TRUE]
          /\ auth_fails' = 0
          /\ streak' = 0 /\ fail_at' = 0
          /\ Emit(<<Ok(s)>>)
          /\ UNCHANGED auth_backoff_until
       \/ /\ ~Authorized(s) /\ pin # device.pin
          /\ NoteAuthFailure
          /\ streak' = IF streak > FreeFails THEN streak ELSE streak + 1
          /\ fail_at' = now
          /\ Emit(<<Error(s, "AUTH_REQUIRED")>>)
          /\ UNCHANGED authenticated
    /\ UNCHANGED <<up, now, sinks, devVars, tuneVars, txVars, flash, radioVars, logVars>>

-----------------------------------------------------------------------------
(* Device settings. *)

\* What a SetDeviceSettings may carry; an empty PIN restores the default.
\* Clients send the ones in Writes.
DeviceWrites == [name : Names \cup {Absent}, pin : Pins \cup {Unset, Absent},
                 wifi : Wifis \cup {Absent}]
ASSUME WritesAssumption == Writes \subseteq DeviceWrites

\* The candidate the handler builds before it decides anything.
Candidate(m) ==
    [name |-> IF m.name = Absent THEN device.name ELSE m.name,
     pin |-> CASE m.pin = Absent -> device.pin
               [] m.pin = Unset -> DefaultPin
               [] OTHER -> m.pin,
     wifi |-> IF m.wifi = Absent THEN device.wifi ELSE m.wifi]

\* One field is out of range.
SetDeviceSettingsBad(s) ==
    Admitted(s, "SetDeviceSettings") /\ Refuse(s, "BAD_PAYLOAD")

SetDeviceSettingsUnsupported(s, m) ==
    /\ Admitted(s, "SetDeviceSettings")
    /\ m.wifi # Absent /\ ~WifiSupported
    /\ Refuse(s, "NOT_SUPPORTED")

\* The write lands on the values in force.
SetDeviceSettingsNoop(s, m) ==
    /\ Admitted(s, "SetDeviceSettings")
    /\ m.wifi = Absent \/ WifiSupported
    /\ Candidate(m) = device
    /\ JustSend(<<DeviceSettingsFrame(device, Only(s))>>)

\* Mutant: a PIN written by one connection leaves the other sessions open.
RotateSessions_OthersKept(s, m) ==
    IF m.pin = Absent
    THEN UNCHANGED <<authenticated, shown, lockVars>>
    ELSE /\ authenticated' = [authenticated EXCEPT ![s] = TRUE]
         /\ shown' = [shown EXCEPT ![s] = @ \cup {Candidate(m).pin}]
         /\ auth_fails' = 0 /\ auth_backoff_until' = 0
         /\ streak' = 0 /\ fail_at' = 0
         /\ UNCHANGED too_soon

\* A PIN came with the write: the writer is in, every other registered
\* connection is out, and the failure budget starts over.
RotateSessions(s, m) ==
    IF m.pin = Absent
    THEN UNCHANGED <<authenticated, shown, lockVars>>
    ELSE /\ authenticated' = [c \in Sinks |-> c = s \/ (c \notin sinks /\ authenticated[c])]
         /\ shown' = [shown EXCEPT ![s] = @ \cup {Candidate(m).pin}]
         /\ auth_fails' = 0 /\ auth_backoff_until' = 0
         /\ streak' = 0 /\ fail_at' = 0
         /\ UNCHANGED too_soon

\* apply_wifi(): a configuration that changed takes the TCP sockets down.
WifiSurvivors(next) == IF next.wifi = device.wifi THEN sinks ELSE sinks \ Tcp

\* Mutant: the stored name is advertised, empty when it was cleared.
Advertised_Stored(m, next) == IF m.name = Absent THEN adv_name ELSE next.name

\* set_device_name(), when the write carried a name.
Advertised(m, next) == IF m.name = Absent THEN adv_name ELSE EffectiveName(next)

\* Authorized in the state the handler has reached when it pushes.
AuthorizedNext(c) == authenticated'[c] \/ device'.pin = DefaultPin

\* The rest of handle_set_device_settings(): a real change.  apply_wifi()
\* pushes n Status frames to whoever is still connected.
HandleSetDeviceSettings(s, m) ==
    LET next == Candidate(m) IN
    /\ Admitted(s, "SetDeviceSettings")
    /\ m.wifi = Absent \/ WifiSupported
    /\ next # device
    /\ SaveTo("dev", {next})
    /\ \/ PowerDown(<< >>)
       \/ /\ device' = next
          /\ RotateSessions(s, m)
          /\ sinks' = WifiSurvivors(next)
          /\ adv_name' = Advertised(m, next)
          /\ \E n \in 0..(IF next.wifi = device.wifi THEN 0 ELSE 2) :
                Emit([i \in 1..n |-> [body |-> "Status", to |-> sinks']]
                     \o <<DeviceSettingsFrame(next, {c \in sinks' \ {s} : AuthorizedNext(c)}),
                          DeviceSettingsFrame(next, {s} \cap sinks')>>)
          /\ UNCHANGED <<up, now, tuneVars, txVars, radioVars, logVars>>

-----------------------------------------------------------------------------
(* The tuning. *)

\* first_owner_lock_active()
FirstOwnerLock == set_count >= 1 /\ now < Grace

\* No settings in the request, or one out of range.
SetRadioSettingsBad(s) ==
    Admitted(s, "SetRadioSettings") /\ Refuse(s, "BAD_PAYLOAD")

\* Why a well-formed retune is refused with BUSY.
RetuneBusy == FirstOwnerLock \/ tx_pending

SetRadioSettingsBusy(s) ==
    Admitted(s, "SetRadioSettings") /\ RetuneBusy /\ Refuse(s, "BUSY")

\* The radio refuses the tuning: the settings stay as they are.
SetRadioSettingsFails(s, t) ==
    /\ Admitted(s, "SetRadioSettings") /\ ~RetuneBusy
    /\ ApplyRefused \/ ApplyFails(t)
    /\ Emit(<<Error(s, "TX_FAILED")>>)
    /\ UNCHANGED <<coreVars, logVars>>

\* The push to the others and the response.
RetuneFrames(s, next) ==
    <<RadioSettingsFrame(next, {c \in sinks \ {s} : Authorized(c)}),
      RadioSettingsFrame(next, Only(s))>>

\* Mutant: the settings are sent out before they are written to flash.
HandleSetRadioSettings_AnswersFirst(s, t) ==
    LET next == [tune |-> t, epoch |-> settings.epoch + 1] IN
    /\ Admitted(s, "SetRadioSettings") /\ ~RetuneBusy
    /\ settings.epoch < MaxEpoch
    /\ \/ PowerDown(RetuneFrames(s, next)) /\ UNCHANGED flash
       \/ /\ ApplyOk(t)
          /\ radio_ok' = TRUE
          /\ settings' = next
          /\ set_count' = set_count + 1
          /\ Emit(RetuneFrames(s, next))
          /\ SaveTo("radio", {next})
          /\ UNCHANGED <<up, now, sessVars, lockVars, devVars, txVars, logVars>>

\* The radio takes the tuning: epoch, flash, push, response, in this order.
HandleSetRadioSettings(s, t) ==
    LET next == [tune |-> t, epoch |-> settings.epoch + 1] IN
    /\ Admitted(s, "SetRadioSettings") /\ ~RetuneBusy
    /\ settings.epoch < MaxEpoch
    /\ SaveTo("radio", {next})
    /\ \/ PowerDown(<< >>)
       \/ /\ ApplyOk(t)
          /\ radio_ok' = TRUE
          /\ settings' = next
          /\ set_count' = set_count + 1
          /\ Emit(RetuneFrames(s, next))
          /\ UNCHANGED <<up, now, sessVars, lockVars, devVars, txVars, logVars>>

-----------------------------------------------------------------------------
(* Packets. *)

\* The number given to p, which the request it answers carried.
Accepted(s, p) == [body |-> "PacketAccepted", seq |-> next_seq, pkt |-> p, to |-> Only(s)]
TxResult(n, ok) == [body |-> "TxResult", seq |-> n, success |-> ok, to |-> sinks]

\* No bytes, or too many.
SendPacketBad(s) == Admitted(s, "SendPacket") /\ Refuse(s, "BAD_PAYLOAD")

SendPacketNoRadio(s) == Admitted(s, "SendPacket") /\ ~radio_ok /\ Refuse(s, "NO_RADIO")

SendPacketBusy(s) ==
    Admitted(s, "SendPacket") /\ radio_ok /\ tx_pending /\ Refuse(s, "BUSY")

\* The store could not take the packet at all.
SendPacketNoRoom(s, p) ==
    /\ Admitted(s, "SendPacket") /\ radio_ok /\ ~tx_pending
    /\ dropped < MaxSeq
    /\ LogReject(p)
    /\ Emit(<<Error(s, "BUSY")>>)
    /\ UNCHANGED <<coreVars, radioVars>>

\* Stored and accepted, and the radio keys up.
SendPacketStarts(s, p) ==
    /\ Admitted(s, "SendPacket") /\ radio_ok /\ ~tx_pending
    /\ next_seq < MaxSeq
    /\ LogAppend(p)
    /\ TransmitOk
    /\ tx_pending' = TRUE /\ tx_pending_seq' = next_seq
    /\ unresolved' = unresolved \cup {next_seq}
    /\ Emit(<<Accepted(s, p)>>)
    /\ UNCHANGED <<up, now, sessVars, lockVars, devVars, tuneVars, flash>>

\* Mutant: a transmission refused outright is not reported.
SendPacketRefused_Silent(s, p) ==
    /\ Admitted(s, "SendPacket") /\ radio_ok /\ ~tx_pending
    /\ next_seq < MaxSeq
    /\ LogAppend(p)
    /\ TransmitRefused
    /\ unresolved' = unresolved \cup {next_seq}
    /\ Emit(<<Accepted(s, p)>>)
    /\ UNCHANGED <<up, now, sessVars, lockVars, devVars, tuneVars, tx_pending,
                   tx_pending_seq, flash>>

\* Stored and accepted, and the radio refuses: reported at once.
SendPacketRefused(s, p) ==
    /\ Admitted(s, "SendPacket") /\ radio_ok /\ ~tx_pending
    /\ next_seq < MaxSeq
    /\ LogAppend(p)
    /\ TransmitRefused
    /\ Emit(<<Accepted(s, p), TxResult(next_seq, FALSE)>>)
    /\ UNCHANGED coreVars

\* max_count: 0 means everything, and everything is clamped.
FetchLimit(max) == IF max = 0 \/ max > MaxFetch THEN MaxFetch ELSE max

HandleFetchPackets(s, since, max) ==
    LET page == FetchLog(since, FetchLimit(max)) IN
    /\ Admitted(s, "FetchPackets")
    /\ JustSend([i \in 1..Len(page) |-> PacketFrame(page[i], Only(s))]
                  \o <<[body |-> "FetchEnd", count |-> Len(page), to |-> Only(s)]>>)

HandlePurgeStore(s) ==
    /\ Admitted(s, "PurgeStore")
    /\ LogClear
    /\ Emit(<<Ok(s)>>)
    /\ UNCHANGED <<coreVars, radioVars>>

-----------------------------------------------------------------------------
(* The board loop and the power. *)

\* Answered, then a plain restart.
HandleReboot(s) ==
    Admitted(s, "Reboot") /\ PowerDown(<<Ok(s)>>) /\ UNCHANGED flash

\* No DFU yet: the same restart.
HandleBootloader(s) ==
    Admitted(s, "Bootloader") /\ PowerDown(<<Ok(s)>>) /\ UNCHANGED flash

\* The record is deleted; what the handler clears in RAM goes with the
\* restart it ends in.
HandleFactoryReset(s) ==
    /\ Admitted(s, "FactoryReset")
    /\ SaveTo("dev", Never)
    /\ PowerDown(<<Ok(s)>>)

PowerLoss == up /\ PowerDown(<< >>) /\ UNCHANGED flash

\* CommandProcessor::boot(): the settings from flash, then the radio.
CoreBoot ==
    /\ settings' = Stored(flash.radio, DefaultSettings)
    /\ device' = Stored(flash.dev, DefaultDevice)
    /\ \/ BeginOk(settings'.tune) /\ radio_ok' = TRUE
       \/ BeginFails(settings'.tune) /\ radio_ok' = FALSE

\* setup(): a new store, boot(), then the transports; BLE advertises the
\* effective name.
Boot ==
    /\ ~up /\ up' = TRUE
    /\ capacity' \in (IF "alloc" \in Faults THEN Budgets ELSE {Capacity})
    /\ CoreBoot
    /\ adv_name' = EffectiveName(device')
    /\ sinks' = Fixed
    /\ Emit(<< >>)
    /\ UNCHANGED <<now, authenticated, shown, lockVars, set_count, txVars, flash,
                   log, oldest, next_seq, dropped>>

\* clock_.poll()
ClockPoll == now' \in {now} \cup (IF now < MaxTime THEN {now + 1} ELSE {})

\* poll() with nothing to report.
PollIdle ==
    /\ up /\ (~tx_pending \/ TxNotDone)
    /\ ClockPoll
    /\ Emit(<< >>)
    /\ UNCHANGED <<up, sessVars, lockVars, devVars, tuneVars, txVars, flash,
                   radioVars, logVars>>

\* Mutant: the result is sent and the pending flag stays.
PollTxDone_StaysPending ==
    /\ up /\ tx_pending /\ TxDone
    /\ ClockPoll
    /\ unresolved' = unresolved \ {tx_pending_seq}
    /\ Emit(<<TxResult(tx_pending_seq, TRUE)>>)
    /\ UNCHANGED <<up, sessVars, lockVars, devVars, tuneVars, tx_pending,
                   tx_pending_seq, flash, logVars>>

\* poll() completing a transmission: on_tx_result().
PollTxDone ==
    /\ up /\ tx_pending /\ TxDone
    /\ ClockPoll
    /\ tx_pending' = FALSE
    /\ unresolved' = unresolved \ {tx_pending_seq}
    /\ Emit(<<TxResult(tx_pending_seq, TRUE)>>)
    /\ UNCHANGED <<up, sessVars, lockVars, devVars, tuneVars, tx_pending_seq,
                   flash, logVars>>

\* receive() handed over a packet: on_packet_received().
PacketReceived(p) ==
    /\ up /\ ReceiveOk(p)
    /\ \/ dropped < MaxSeq /\ LogReject(p) /\ Emit(<< >>)
       \/ /\ next_seq < MaxSeq
          /\ LogAppend(p)
          /\ Emit(<<PacketFrame([seq |-> next_seq, pkt |-> p],
                                 {c \in sinks : Authorized(c)})>>)
    /\ UNCHANGED coreVars

\* receive() threw one away.
PacketDiscarded ==
    /\ up /\ ReceiveDiscards
    /\ Emit(<< >>)
    /\ UNCHANGED <<coreVars, logVars>>

\* Mutant: a slot is handed to a new connection with the old session in it.
Connect_KeepsSession(s) ==
    /\ up /\ s \in Links \ sinks /\ Cardinality(sinks) < MaxSinks
    /\ s \in Tcp => device.wifi # WifiOff
    /\ sinks' = sinks \cup {s}
    /\ shown' = [shown EXCEPT ![s] = {}]
    /\ Emit(<< >>)
    /\ UNCHANGED <<up, now, authenticated, lockVars, devVars, tuneVars, txVars, flash,
                   radioVars, logVars>>

\* A transport accepts a connection: a fresh session, and add_sink() while
\* the registry has room (a full registry turns the connection away).
Connect(s) ==
    /\ up /\ s \in Links \ sinks /\ Cardinality(sinks) < MaxSinks
    /\ s \in Tcp => device.wifi # WifiOff
    /\ sinks' = sinks \cup {s}
    /\ authenticated' = [authenticated EXCEPT ![s] = FALSE]
    /\ shown' = [shown EXCEPT ![s] = {}]
    /\ Emit(<< >>)
    /\ UNCHANGED <<up, now, lockVars, devVars, tuneVars, txVars, flash,
                   radioVars, logVars>>

\* remove_sink(); the slot keeps its flag until it is claimed again.
Disconnect(s) ==
    /\ up /\ s \in Links \cap sinks
    /\ sinks' = sinks \ {s}
    /\ shown' = [shown EXCEPT ![s] = {}]
    /\ Emit(<< >>)
    /\ UNCHANGED <<up, now, authenticated, lockVars, devVars, tuneVars, txVars,
                   flash, radioVars, logVars>>

\* on_wifi_state_changed(): everyone is told, authorized or not.
WifiStateChanged ==
    /\ up /\ WifiSupported /\ device.wifi # WifiOff
    /\ JustSend(<<[body |-> "Status", to |-> sinks]>>)

\* The chip moves by itself while the board is up.
Chip ==
    /\ up
    /\ ChipTxDone \/ ("air" \in Ops /\ \E p \in Packets : ChipRx(p))
    /\ Emit(<< >>)
    /\ UNCHANGED <<coreVars, logVars>>

-----------------------------------------------------------------------------
Init ==
    /\ up = FALSE /\ now = 0
    /\ sinks = {} /\ authenticated = [s \in Sinks |-> FALSE]
    /\ device = DefaultDevice /\ adv_name = DerivedName
    /\ settings = DefaultSettings /\ set_count = 0 /\ radio_ok = FALSE
    /\ auth_fails = 0 /\ auth_backoff_until = 0
    /\ tx_pending = FALSE /\ tx_pending_seq = 0
    /\ tx_started = FALSE /\ mode = "standby" /\ irq = NoIrq
    /\ deaf = FALSE /\ halfway = FALSE
    /\ regs = [i \in 1..NumRegs |-> DefaultTune]
    /\ capacity = 0 /\ log = << >> /\ oldest = 1 /\ next_seq = 1 /\ dropped = 0
    /\ shown = [s \in Sinks |-> {}]
    /\ streak = 0 /\ fail_at = 0 /\ too_soon = FALSE /\ unresolved = {}
    /\ flash = [radio |-> Never, dev |-> Never]
    /\ emitted = << >> /\ told = {} /\ seen = {}

\* handle_request() for one connection.
HandleRequest(s) ==
    \/ \E op \in GatedOps : RequireAuth(s, op)
    \/ HandlePing(s) \/ HandleGetDeviceInfo(s) \/ HandleGetStatus(s) \/ HandleUnknown(s)
    \/ HandleGetRadioSettings(s) \/ HandleGetDeviceSettings(s)
    \/ HandleAuthBackoff(s) \/ \E pin \in Pins : HandleAuth(s, pin)
    \/ SetDeviceSettingsBad(s)
    \/ \E m \in Writes :
          \/ SetDeviceSettingsUnsupported(s, m) \/ SetDeviceSettingsNoop(s, m)
          \/ HandleSetDeviceSettings(s, m)
    \/ SetRadioSettingsBad(s) \/ SetRadioSettingsBusy(s)
    \/ \E t \in Tunes : SetRadioSettingsFails(s, t) \/ HandleSetRadioSettings(s, t)
    \/ SendPacketBad(s) \/ SendPacketNoRadio(s) \/ SendPacketBusy(s)
    \/ \E p \in Packets :
          SendPacketNoRoom(s, p) \/ SendPacketStarts(s, p) \/ SendPacketRefused(s, p)
    \/ \E since \in 0..MaxSeq, max \in 0..(MaxFetch + 1) : HandleFetchPackets(s, since, max)
    \/ HandlePurgeStore(s) \/ HandleReboot(s) \/ HandleBootloader(s)
    \/ HandleFactoryReset(s)

Next ==
    \/ \E s \in Sinks : HandleRequest(s) \/ Connect(s) \/ Disconnect(s)
    \/ PollIdle \/ PollTxDone
    \/ (\E p \in Packets : PacketReceived(p)) \/ PacketDiscarded
    \/ WifiStateChanged
    \/ Chip
    \/ PowerLoss \/ Boot

Spec == Init /\ [][Next]_vars

\* The loop polls for ever, and a transmission leaves the antenna.
FairSpec == Spec /\ WF_vars(PollTxDone) /\ WF_vars(Chip /\ mode = "tx")

-----------------------------------------------------------------------------
(* What must hold. *)

\* The type invariant of the core, its radio and its store.
TypeOK ==
    /\ RadioTypeOK
    /\ up \in BOOLEAN /\ now \in Nat /\ radio_ok \in BOOLEAN
    /\ sinks \subseteq Sinks /\ Cardinality(sinks) <= MaxSinks
    /\ authenticated \in [Sinks -> BOOLEAN]
    /\ device \in [name : Names, pin : Pins, wifi : Wifis]
    /\ settings \in [tune : Tunes, epoch : Nat] /\ set_count \in Nat
    /\ auth_fails \in 0..FailCap /\ auth_backoff_until \in Nat
    /\ tx_pending \in BOOLEAN /\ tx_pending_seq \in Nat
    /\ DOMAIN log = oldest..(next_seq - 1) /\ Range(log) \subseteq Packets
    /\ Bytes(log) <= capacity

\* A session is backed by the PIN in force: while the device is locked, a
\* registered connection that counts as authenticated has itself presented
\* or written that very PIN since it connected (handle_auth(), the rotation
\* in handle_set_device_settings(), and the reset when a slot is reused).
SessionProvenance ==
    up => \A s \in sinks : authenticated[s] => PinIsDefault \/ device.pin \in shown[s]

\* Gated material (tuning, packets, the Wi-Fi configuration), asked for or
\* pushed, reaches only connections that presented the PIN in force after
\* the step, whatever rotation the same step made.
GatedMaterial ==
    up => \A i \in DOMAIN emitted :
        emitted[i].body \in {"RadioSettings", "DeviceSettings", "PacketEntry"} =>
            \A s \in emitted[i].to : PinIsDefault \/ device.pin \in shown[s]

\* The rate limit is per device: once more than FreeFails wrong PINs came in
\* a row, no connection gets one evaluated before FailDelay has passed since
\* the last, however many attempts were made (note_auth_failure()).
RateLimit == ~too_soon

\* Every accepted send that is still owed a TxResult is the one the radio is
\* transmitting: the core's lock, the port's flag and the clients' view are
\* the same fact in three places.
TxAccounted ==
    up => /\ unresolved = IF tx_pending THEN {tx_pending_seq} ELSE {}
          /\ tx_pending = tx_started

\* A TxResult is sent for a send that was accepted before and not reported
\* yet, and after its PacketAccepted.
TxResultOwed ==
    [][\A i \in DOMAIN emitted' : emitted'[i].body = "TxResult" =>
          \/ emitted'[i].seq \in unresolved
          \/ \E j \in 1..(i - 1) : /\ emitted'[j].body = "PacketAccepted"
                                   /\ emitted'[j].seq = emitted'[i].seq]_vars

\* Outside a transmission a radio that came up is receiving, unless the last
\* startReceive() failed: a retune the radio refuses costs that request and
\* nothing else.  apply() calls standby() first and returns at the first
\* setter that fails, before start_rx(): a refused retune breaks this.
Listening == up /\ radio_ok /\ ~tx_started /\ ~deaf => mode = "rx"

\* That refused retune is the only way to lose the receiver: after every
\* transmission, refused or done, after every packet, sound or not, and
\* after a retune that ended otherwise, the firmware has gone back to
\* receiving unless startReceive() itself failed, and the first of these
\* that follows a refused retune turns the receiver on again.
OffOnlyAfterRefusal ==
    up /\ radio_ok /\ ~tx_started => mode = "rx" \/ deaf \/ halfway

\* The tuning on the air is the tuning the device reports and persists: a
\* retune the radio refuses leaves the previous one in force.
AirMatchesSettings == up /\ radio_ok => \A i \in 1..NumRegs : regs[i] = settings.tune

\* config_epoch identifies a tuning for good: no two radio settings ever sent
\* out with the same epoch differ, across retunes, restarts and power cuts at
\* any point of a retune.
EpochNamesTuning == \A a, b \in told : a.epoch = b.epoch => a.tune = b.tune

\* Flash is never behind what clients were told: a restart brings back the
\* device settings in force, and no older tuning than any that was sent out.
AnsweredIsDurable ==
    /\ up => device = Stored(flash.dev, DefaultDevice)
    /\ \A r \in told : r.epoch <= Stored(flash.radio, DefaultSettings).epoch

\* The name on the air is the name the settings report: across renames, a
\* cleared name, a factory reset and restarts, although only a write that
\* carries a name and setup() ever touch the advertisement.
AdvertisedName == up => adv_name = EffectiveName(device)

\* Within one boot a sequence number names one packet, whoever is told and
\* however often the store is purged or wraps.
SeqNamesPacket == \A a, b \in seen : a.seq = b.seq => a.pkt = b.pkt

\* The transmission lock always clears: a pending send is reported unless
\* the power goes first.
TxResolves == (up /\ tx_pending) ~> (~up \/ ~tx_pending)

\* A write that carries the PIN already in force is not a rotation: a
\* connection that was authorized and stays registered stays authorized.
SameValuePinKeepsSessions ==
    [][up /\ up' /\ device'.pin = device.pin =>
          \A s \in sinks \cap sinks' : Authorized(s) => Authorized(s)']_vars
=============================================================================
