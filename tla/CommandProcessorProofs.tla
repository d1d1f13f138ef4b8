---------------------- MODULE CommandProcessorProofs ----------------------
(***************************************************************************)
(* What the protocol core guarantees for every set of connections, PINs,   *)
(* tunings and packets, every failure budget and every set of faults.      *)
(*                                                                         *)
(* The invariant falls into groups that rest on different variables; each  *)
(* group is inductive by itself or with one before it.                     *)
(***************************************************************************)
EXTENDS CommandProcessor, TLAPS

-----------------------------------------------------------------------------
(* The steps. *)

\* The requests that change something.
Changes(s) ==
    \/ \E pin \in Pins : HandleAuth(s, pin)
    \/ \E m \in Writes : HandleSetDeviceSettings(s, m)
    \/ \E t \in Tunes : SetRadioSettingsFails(s, t) \/ HandleSetRadioSettings(s, t)
    \/ \E p \in Packets :
          SendPacketNoRoom(s, p) \/ SendPacketStarts(s, p) \/ SendPacketRefused(s, p)
    \/ HandlePurgeStore(s) \/ HandleFactoryReset(s)
    \/ Connect(s) \/ Disconnect(s)

\* The steps nobody asks for.
BoardSteps ==
    \/ PollIdle \/ PollTxDone
    \/ (\E p \in Packets : PacketReceived(p)) \/ PacketDiscarded
    \/ Chip \/ Boot

\* The restarts that leave flash alone.
Restarts ==
    (PowerLoss \/ \E s \in Sinks : HandleReboot(s) \/ HandleBootloader(s))

\* Every step is one of these, or only sends.
LEMMA StepCases ==
    ASSUME [Next]_vars
    PROVE  \/ UNCHANGED <<coreVars, radioVars, logVars>>
           \/ \E s \in Sinks : Changes(s)
           \/ BoardSteps
           \/ Restarts
<1>1. ASSUME NEW s \in Sinks, HandleRequest(s)
      PROVE  UNCHANGED <<coreVars, radioVars, logVars>> \/ Changes(s) \/ Restarts
  <2> USE DEF JustSend, Refuse
  <2>1. CASE \E op \in GatedOps : RequireAuth(s, op)
    BY <2>1 DEF RequireAuth
  <2>2. CASE \/ HandlePing(s) \/ HandleGetDeviceInfo(s) \/ HandleGetStatus(s)
             \/ HandleUnknown(s) \/ HandleGetRadioSettings(s) \/ HandleGetDeviceSettings(s)
    BY <2>2 DEF HandlePing, HandleGetDeviceInfo, HandleGetStatus, HandleUnknown,
                HandleGetRadioSettings, HandleGetDeviceSettings
  <2>3. CASE HandleAuthBackoff(s) \/ SetDeviceSettingsBad(s)
    BY <2>3 DEF HandleAuthBackoff, SetDeviceSettingsBad
  <2>4. CASE \E m \in Writes : SetDeviceSettingsUnsupported(s, m) \/ SetDeviceSettingsNoop(s, m)
    BY <2>4 DEF SetDeviceSettingsUnsupported, SetDeviceSettingsNoop
  <2>5. CASE \/ SetRadioSettingsBad(s) \/ SetRadioSettingsBusy(s)
             \/ SendPacketBad(s) \/ SendPacketNoRadio(s) \/ SendPacketBusy(s)
    BY <2>5 DEF SetRadioSettingsBad, SetRadioSettingsBusy, SendPacketBad, SendPacketNoRadio,
                SendPacketBusy
  <2>6. CASE \E since \in 0..MaxSeq, max \in 0..(MaxFetch + 1) :
                HandleFetchPackets(s, since, max)
    BY <2>6 DEF HandleFetchPackets
  <2>7. CASE HandleReboot(s) \/ HandleBootloader(s)
    BY <2>7 DEF Restarts
  <2>8. CASE Changes(s)
    BY <2>8
  <2> QED
    BY <1>1, <2>1, <2>2, <2>3, <2>4, <2>5, <2>6, <2>7, <2>8 DEF HandleRequest, Changes
<1>2. CASE UNCHANGED vars
  BY <1>2 DEF vars
<1>3. CASE WifiStateChanged
  BY <1>3 DEF WifiStateChanged, JustSend
<1> QED
  BY <1>1, <1>2, <1>3 DEF Next, BoardSteps, Restarts, Changes

-----------------------------------------------------------------------------
(* The records. *)

Devices == [name : Names, pin : Pins, wifi : Wifis]
Tunings == [tune : Tunes, epoch : Nat]

\* At most one record of R.
Held(R) == {Never} \cup {{r} : r \in R}

RecordTypes ==
    /\ device \in Devices /\ settings \in Tunings
    /\ flash \in [radio : Held(Tunings), dev : Held(Devices)]

LEMMA DefaultsTyped == DefaultDevice \in Devices /\ DefaultSettings \in Tunings
  BY ConfigAssumption, RegsAssumption
  DEF DefaultDevice, DefaultSettings, Devices, Tunings

\* What a flash field reads as: the record in it, or the default.
LEMMA StoredRecord ==
    ASSUME NEW R, NEW d \in R
    PROVE  /\ Stored(Never, d) = d
           /\ \A r : Stored({r}, d) = r
           /\ \A f \in Held(R) : Stored(f, d) \in R
  BY DEF Stored, Held, Never

LEMMA CandidateTyped ==
    ASSUME device \in Devices, NEW m \in Writes
    PROVE  Candidate(m) \in Devices
<1>1. m \in DeviceWrites
  BY WritesAssumption
<1> QED
  BY <1>1, ConfigAssumption DEF DeviceWrites, Candidate, Devices

LEMMA SavedTyped ==
    ASSUME RecordTypes, NEW field \in {"radio", "dev"}, NEW value, SaveTo(field, value),
           value \in Held(IF field = "radio" THEN Tunings ELSE Devices)
    PROVE  flash' \in [radio : Held(Tunings), dev : Held(Devices)]
  BY DEF RecordTypes, SaveTo

LEMMA RecordsPowerDown ==
    ASSUME NEW frames, PowerDown(frames)
    PROVE  device' \in Devices /\ settings' \in Tunings
  BY DefaultsTyped DEF PowerDown

LEMMA RecordStep == RecordTypes /\ [Next]_vars => RecordTypes'
<1> SUFFICES ASSUME RecordTypes, [Next]_vars PROVE RecordTypes'
  OBVIOUS
<1>1. ASSUME UNCHANGED <<device, settings, flash>> PROVE RecordTypes'
  BY <1>1 DEF RecordTypes
<1>2. ASSUME NEW s \in Sinks, Changes(s) PROVE RecordTypes'
  <2>1. ASSUME NEW m \in Writes, HandleSetDeviceSettings(s, m) PROVE RecordTypes'
    <3>1. Candidate(m) \in Devices
      BY CandidateTyped DEF RecordTypes
    <3>2. {Candidate(m)} \in Held(Devices) /\ SaveTo("dev", {Candidate(m)})
      BY <2>1, <3>1 DEF HandleSetDeviceSettings, Held
    <3>3. flash' \in [radio : Held(Tunings), dev : Held(Devices)]
      BY <3>2, SavedTyped
    <3>4. device' \in Devices /\ settings' \in Tunings
      BY <2>1, <3>1, RecordsPowerDown DEF HandleSetDeviceSettings, RecordTypes, tuneVars
    <3> QED
      BY <3>3, <3>4 DEF RecordTypes
  <2>2. ASSUME NEW t \in Tunes, HandleSetRadioSettings(s, t) PROVE RecordTypes'
    <3> DEFINE next == [tune |-> t, epoch |-> settings.epoch + 1]
    <3>1. next \in Tunings
      BY DEF RecordTypes, Tunings
    <3>2. {next} \in Held(Tunings) /\ SaveTo("radio", {next})
      BY <2>2, <3>1 DEF HandleSetRadioSettings, Held
    <3>3. flash' \in [radio : Held(Tunings), dev : Held(Devices)]
      BY <3>2, SavedTyped
    <3>4. device' \in Devices /\ settings' \in Tunings
      BY <2>2, <3>1, RecordsPowerDown DEF HandleSetRadioSettings, RecordTypes, devVars
    <3> QED
      BY <3>3, <3>4 DEF RecordTypes
  <2>3. CASE HandleFactoryReset(s)
    <3>1. flash' \in [radio : Held(Tunings), dev : Held(Devices)]
      BY <2>3, SavedTyped DEF HandleFactoryReset, Held
    <3> QED
      BY <2>3, <3>1, RecordsPowerDown DEF HandleFactoryReset, RecordTypes
  <2> QED
    BY <1>1, <1>2, <2>1, <2>2, <2>3
    DEF Changes, HandleAuth, SetRadioSettingsFails, SendPacketNoRoom, SendPacketStarts,
        SendPacketRefused, HandlePurgeStore, Connect, Disconnect, coreVars, devVars, tuneVars
<1>3. CASE BoardSteps
  <2>1. CASE Boot
    BY <2>1, StoredRecord, DefaultsTyped DEF Boot, CoreBoot, RecordTypes
  <2>2. CASE ~Boot
    BY <1>1, <1>3, <2>2
    DEF BoardSteps, PollIdle, PollTxDone, PacketReceived, PacketDiscarded, Chip,
        coreVars, devVars, tuneVars
  <2> QED
    BY <2>1, <2>2
<1>4. CASE Restarts
  BY <1>4, RecordsPowerDown DEF Restarts, PowerLoss, HandleReboot, HandleBootloader, RecordTypes
<1>5. CASE UNCHANGED <<coreVars, radioVars, logVars>>
  BY <1>1, <1>5 DEF coreVars, devVars, tuneVars
<1> QED
  BY <1>2, <1>3, <1>4, <1>5, StepCases

-----------------------------------------------------------------------------
(* Sessions. *)

SessionTypes ==
    /\ RecordTypes
    /\ up \in BOOLEAN /\ sinks \subseteq Sinks
    /\ authenticated \in [Sinks -> BOOLEAN]
    /\ shown \in [Sinks -> SUBSET Pins]

\* Sessions do not outlive the power.
SessionInv ==
    /\ SessionTypes
    /\ SessionProvenance
    /\ ~up => \A s \in Sinks : ~authenticated[s]

\* A power cut or restart ends every session.
LEMMA SessionPowerDown ==
    ASSUME NEW frames, PowerDown(frames), RecordTypes'
    PROVE  SessionInv'
  BY DEF PowerDown, SessionInv, SessionTypes, SessionProvenance

\* The write of a PIN: the rotation leaves the writer alone with a session.
LEMMA SessionRotation ==
    ASSUME SessionInv, NEW s \in Sinks, NEW m \in Writes, HandleSetDeviceSettings(s, m),
           RecordTypes'
    PROVE  SessionInv'
<1> DEFINE next == Candidate(m)
<1>1. CASE PowerDown(<< >>)
  BY <1>1, SessionPowerDown
<1>2. CASE ~PowerDown(<< >>)
  <2>1. /\ up /\ s \in sinks /\ up' = up
        /\ device' = next /\ RotateSessions(s, m) /\ sinks' = WifiSurvivors(next)
    BY <1>2 DEF HandleSetDeviceSettings, Admitted, Request
  <2>2. next \in Devices
    BY CandidateTyped DEF SessionInv, SessionTypes, RecordTypes
  <2>3. sinks' \subseteq sinks
    BY <2>1 DEF WifiSurvivors
  <2>4. CASE m.pin = Absent
    <3>1. UNCHANGED <<authenticated, shown>>
      BY <2>1, <2>4 DEF RotateSessions
    <3>2. next.pin = device.pin
      BY <2>4, ConfigAssumption DEF Candidate
    <3> QED
      BY <2>1, <2>2, <2>3, <3>1, <3>2
      DEF SessionInv, SessionTypes, SessionProvenance, PinIsDefault
  <2>5. CASE m.pin # Absent
    <3> DEFINE p == next.pin
    <3>0. p \in Pins
      BY <2>2 DEF Devices
    <3>1. /\ authenticated' = [c \in Sinks |-> c = s \/ (c \notin sinks /\ authenticated[c])]
          /\ shown' = [shown EXCEPT ![s] = @ \cup {p}]
      BY <2>1, <2>5 DEF RotateSessions
    <3> HIDE DEF p
    <3>2. authenticated' \in [Sinks -> BOOLEAN] /\ shown' \in [Sinks -> SUBSET Pins]
      BY <3>0, <3>1 DEF SessionInv, SessionTypes
    <3>3. \A c \in sinks' : authenticated'[c] => p \in shown'[c]
      BY <2>3, <3>1 DEF SessionInv, SessionTypes
    <3>4. device'.pin = p
      BY <2>1 DEF p
    <3> QED
      BY <2>1, <2>2, <2>3, <3>2, <3>3, <3>4
      DEF SessionInv, SessionTypes, SessionProvenance, PinIsDefault
  <2> QED
    BY <2>4, <2>5
<1> QED
  BY <1>1, <1>2

LEMMA SessionStep == SessionInv /\ [Next]_vars => SessionInv'
<1> SUFFICES ASSUME SessionInv, [Next]_vars PROVE SessionInv'
  OBVIOUS
<1> DEFINE v == <<up, sinks, authenticated, shown, device>>
<1>0. RecordTypes'
  BY RecordStep DEF SessionInv, SessionTypes
<1>1. ASSUME UNCHANGED v PROVE SessionInv'
  BY <1>0, <1>1 DEF SessionInv, SessionTypes, SessionProvenance, PinIsDefault
<1>2. ASSUME NEW s \in Sinks, Changes(s) PROVE SessionInv'
  <2>1. ASSUME NEW pin \in Pins, HandleAuth(s, pin) PROVE SessionInv'
    <3>1. /\ up /\ s \in sinks /\ UNCHANGED <<up, sinks, device>>
          /\ shown' = [shown EXCEPT ![s] = @ \cup {pin}]
          /\ \/ /\ Authorized(s) \/ pin = device.pin
                /\ authenticated' = [authenticated EXCEPT ![s] = TRUE]
             \/ UNCHANGED authenticated
      BY <2>1 DEF HandleAuth, Request, devVars
    <3>2. Authorized(s) => PinIsDefault \/ device.pin \in shown[s]
      BY <3>1 DEF SessionInv, SessionProvenance, Authorized
    <3> QED
      BY <1>0, <3>1, <3>2 DEF SessionInv, SessionTypes, SessionProvenance, PinIsDefault
  <2>2. ASSUME NEW m \in Writes, HandleSetDeviceSettings(s, m) PROVE SessionInv'
    BY <1>0, <2>2, SessionRotation
  <2>3. ASSUME NEW t \in Tunes, SetRadioSettingsFails(s, t) \/ HandleSetRadioSettings(s, t)
        PROVE  SessionInv'
    BY <1>1, <2>3, <1>0, SessionPowerDown
    DEF SetRadioSettingsFails, HandleSetRadioSettings, coreVars, sessVars, devVars
  <2>4. ASSUME NEW p \in Packets,
               SendPacketNoRoom(s, p) \/ SendPacketStarts(s, p) \/ SendPacketRefused(s, p)
        PROVE  SessionInv'
    BY <1>1, <2>4
    DEF SendPacketNoRoom, SendPacketStarts, SendPacketRefused, coreVars, sessVars, devVars
  <2>5. CASE HandlePurgeStore(s)
    BY <1>1, <2>5 DEF HandlePurgeStore, coreVars, sessVars, devVars
  <2>6. CASE HandleFactoryReset(s)
    BY <2>6, <1>0, SessionPowerDown DEF HandleFactoryReset
  <2>7. CASE Connect(s)
    BY <1>0, <2>7 DEF Connect, devVars, SessionInv, SessionTypes, SessionProvenance, PinIsDefault
  <2>8. CASE Disconnect(s)
    BY <1>0, <2>8 DEF Disconnect, devVars, SessionInv, SessionTypes, SessionProvenance, PinIsDefault
  <2> QED
    BY <1>2, <2>1, <2>2, <2>3, <2>4, <2>5, <2>6, <2>7, <2>8 DEF Changes
<1>3. CASE BoardSteps
  <2>1. CASE Boot
    BY <1>0, <2>1, SinksAssumption DEF Boot, Sinks, SessionInv, SessionTypes, SessionProvenance
  <2>2. CASE ~Boot
    BY <1>1, <1>3, <2>2
    DEF BoardSteps, PollIdle, PollTxDone, PacketReceived, PacketDiscarded, Chip,
        coreVars, sessVars, devVars
  <2> QED
    BY <2>1, <2>2
<1>4. CASE Restarts
  BY <1>4, <1>0, SessionPowerDown DEF Restarts, PowerLoss, HandleReboot, HandleBootloader
<1>5. CASE UNCHANGED <<coreVars, radioVars, logVars>>
  BY <1>1, <1>5 DEF coreVars, sessVars, devVars
<1> QED
  BY <1>2, <1>3, <1>4, <1>5, StepCases

LEMMA SessionStart == Init => SessionInv
<1> SUFFICES ASSUME Init PROVE SessionInv
  OBVIOUS
<1>1. flash \in [radio : Held(Tunings), dev : Held(Devices)]
  BY DEF Init, Held
<1>2. RecordTypes
  BY <1>1, DefaultsTyped DEF Init, RecordTypes
<1>3. SessionTypes
  BY <1>2 DEF Init, SessionTypes
<1> QED
  BY <1>3 DEF Init, SessionInv, SessionTypes, SessionProvenance

\* Sessions are backed by the PIN in force, for any number of connections and
\* any order of authentications, PIN writes, reconnections and restarts.
THEOREM SessionsBacked == Spec => []SessionProvenance
<1>1. SessionInv => SessionProvenance
  BY DEF SessionInv
<1> QED
  BY <1>1, SessionStart, SessionStep, PTL DEF Spec

-----------------------------------------------------------------------------
(* The numbering of the store. *)

\* The retained packets are the last ones numbered, without a gap.
LogInv ==
    /\ oldest \in Nat /\ next_seq \in Nat /\ oldest <= next_seq
    /\ log \in [oldest..(next_seq - 1) -> Packets]

\* The log of a store that holds nothing.
LEMMA EmptyLog ==
    ASSUME NEW n \in Nat
    PROVE  << >> \in [n..(n - 1) -> Packets]
<1>1. n..(n - 1) = {}
  OBVIOUS
<1> QED
  BY <1>1

LEMMA LogCallStep ==
    ASSUME LogInv, NEW p \in Packets, LogReject(p) \/ LogAppend(p)
    PROVE  LogInv'
<1>1. CASE LogReject(p)
  BY <1>1 DEF LogReject, LogInv
<1>2. ASSUME NEW o \in oldest..next_seq, AppendFrom(p, o) PROVE LogInv'
  BY <1>2 DEF AppendFrom, LogInv
<1> QED
  BY <1>1, <1>2 DEF LogAppend

LEMMA LogPowerDown ==
    ASSUME NEW frames, PowerDown(frames)
    PROVE  LogInv'
<1>1. << >> \in [1..(1 - 1) -> Packets]
  BY EmptyLog
<1> QED
  BY <1>1 DEF PowerDown, LogInv

\* What a step does to the log.
LEMMA LogMoves ==
    ASSUME [Next]_vars
    PROVE  \/ UNCHANGED <<log, oldest, next_seq>>
           \/ \E p \in Packets : LogReject(p) \/ LogAppend(p)
           \/ LogClear
           \/ \E frames : PowerDown(frames)
<1>1. ASSUME NEW s \in Sinks, Changes(s)
      PROVE  \/ UNCHANGED logVars
             \/ \E p \in Packets : LogReject(p) \/ LogAppend(p)
             \/ LogClear
             \/ \E frames : PowerDown(frames)
  BY <1>1
  DEF Changes, HandleAuth, HandleSetDeviceSettings, SetRadioSettingsFails,
      HandleSetRadioSettings, SendPacketNoRoom, SendPacketStarts, SendPacketRefused,
      HandlePurgeStore, HandleFactoryReset, Connect, Disconnect
<1>2. CASE BoardSteps
  BY <1>2
  DEF BoardSteps, PollIdle, PollTxDone, PacketReceived, PacketDiscarded, Chip, Boot, logVars
<1>3. CASE Restarts
  BY <1>3 DEF Restarts, PowerLoss, HandleReboot, HandleBootloader
<1> QED
  BY <1>1, <1>2, <1>3, StepCases DEF logVars

LEMMA LogStep == LogInv /\ [Next]_vars => LogInv'
<1> SUFFICES ASSUME LogInv, [Next]_vars PROVE LogInv'
  OBVIOUS
<1>1. CASE UNCHANGED <<log, oldest, next_seq>>
  BY <1>1 DEF LogInv
<1>2. CASE LogClear
  BY <1>2, EmptyLog DEF LogClear, LogInv
<1> QED
  BY <1>1, <1>2, LogMoves, LogCallStep, LogPowerDown

LEMMA LogStart == Init => LogInv
  BY EmptyLog DEF Init, LogInv

\* A page of a fetch: as many entries as asked for at most, each numbered and
\* taken from the log.
LEMMA Page ==
    ASSUME LogInv, NEW since \in Nat, NEW max \in Nat
    PROVE  LET page == FetchLog(since, max) IN
           /\ Len(page) \in 0..max /\ DOMAIN page = 1..Len(page)
           /\ \A i \in 1..Len(page) : /\ page[i].seq \in DOMAIN log /\ page[i].seq > since
                                      /\ page[i].pkt = log[page[i].seq]
<1> DEFINE lo == IF since >= oldest THEN since + 1 ELSE oldest
           hi == IF next_seq < lo + max THEN next_seq - 1 ELSE lo + max - 1
           n == IF hi >= lo THEN hi - lo + 1 ELSE 0
<1>1. lo \in Nat /\ oldest <= lo /\ since < lo /\ hi \in Int /\ hi < next_seq /\ hi < lo + max
  BY DEF LogInv
<1>2. n \in 0..max /\ \A i \in 1..n : lo + i - 1 \in oldest..(next_seq - 1)
  BY <1>1 DEF LogInv
<1>3. FetchLog(since, max) = [i \in 1..n |-> [seq |-> lo + i - 1, pkt |-> log[lo + i - 1]]]
  BY DEF FetchLog
<1> HIDE DEF n, hi
<1>4. Len(FetchLog(since, max)) = n /\ DOMAIN FetchLog(since, max) = 1..n
  BY <1>2, <1>3
<1>5. ASSUME NEW i \in 1..n
      PROVE  LET e == FetchLog(since, max)[i] IN
             e.seq \in DOMAIN log /\ e.seq > since /\ e.pkt = log[e.seq]
  <2>1. FetchLog(since, max)[i] = [seq |-> lo + i - 1, pkt |-> log[lo + i - 1]]
    BY <1>3
  <2>2. lo + i - 1 \in DOMAIN log /\ lo + i - 1 > since
    BY <1>1, <1>2 DEF LogInv
  <2> HIDE DEF lo
  <2> QED
    BY <2>1, <2>2
<1> QED
  BY <1>2, <1>4, <1>5

-----------------------------------------------------------------------------
(* The frames of a step. *)

\* The frames some property speaks of.
Noted == {"RadioSettings", "DeviceSettings", "PacketEntry", "PacketAccepted", "TxResult"}

\* No such frame is sent, and so nothing new is told.
PlainStep ==
    /\ \A i \in DOMAIN emitted' : emitted'[i].body \notin Noted
    /\ told' = told /\ seen' \subseteq seen

LEMMA PlainEmit ==
    ASSUME NEW f, Emit(f) \/ PowerDown(f),
           f = << >> \/ \E b : f = <<b>> /\ b.body \notin Noted
    PROVE  PlainStep
<1>1. \A b \in Range(f) : b.body \notin Noted
  BY DEF Range
<1>2. emitted' = f /\ told' = ToldBy(f)
  BY DEF Emit, PowerDown
<1>3. {g \in Range(f) : g.body = "RadioSettings"} = {}
  BY <1>1 DEF Noted
<1>4. {g \in Range(f) : g.body \in {"PacketEntry", "PacketAccepted"}} = {}
  BY <1>1 DEF Noted
<1>5. told' = told
  BY <1>2, <1>3 DEF ToldBy
<1>6. seen' \subseteq seen
  BY <1>4 DEF Emit, PowerDown
<1>7. \A i \in DOMAIN f : f[i].body \notin Noted
  BY <1>1 DEF Range
<1> QED
  BY <1>2, <1>5, <1>6, <1>7 DEF PlainStep

\* The requests whose answers are noted.
NotedRequests(s) ==
    \/ HandleGetRadioSettings(s) \/ HandleGetDeviceSettings(s)
    \/ \E m \in Writes : SetDeviceSettingsNoop(s, m) \/ HandleSetDeviceSettings(s, m)
    \/ \E t \in Tunes : HandleSetRadioSettings(s, t)
    \/ \E p \in Packets : SendPacketStarts(s, p) \/ SendPacketRefused(s, p)
    \/ \E since \in 0..MaxSeq, max \in 0..(MaxFetch + 1) : HandleFetchPackets(s, since, max)

\* Every step sends nothing of note but these.
LEMMA FrameCases ==
    ASSUME Next
    PROVE  \/ PlainStep
           \/ \E s \in Sinks : NotedRequests(s)
           \/ PollTxDone
           \/ \E p \in Packets : PacketReceived(p)
<1>1. ASSUME NEW s \in Sinks, NEW code, Refuse(s, code) PROVE PlainStep
  BY <1>1, PlainEmit DEF Refuse, JustSend, Error, Noted
<1>2. ASSUME NEW s \in Sinks, HandleRequest(s) PROVE PlainStep \/ NotedRequests(s)
  <2>1. CASE \E op \in GatedOps : RequireAuth(s, op)
    BY <1>1, <2>1 DEF RequireAuth
  <2>2. CASE \/ HandlePing(s) \/ HandleGetDeviceInfo(s) \/ HandleGetStatus(s)
    BY <2>2, PlainEmit DEF HandlePing, HandleGetDeviceInfo, HandleGetStatus, JustSend, Noted
  <2>3. CASE \/ HandleUnknown(s) \/ HandleAuthBackoff(s) \/ SetDeviceSettingsBad(s)
             \/ SetRadioSettingsBad(s) \/ SetRadioSettingsBusy(s)
             \/ SendPacketBad(s) \/ SendPacketNoRadio(s) \/ SendPacketBusy(s)
             \/ \E m \in Writes : SetDeviceSettingsUnsupported(s, m)
    BY <1>1, <2>3
    DEF HandleUnknown, HandleAuthBackoff, SetDeviceSettingsBad, SetRadioSettingsBad,
        SetRadioSettingsBusy, SendPacketBad, SendPacketNoRadio, SendPacketBusy,
        SetDeviceSettingsUnsupported
  <2>4. ASSUME NEW pin \in Pins, HandleAuth(s, pin) PROVE PlainStep
    BY <2>4, PlainEmit DEF HandleAuth, Ok, Error, Noted
  <2>5. ASSUME NEW t \in Tunes, SetRadioSettingsFails(s, t) PROVE PlainStep
    BY <2>5, PlainEmit DEF SetRadioSettingsFails, Error, Noted
  <2>6. ASSUME NEW p \in Packets, SendPacketNoRoom(s, p) PROVE PlainStep
    BY <2>6, PlainEmit DEF SendPacketNoRoom, Error, Noted
  <2>7. CASE \/ HandlePurgeStore(s) \/ HandleReboot(s) \/ HandleBootloader(s)
             \/ HandleFactoryReset(s)
    BY <2>7, PlainEmit
    DEF HandlePurgeStore, HandleReboot, HandleBootloader, HandleFactoryReset, Ok, Noted
  <2> QED
    BY <1>2, <2>1, <2>2, <2>3, <2>4, <2>5, <2>6, <2>7 DEF HandleRequest, NotedRequests
<1>3. ASSUME NEW s \in Sinks, Connect(s) \/ Disconnect(s) PROVE PlainStep
  BY <1>3, PlainEmit DEF Connect, Disconnect
<1>4. CASE PollIdle \/ PacketDiscarded \/ Chip \/ PowerLoss \/ Boot
  BY <1>4, PlainEmit DEF PollIdle, PacketDiscarded, Chip, PowerLoss, Boot
<1>5. CASE WifiStateChanged
  BY <1>5, PlainEmit DEF WifiStateChanged, JustSend, Noted
<1> QED
  BY <1>2, <1>3, <1>4, <1>5 DEF Next

\* The frames of a change to the device settings.
DeviceFrames(s, next) ==
    {[body |-> "Status", to |-> sinks'],
     DeviceSettingsFrame(next, {c \in sinks' \ {s} : AuthorizedNext(c)}),
     DeviceSettingsFrame(next, {s} \cap sinks')}

LEMMA DeviceEmission ==
    ASSUME NEW s, NEW m, HandleSetDeviceSettings(s, m), ~PowerDown(<< >>)
    PROVE  \E f \in Seq(DeviceFrames(s, Candidate(m))) : Emit(f)
<1> DEFINE next == Candidate(m)
           S == DeviceFrames(s, next)
           status == [body |-> "Status", to |-> sinks']
           push == DeviceSettingsFrame(next, {c \in sinks' \ {s} : AuthorizedNext(c)})
           reply == DeviceSettingsFrame(next, {s} \cap sinks')
<1>1. \E n \in 0..(IF next.wifi = device.wifi THEN 0 ELSE 2) :
         Emit([i \in 1..n |-> status] \o <<push, reply>>)
  BY DEF HandleSetDeviceSettings
<1>2. PICK n \in Nat : Emit([i \in 1..n |-> status] \o <<push, reply>>)
  <2>1. 0..(IF next.wifi = device.wifi THEN 0 ELSE 2) \subseteq Nat
    OBVIOUS
  <2> HIDE DEF next, status, push, reply
  <2> QED
    BY <1>1, <2>1
<1>3. {status, push, reply} \subseteq S
  BY DEF DeviceFrames
<1> HIDE DEF status, push, reply, S
<1>4. [i \in 1..n |-> status] \in Seq(S) /\ <<push, reply>> \in Seq(S)
  BY <1>3
<1>5. [i \in 1..n |-> status] \o <<push, reply>> \in Seq(S)
  BY <1>4
<1> QED
  BY <1>2, <1>5 DEF S

\* The frames of a fetch: retained packets, and the end.
FetchFrames(s) ==
    {PacketFrame([seq |-> n, pkt |-> log[n]], Only(s)) : n \in DOMAIN log}
        \cup {[body |-> "FetchEnd", count |-> n, to |-> Only(s)] : n \in Nat}

LEMMA FetchEmission ==
    ASSUME LogInv, NEW s, NEW since \in 0..MaxSeq, NEW max \in 0..(MaxFetch + 1),
           HandleFetchPackets(s, since, max)
    PROVE  \E f \in Seq(FetchFrames(s)) : Emit(f)
<1> DEFINE page == FetchLog(since, FetchLimit(max))
           S == FetchFrames(s)
           a == [i \in 1..Len(page) |-> PacketFrame(page[i], Only(s))]
           b == <<[body |-> "FetchEnd", count |-> Len(page), to |-> Only(s)]>>
<1>1. Emit(a \o b)
  BY DEF HandleFetchPackets, JustSend
<1>2. /\ Len(page) \in Nat
      /\ \A i \in 1..Len(page) : page[i].seq \in DOMAIN log /\ page[i].pkt = log[page[i].seq]
  <2>1. since \in Nat /\ max \in Nat
    OBVIOUS
  <2>2. FetchLimit(max) \in Nat
    BY <2>1, ConfigAssumption DEF FetchLimit
  <2> DEFINE limit == FetchLimit(max)
  <2>3. limit \in Nat
    BY <2>2
  <2> HIDE DEF limit
  <2>4. LET q == FetchLog(since, limit) IN
        /\ Len(q) \in 0..limit
        /\ \A i \in 1..Len(q) : q[i].seq \in DOMAIN log /\ q[i].pkt = log[q[i].seq]
    BY <2>1, <2>3, Page
  <2> QED
    BY <2>3, <2>4 DEF limit
<1>3. b \in Seq(S)
  BY <1>2 DEF FetchFrames
<1>4. ASSUME NEW i \in 1..Len(page) PROVE PacketFrame(page[i], Only(s)) \in S
  BY <1>2 DEF FetchFrames, PacketFrame
<1> HIDE DEF page, S
<1>5. a \in Seq(S)
  BY <1>2, <1>4
<1> HIDE DEF a, b
<1>6. a \o b \in Seq(S)
  BY <1>3, <1>5
<1> QED
  BY <1>1, <1>6 DEF S

-----------------------------------------------------------------------------
(* Gated material. *)

\* The frames that carry gated material.
Gated == {"RadioSettings", "DeviceSettings", "PacketEntry"}

\* Every gated frame of the step goes to connections that are authorized in
\* the state the step ends in.
ToAuthorized ==
    \A i \in DOMAIN emitted' : emitted'[i].body \in Gated =>
        \A c \in emitted'[i].to : c \in sinks' /\ AuthorizedNext(c)

\* Authorized connections stay so where sessions do not change.
LEMMA SameSessions ==
    ASSUME UNCHANGED <<sinks, authenticated, device>>,
           \A i \in DOMAIN emitted' : emitted'[i].body \in Gated =>
               emitted'[i].to \subseteq {c \in sinks : Authorized(c)}
    PROVE  ToAuthorized
  BY DEF ToAuthorized, AuthorizedNext, Authorized, PinIsDefault

LEMMA GatedStep == SessionInv /\ LogInv /\ Next => ToAuthorized
<1> SUFFICES ASSUME SessionInv, LogInv, Next PROVE ToAuthorized
  OBVIOUS
<1> USE DEF Gated
<1>1. CASE PlainStep
  BY <1>1 DEF PlainStep, Noted, ToAuthorized
<1>2. CASE PowerDown(<< >>)
  BY <1>2 DEF PowerDown, ToAuthorized
<1>3. ASSUME NEW s \in Sinks, NotedRequests(s), ~PowerDown(<< >>) PROVE ToAuthorized
  <2> USE DEF Admitted, Request, JustSend, Emit, coreVars, sessVars, devVars
  <2>1. CASE \/ HandleGetRadioSettings(s) \/ HandleGetDeviceSettings(s)
             \/ \E m \in Writes : SetDeviceSettingsNoop(s, m)
    BY <2>1, SameSessions
    DEF HandleGetRadioSettings, HandleGetDeviceSettings, SetDeviceSettingsNoop,
        RadioSettingsFrame, DeviceSettingsFrame, Only
  <2>2. ASSUME NEW m \in Writes, HandleSetDeviceSettings(s, m) PROVE ToAuthorized
    <3> DEFINE next == Candidate(m)
    <3>1. PICK f \in Seq(DeviceFrames(s, next)) : emitted' = f
      BY <1>3, <2>2, DeviceEmission
    <3>2. Authorized(s) /\ device' = next /\ RotateSessions(s, m)
      BY <1>3, <2>2 DEF HandleSetDeviceSettings
    <3>3. s \in sinks' => AuthorizedNext(s)
      <4>1. CASE m.pin = Absent
        BY <3>2, <4>1, ConfigAssumption
        DEF RotateSessions, Candidate, Authorized, AuthorizedNext, PinIsDefault
      <4>2. CASE m.pin # Absent
        BY <3>2, <4>2 DEF RotateSessions, AuthorizedNext
      <4> QED
        BY <4>1, <4>2
    <3>4. \A g \in DeviceFrames(s, next) : \A c \in g.to :
             g.body \in Gated => c \in sinks' /\ AuthorizedNext(c)
      BY <3>3 DEF DeviceFrames, DeviceSettingsFrame
    <3>5. \A i \in DOMAIN f : f[i] \in DeviceFrames(s, next)
      OBVIOUS
    <3> QED
      BY <3>1, <3>4, <3>5 DEF ToAuthorized
  <2>3. ASSUME NEW t \in Tunes, HandleSetRadioSettings(s, t) PROVE ToAuthorized
    <3> DEFINE next == [tune |-> t, epoch |-> settings.epoch + 1]
    <3>1. /\ s \in sinks /\ Authorized(s) /\ emitted' = RetuneFrames(s, next)
          /\ UNCHANGED <<sinks, authenticated, device>>
      BY <1>3, <2>3 DEF HandleSetRadioSettings
    <3> HIDE DEF next
    <3>2. \A i \in DOMAIN RetuneFrames(s, next) :
             RetuneFrames(s, next)[i].to \subseteq {c \in sinks : Authorized(c)}
      BY <3>1 DEF RetuneFrames, RadioSettingsFrame, Only
    <3> QED
      BY <3>1, <3>2, SameSessions
  <2>4. ASSUME NEW p \in Packets, SendPacketStarts(s, p) \/ SendPacketRefused(s, p)
        PROVE  ToAuthorized
    BY <2>4 DEF SendPacketStarts, SendPacketRefused, Accepted, TxResult, ToAuthorized
  <2>5. ASSUME NEW since \in 0..MaxSeq, NEW max \in 0..(MaxFetch + 1),
               HandleFetchPackets(s, since, max)
        PROVE  ToAuthorized
    <3>1. PICK f \in Seq(FetchFrames(s)) : emitted' = f
      BY <2>5, FetchEmission
    <3>2. s \in sinks /\ Authorized(s) /\ UNCHANGED <<sinks, authenticated, device>>
      BY <2>5 DEF HandleFetchPackets
    <3>3. \A g \in FetchFrames(s) : g.to \subseteq {c \in sinks : Authorized(c)}
      BY <3>2 DEF FetchFrames, PacketFrame, Only
    <3>4. \A i \in DOMAIN f : f[i] \in FetchFrames(s)
      OBVIOUS
    <3> QED
      BY <3>1, <3>2, <3>3, <3>4, SameSessions
  <2> QED
    BY <1>3, <2>1, <2>2, <2>3, <2>4, <2>5 DEF NotedRequests
<1>4. CASE PollTxDone
  BY <1>4 DEF PollTxDone, Emit, TxResult, ToAuthorized
<1>5. ASSUME NEW p \in Packets, PacketReceived(p) PROVE ToAuthorized
  BY <1>5
  DEF PacketReceived, Emit, PacketFrame, ToAuthorized, AuthorizedNext, Authorized,
      PinIsDefault, coreVars, sessVars, devVars
<1> QED
  BY <1>1, <1>2, <1>3, <1>4, <1>5, FrameCases

\* No tuning, packet or device settings reach a connection that has not shown
\* the PIN in force after the step, for any interleaving of connections.
THEOREM GatedMaterialGuarded == Spec => []GatedMaterial
<1>1. Init => GatedMaterial
  BY DEF Init, GatedMaterial
<1>2. SessionInv /\ SessionInv' /\ LogInv /\ GatedMaterial /\ [Next]_vars => GatedMaterial'
  <2> SUFFICES ASSUME SessionInv, SessionInv', LogInv, GatedMaterial, [Next]_vars
               PROVE  GatedMaterial'
    OBVIOUS
  <2>1. CASE Next
    <3>1. ToAuthorized
      BY <2>1, GatedStep
    <3> QED
      BY <3>1
      DEF ToAuthorized, AuthorizedNext, Gated, GatedMaterial, SessionInv, SessionProvenance,
          PinIsDefault
  <2>2. CASE UNCHANGED vars
    BY <2>2
    DEF vars, coreVars, sessVars, devVars, outVars, GatedMaterial, PinIsDefault
  <2> QED
    BY <2>1, <2>2
<1> QED
  BY <1>1, <1>2, SessionStart, SessionStep, LogStart, LogStep, PTL DEF Spec

-----------------------------------------------------------------------------
(* The rate limit. *)

\* The failures in a row are what the counter counts, up to where the penalty
\* begins, and from there on the window the device keeps is the one that the
\* last failure opened.
LockInv ==
    /\ now \in Nat /\ fail_at \in Nat /\ auth_backoff_until \in Nat
    /\ auth_fails \in 0..FailCap
    /\ streak = IF auth_fails > FreeFails THEN FreeFails + 1 ELSE auth_fails
    /\ streak > FreeFails => auth_backoff_until = fail_at + FailDelay
    /\ RateLimit

LEMMA LockPowerDown ==
    ASSUME NEW frames, PowerDown(frames)
    PROVE  LockInv'
  BY ConfigAssumption DEF PowerDown, LockInv, RateLimit

LEMMA LockStep == LockInv /\ [Next]_vars => LockInv'
<1> SUFFICES ASSUME LockInv, [Next]_vars PROVE LockInv'
  OBVIOUS
<1> DEFINE v == <<auth_fails, auth_backoff_until, streak, fail_at, too_soon>>
<1>1. ASSUME UNCHANGED v, now' \in Nat PROVE LockInv'
  BY <1>1 DEF LockInv, RateLimit
<1>2. UNCHANGED now => now' \in Nat
  BY DEF LockInv
<1>3. ASSUME NEW s \in Sinks, Changes(s) PROVE LockInv'
  <2>1. ASSUME NEW pin \in Pins, HandleAuth(s, pin) PROVE LockInv'
    <3>1. ~too_soon'
      <4>1. ~(streak > FreeFails /\ now < fail_at + FailDelay)
        BY <2>1, ConfigAssumption DEF HandleAuth, AuthBackoffActive, LockInv
      <4>2. too_soon' = (too_soon \/ (streak > FreeFails /\ now < fail_at + FailDelay))
        BY <2>1 DEF HandleAuth
      <4> QED
        BY <4>1, <4>2, Zenon DEF LockInv, RateLimit
    <3>2. CASE auth_fails' = 0 /\ streak' = 0 /\ fail_at' = 0 /\ UNCHANGED auth_backoff_until
      BY <1>2, <2>1, <3>1, <3>2, ConfigAssumption DEF HandleAuth, LockInv, RateLimit
    <3>3. CASE /\ NoteAuthFailure /\ fail_at' = now
               /\ streak' = IF streak > FreeFails THEN streak ELSE streak + 1
      BY <1>2, <2>1, <3>1, <3>3, ConfigAssumption
      DEF HandleAuth, NoteAuthFailure, LockInv, RateLimit
    <3> QED
      BY <2>1, <3>2, <3>3 DEF HandleAuth
  <2>2. ASSUME NEW m \in Writes, HandleSetDeviceSettings(s, m) PROVE LockInv'
    <3>1. CASE PowerDown(<< >>)
      BY <3>1, LockPowerDown
    <3>2. CASE ~PowerDown(<< >>)
      BY <1>1, <1>2, <2>2, <3>2, ConfigAssumption
      DEF HandleSetDeviceSettings, RotateSessions, lockVars, LockInv, RateLimit
    <3> QED
      BY <3>1, <3>2
  <2>3. ASSUME NEW t \in Tunes, SetRadioSettingsFails(s, t) \/ HandleSetRadioSettings(s, t)
        PROVE  LockInv'
    BY <1>1, <1>2, <2>3, LockPowerDown
    DEF SetRadioSettingsFails, HandleSetRadioSettings, coreVars, lockVars
  <2>4. CASE HandleFactoryReset(s)
    BY <2>4, LockPowerDown DEF HandleFactoryReset
  <2> QED
    BY <1>1, <1>2, <1>3, <2>1, <2>2, <2>3, <2>4
    DEF Changes, SendPacketNoRoom, SendPacketStarts, SendPacketRefused, HandlePurgeStore,
        Connect, Disconnect, coreVars, lockVars
<1>4. CASE BoardSteps
  <2>1. CASE PollIdle \/ PollTxDone
    <3>1. now' \in Nat
      BY <2>1 DEF PollIdle, PollTxDone, ClockPoll, LockInv
    <3> QED
      BY <1>1, <2>1, <3>1 DEF PollIdle, PollTxDone, lockVars
  <2>2. CASE ~(PollIdle \/ PollTxDone)
    BY <1>1, <1>2, <1>4, <2>2
    DEF BoardSteps, PacketReceived, PacketDiscarded, Chip, Boot, coreVars, lockVars
  <2> QED
    BY <2>1, <2>2
<1>5. CASE Restarts
  BY <1>5, LockPowerDown DEF Restarts, PowerLoss, HandleReboot, HandleBootloader
<1>6. CASE UNCHANGED <<coreVars, radioVars, logVars>>
  BY <1>1, <1>2, <1>6 DEF coreVars, lockVars
<1> QED
  BY <1>3, <1>4, <1>5, <1>6, StepCases

\* No connection gets a PIN evaluated inside the penalty window, whatever the
\* budget, the cap of the counter and the length of the window.
THEOREM GuessingIsLimited == Spec => []RateLimit
<1>1. Init => LockInv
  BY ConfigAssumption DEF Init, LockInv, RateLimit
<1>2. LockInv => RateLimit
  BY DEF LockInv
<1> QED
  BY <1>1, <1>2, LockStep, PTL DEF Spec

-----------------------------------------------------------------------------
(* The transmission lock and the receiver. *)

\* The chip transmits what the port started, until its interrupt is read; a
\* send is pending in the core exactly while the port transmits.
RadioInv ==
    /\ tx_started \in BOOLEAN /\ tx_pending \in BOOLEAN /\ up \in BOOLEAN
    /\ ~up => ~tx_started
    /\ unresolved = IF tx_pending THEN {tx_pending_seq} ELSE {}
    /\ tx_pending = tx_started
    /\ tx_started => \/ mode = "tx" /\ irq = NoIrq
                     \/ mode = "standby" /\ irq = TxDoneIrq
    /\ mode = "tx" => tx_started
    /\ up /\ radio_ok /\ ~tx_started => mode = "rx" \/ deaf \/ halfway
    /\ up /\ radio_ok /\ halfway => "set" \in Faults

LEMMA IrqKinds ==
    /\ NoIrq.kind = "none" /\ TxDoneIrq.kind = "txdone" /\ RxErrIrq.kind = "rxerr"
    /\ \A p : RxDoneIrq(p).kind = "rxdone"
  BY DEF NoIrq, TxDoneIrq, RxErrIrq, RxDoneIrq

LEMMA RadioPowerDown ==
    ASSUME NEW frames, PowerDown(frames)
    PROVE  RadioInv'
  BY DEF PowerDown, RadioInv

LEMMA RadioStep == RadioInv /\ [Next]_vars => RadioInv'
<1> SUFFICES ASSUME RadioInv, [Next]_vars PROVE RadioInv'
  OBVIOUS
<1> DEFINE v == <<up, radio_ok, tx_started, mode, irq, deaf, halfway, tx_pending, tx_pending_seq,
                  unresolved>>
<1>1. ASSUME UNCHANGED v PROVE RadioInv'
  BY <1>1 DEF RadioInv
<1>2. ASSUME NEW s \in Sinks, Changes(s) PROVE RadioInv'
  <2>1. ASSUME NEW t \in Tunes, SetRadioSettingsFails(s, t) PROVE RadioInv'
    BY <2>1
    DEF SetRadioSettingsFails, ApplyRefused, ApplyFails, StartRx, Outcome, coreVars, tuneVars,
        txVars, radioVars, RadioInv, NoIrq, TxDoneIrq
  <2>2. ASSUME NEW t \in Tunes, HandleSetRadioSettings(s, t) PROVE RadioInv'
    <3>1. CASE PowerDown(<< >>)
      BY <3>1, RadioPowerDown
    <3>2. CASE ~PowerDown(<< >>)
      <4>1. /\ up' = up /\ UNCHANGED <<tx_pending, tx_pending_seq, unresolved, tx_started>>
            /\ ~tx_started /\ mode' = "rx" /\ ~halfway'
        BY <2>2, <3>2 DEF HandleSetRadioSettings, ApplyOk, StartRx, txVars
      <4> QED
        BY <4>1 DEF RadioInv
    <3> QED
      BY <3>1, <3>2
  <2>3. ASSUME NEW p \in Packets, SendPacketStarts(s, p) PROVE RadioInv'
    BY <2>3 DEF SendPacketStarts, TransmitOk, tuneVars, RadioInv, Admitted, Request
  <2>4. ASSUME NEW p \in Packets, SendPacketRefused(s, p) PROVE RadioInv'
    BY <2>4
    DEF SendPacketRefused, TransmitRefused, StartRx, coreVars, tuneVars, txVars, radioVars,
        RadioInv
  <2>5. ASSUME NEW m \in Writes, HandleSetDeviceSettings(s, m) PROVE RadioInv'
    BY <1>1, <2>5, RadioPowerDown DEF HandleSetDeviceSettings, tuneVars, txVars, radioVars
  <2>6. CASE HandleFactoryReset(s)
    BY <2>6, RadioPowerDown DEF HandleFactoryReset
  <2> QED
    BY <1>1, <1>2, <2>1, <2>2, <2>3, <2>4, <2>5, <2>6
    DEF Changes, HandleAuth, SendPacketNoRoom, HandlePurgeStore, Connect, Disconnect,
        coreVars, tuneVars, txVars, radioVars
<1>3. CASE BoardSteps
  <2> USE IrqKinds DEF coreVars, tuneVars, txVars, radioVars, RadioInv
  <2>1. CASE PollIdle
    BY <1>1, <2>1 DEF PollIdle
  <2>2. CASE PollTxDone
    BY <2>2 DEF PollTxDone, TxDone, StartRx
  <2>3. ASSUME NEW p \in Packets, PacketReceived(p) PROVE RadioInv'
    BY <2>3 DEF PacketReceived, ReceiveOk, StartRx
  <2>4. CASE PacketDiscarded
    BY <2>4 DEF PacketDiscarded, ReceiveDiscards, StartRx
  <2>5. CASE Chip
    BY <2>5 DEF Chip, ChipTxDone, ChipRx
  <2>6. CASE Boot
    BY <2>6 DEF Boot, CoreBoot, BeginOk, BeginFails, StartRx
  <2> QED
    BY <1>3, <2>1, <2>2, <2>3, <2>4, <2>5, <2>6 DEF BoardSteps
<1>4. CASE Restarts
  BY <1>4, RadioPowerDown DEF Restarts, PowerLoss, HandleReboot, HandleBootloader
<1>5. CASE UNCHANGED <<coreVars, radioVars, logVars>>
  BY <1>1, <1>5 DEF coreVars, tuneVars, txVars, radioVars
<1> QED
  BY <1>2, <1>3, <1>4, <1>5, StepCases

LEMMA RadioStart == Init => RadioInv
  BY DEF Init, RadioInv

\* The lock of the core, the flag of the port and what the clients were
\* promised are one fact, over every failure of every radio call.
THEOREM TransmissionAccounted == Spec => []TxAccounted
<1>1. RadioInv => TxAccounted
  BY DEF RadioInv, TxAccounted
<1> QED
  BY <1>1, RadioStart, RadioStep, PTL DEF Spec

\* Nothing the firmware does aborts a transmission it believes in.
THEOREM TransmissionKept == Spec => []TxNeverAborted
<1>1. RadioInv => TxNeverAborted
  BY DEF RadioInv, TxNeverAborted
<1> QED
  BY <1>1, RadioStart, RadioStep, PTL DEF Spec

\* Outside a transmission the receiver is on, or its last start failed, or a
\* retune that the radio refused stopped it and nothing has started it since:
\* no other path leaves it off, whichever calls fail and in whatever order.
THEOREM ReceiverLostOnlyByRefusal == Spec => []OffOnlyAfterRefusal
<1>1. RadioInv => OffOnlyAfterRefusal
  BY DEF RadioInv, OffOnlyAfterRefusal
<1> QED
  BY <1>1, RadioStart, RadioStep, PTL DEF Spec

\* On a radio whose setters never fail, whatever else does, the receiver is
\* on outside a transmission unless its last start failed.  Without the
\* assumption the run receiver_off_after_refused_retune refutes it.
THEOREM ReceiverOn ==
    ASSUME "set" \notin Faults
    PROVE  Spec => []Listening
<1>1. RadioInv => Listening
  BY DEF RadioInv, Listening
<1> QED
  BY <1>1, RadioStart, RadioStep, PTL DEF Spec

-----------------------------------------------------------------------------
(* What clients are told, against what the device does and keeps.  First   *)
(* the results of transmissions.                                           *)

\* A result in these frames is owed, or its acceptance comes before it.
Owed(frames) ==
    \A i \in DOMAIN frames : frames[i].body = "TxResult" =>
        \/ frames[i].seq \in unresolved
        \/ \E j \in 1..(i - 1) : /\ frames[j].body = "PacketAccepted"
                                 /\ frames[j].seq = frames[i].seq

\* Frames of other kinds owe nothing.
LEMMA NoResult ==
    ASSUME NEW f, \A i \in DOMAIN f : f[i].body # "TxResult"
    PROVE  Owed(f)
  BY DEF Owed

LEMMA OwedStep == RadioInv /\ LogInv /\ Next => Owed(emitted')
<1> SUFFICES ASSUME RadioInv, LogInv, Next PROVE Owed(emitted')
  OBVIOUS
<1>1. CASE PlainStep
  BY <1>1, NoResult DEF PlainStep, Noted
<1>2. CASE PowerDown(<< >>)
  BY <1>2, NoResult DEF PowerDown
<1>3. ASSUME NEW s \in Sinks, NotedRequests(s), ~PowerDown(<< >>) PROVE Owed(emitted')
  <2>1. CASE \/ HandleGetRadioSettings(s) \/ HandleGetDeviceSettings(s)
             \/ \E m \in Writes : SetDeviceSettingsNoop(s, m)
    BY <2>1, NoResult
    DEF HandleGetRadioSettings, HandleGetDeviceSettings, SetDeviceSettingsNoop, JustSend, Emit,
        RadioSettingsFrame, DeviceSettingsFrame
  <2>2. ASSUME NEW m \in Writes, HandleSetDeviceSettings(s, m) PROVE Owed(emitted')
    <3>1. PICK f \in Seq(DeviceFrames(s, Candidate(m))) : emitted' = f
      BY <1>3, <2>2, DeviceEmission DEF Emit
    <3>2. \A g \in DeviceFrames(s, Candidate(m)) : g.body # "TxResult"
      BY DEF DeviceFrames, DeviceSettingsFrame
    <3>3. \A i \in DOMAIN f : f[i] \in DeviceFrames(s, Candidate(m))
      OBVIOUS
    <3> QED
      BY <3>1, <3>2, <3>3, NoResult
  <2>3. ASSUME NEW t \in Tunes, HandleSetRadioSettings(s, t) PROVE Owed(emitted')
    <3>1. \E next : emitted' = RetuneFrames(s, next)
      BY <1>3, <2>3 DEF HandleSetRadioSettings, Emit
    <3> QED
      BY <3>1, NoResult DEF RetuneFrames, RadioSettingsFrame
  <2>4. ASSUME NEW p \in Packets, SendPacketStarts(s, p) PROVE Owed(emitted')
    BY <2>4, NoResult DEF SendPacketStarts, Accepted, Emit
  <2>5. ASSUME NEW p \in Packets, SendPacketRefused(s, p) PROVE Owed(emitted')
    <3>1. emitted' = <<Accepted(s, p), TxResult(next_seq, FALSE)>>
      BY <2>5 DEF SendPacketRefused, Emit
    <3> QED
      BY <3>1 DEF Accepted, TxResult, Owed
  <2>6. ASSUME NEW since \in 0..MaxSeq, NEW max \in 0..(MaxFetch + 1),
               HandleFetchPackets(s, since, max)
        PROVE  Owed(emitted')
    <3>1. PICK f \in Seq(FetchFrames(s)) : emitted' = f
      BY <2>6, FetchEmission DEF Emit
    <3>2. \A g \in FetchFrames(s) : g.body # "TxResult"
      BY DEF FetchFrames, PacketFrame
    <3>3. \A i \in DOMAIN f : f[i] \in FetchFrames(s)
      OBVIOUS
    <3> QED
      BY <3>1, <3>2, <3>3, NoResult
  <2> QED
    BY <1>3, <2>1, <2>2, <2>3, <2>4, <2>5, <2>6 DEF NotedRequests
<1>4. CASE PollTxDone
  BY <1>4 DEF PollTxDone, Emit, TxResult, Owed, RadioInv
<1>5. ASSUME NEW p \in Packets, PacketReceived(p) PROVE Owed(emitted')
  BY <1>5, NoResult DEF PacketReceived, Emit, PacketFrame
<1> QED
  BY <1>1, <1>2, <1>3, <1>4, <1>5, FrameCases

\* A client hears of a result once, only for a send that was accepted, and
\* after it was accepted, whatever the radio does in between.
THEOREM ResultsAreOwed == Spec => TxResultOwed
<1> DEFINE P == \A i \in DOMAIN emitted' : emitted'[i].body = "TxResult" =>
                  \/ emitted'[i].seq \in unresolved
                  \/ \E j \in 1..(i - 1) : /\ emitted'[j].body = "PacketAccepted"
                                           /\ emitted'[j].seq = emitted'[i].seq
<1>1. RadioInv /\ LogInv /\ [Next]_vars => [P]_vars
  BY OwedStep DEF Owed
<1> QED
  BY <1>1, RadioStart, RadioStep, LogStart, LogStep, PTL DEF Spec, TxResultOwed

-----------------------------------------------------------------------------
(* Sequence numbers. *)

\* The packets the log holds, with their numbers.
Retained == {[seq |-> n, pkt |-> log[n]] : n \in DOMAIN log}

\* What was sent out carries a number that was given, and agrees with the log
\* as long as the log has that number.
SeqInv ==
    /\ \A e \in seen : /\ e.seq \in Nat /\ e.seq < next_seq
                       /\ e.seq \in DOMAIN log => log[e.seq] = e.pkt
    /\ SeqNamesPacket

LEMMA SeqReads ==
    ASSUME SeqInv, LogInv, UNCHANGED <<log, oldest, next_seq>>, seen' \subseteq seen \cup Retained
    PROVE  SeqInv'
  BY DEF SeqInv, SeqNamesPacket, LogInv, Retained

LEMMA SeqGrows ==
    ASSUME SeqInv, LogInv, NEW p \in Packets, LogAppend(p),
           seen' \subseteq seen \cup {[seq |-> next_seq, pkt |-> p]}
    PROVE  SeqInv'
<1>1. PICK o \in oldest..next_seq : AppendFrom(p, o)
  BY DEF LogAppend
<1>2. /\ o \in Nat /\ next_seq' = next_seq + 1
      /\ DOMAIN log' = o..next_seq
      /\ log'[next_seq] = p
      /\ \A n \in o..(next_seq - 1) : n \in DOMAIN log /\ log'[n] = log[n]
  BY <1>1 DEF AppendFrom, LogInv
<1>3. /\ next_seq \in Nat
      /\ \A e \in seen' : e \in seen \/ (e.seq = next_seq /\ e.pkt = p)
  BY DEF LogInv
<1>4. ASSUME NEW e \in seen'
      PROVE  /\ e.seq \in Nat /\ e.seq < next_seq'
             /\ e.seq \in DOMAIN log' => log'[e.seq] = e.pkt
  <2>1. CASE e \in seen
    BY <1>2, <1>3, <2>1 DEF SeqInv
  <2>2. CASE e.seq = next_seq /\ e.pkt = p
    BY <1>2, <1>3, <2>2
  <2> QED
    BY <1>3, <2>1, <2>2
<1>5. ASSUME NEW a \in seen', NEW b \in seen', a.seq = b.seq PROVE a.pkt = b.pkt
  <2>1. CASE a \in seen /\ b \in seen
    BY <1>5, <2>1 DEF SeqInv, SeqNamesPacket
  <2>2. a \in seen => a.seq # next_seq
    BY <1>3 DEF SeqInv
  <2>3. b \in seen => b.seq # next_seq
    BY <1>3 DEF SeqInv
  <2> QED
    BY <1>3, <1>5, <2>1, <2>2, <2>3
<1> QED
  BY <1>4, <1>5 DEF SeqInv, SeqNamesPacket

LEMMA SeqPowerDown ==
    ASSUME NEW frames, PowerDown(frames)
    PROVE  SeqInv'
  BY DEF PowerDown, SeqInv, SeqNamesPacket

LEMMA SeqPlain == SeqInv /\ LogInv /\ PlainStep /\ [Next]_vars => SeqInv'
<1> SUFFICES ASSUME SeqInv, LogInv, PlainStep, [Next]_vars PROVE SeqInv'
  OBVIOUS
<1>1. seen' \subseteq seen
  BY DEF PlainStep
<1>2. CASE UNCHANGED <<log, oldest, next_seq>>
  BY <1>1, <1>2, SeqReads
<1>3. CASE LogClear
  BY <1>1, <1>3, EmptyLog DEF LogClear, SeqInv, SeqNamesPacket, LogInv
<1>4. ASSUME NEW p \in Packets, LogReject(p) PROVE SeqInv'
  BY <1>1, <1>4, SeqReads DEF LogReject
<1>5. ASSUME NEW p \in Packets, LogAppend(p) PROVE SeqInv'
  BY <1>1, <1>5, SeqGrows
<1> QED
  BY <1>2, <1>3, <1>4, <1>5, LogMoves, SeqPowerDown

\* What a burst of frames adds to the packets sent out.
LEMMA SeenIn ==
    ASSUME NEW f, Emit(f), NEW K,
           \A i \in DOMAIN f : f[i].body \in {"PacketEntry", "PacketAccepted"} =>
               [seq |-> f[i].seq, pkt |-> f[i].pkt] \in K
    PROVE  seen' \subseteq seen \cup K
  BY DEF Emit, Range

\* One numbered packet, alone or with its result.
LEMMA SeenOne ==
    ASSUME NEW b, NEW n, NEW p, b.seq = n, b.pkt = p,
           Emit(<<b>>) \/ \E c : c.body = "TxResult" /\ Emit(<<b, c>>)
    PROVE  seen' \subseteq seen \cup {[seq |-> n, pkt |-> p]}
<1> DEFINE K == {[seq |-> n, pkt |-> p]}
<1>1. [seq |-> b.seq, pkt |-> b.pkt] \in K
  OBVIOUS
<1> HIDE DEF K
<1>2. ASSUME Emit(<<b>>) PROVE seen' \subseteq seen \cup K
  <2> DEFINE f == <<b>>
  <2>0. Emit(f)
    BY <1>2
  <2>1. \A i \in DOMAIN f : f[i] = b
    OBVIOUS
  <2> HIDE DEF f
  <2>2. \A i \in DOMAIN f : f[i].body \in {"PacketEntry", "PacketAccepted"} =>
            [seq |-> f[i].seq, pkt |-> f[i].pkt] \in K
    BY <1>1, <2>1
  <2> QED
    BY <2>0, <2>2, SeenIn
<1>3. ASSUME NEW c, c.body = "TxResult", Emit(<<b, c>>) PROVE seen' \subseteq seen \cup K
  <2> DEFINE f == <<b, c>>
  <2>0. Emit(f)
    BY <1>3
  <2>1. \A i \in DOMAIN f : f[i] = b \/ f[i] = c
    OBVIOUS
  <2> HIDE DEF f
  <2>2. \A i \in DOMAIN f : f[i].body \in {"PacketEntry", "PacketAccepted"} =>
            [seq |-> f[i].seq, pkt |-> f[i].pkt] \in K
    BY <1>1, <1>3, <2>1
  <2> QED
    BY <2>0, <2>2, SeenIn
<1> QED
  BY <1>2, <1>3 DEF K

LEMMA SeqStep == SeqInv /\ LogInv /\ [Next]_vars => SeqInv'
<1> SUFFICES ASSUME SeqInv, LogInv, [Next]_vars PROVE SeqInv'
  OBVIOUS
<1>1. CASE PlainStep
  BY <1>1, SeqPlain
<1>2. CASE UNCHANGED vars
  BY <1>2, SeqReads DEF vars, logVars, outVars
<1>3. ASSUME NEW s \in Sinks, NotedRequests(s), ~PowerDown(<< >>) PROVE SeqInv'
  <2> USE DEF JustSend, logVars
  <2>1. CASE \/ HandleGetRadioSettings(s) \/ HandleGetDeviceSettings(s)
             \/ \E m \in Writes : SetDeviceSettingsNoop(s, m)
    <3>1. \E b : Emit(<<b>>) /\ b.body \notin {"PacketEntry", "PacketAccepted"}
      BY <2>1
      DEF HandleGetRadioSettings, HandleGetDeviceSettings, SetDeviceSettingsNoop,
          RadioSettingsFrame, DeviceSettingsFrame
    <3>2. seen' \subseteq seen \cup Retained
      BY <3>1, SeenIn
    <3> QED
      BY <2>1, <3>2, SeqReads
      DEF HandleGetRadioSettings, HandleGetDeviceSettings, SetDeviceSettingsNoop
  <2>2. ASSUME NEW m \in Writes, HandleSetDeviceSettings(s, m) PROVE SeqInv'
    <3>1. PICK f \in Seq(DeviceFrames(s, Candidate(m))) : Emit(f)
      BY <1>3, <2>2, DeviceEmission
    <3>2. \A g \in DeviceFrames(s, Candidate(m)) : g.body \in {"Status", "DeviceSettings"}
      BY DEF DeviceFrames, DeviceSettingsFrame
    <3>3. \A i \in DOMAIN f : f[i] \in DeviceFrames(s, Candidate(m))
      OBVIOUS
    <3>4. seen' \subseteq seen \cup Retained
      BY <3>1, <3>2, <3>3, SeenIn
    <3> QED
      BY <1>3, <2>2, <3>4, SeqReads DEF HandleSetDeviceSettings
  <2>3. ASSUME NEW t \in Tunes, HandleSetRadioSettings(s, t) PROVE SeqInv'
    <3>1. \E next : Emit(RetuneFrames(s, next))
      BY <1>3, <2>3 DEF HandleSetRadioSettings
    <3>2. seen' \subseteq seen \cup Retained
      BY <3>1, SeenIn DEF RetuneFrames, RadioSettingsFrame
    <3> QED
      BY <1>3, <2>3, <3>2, SeqReads DEF HandleSetRadioSettings
  <2>4. ASSUME NEW p \in Packets, SendPacketStarts(s, p) \/ SendPacketRefused(s, p)
        PROVE  SeqInv'
    <3>1. Emit(<<Accepted(s, p)>>) \/ Emit(<<Accepted(s, p), TxResult(next_seq, FALSE)>>)
      BY <2>4 DEF SendPacketStarts, SendPacketRefused
    <3>2. seen' \subseteq seen \cup {[seq |-> next_seq, pkt |-> p]}
      BY <3>1, SeenOne DEF Accepted, TxResult
    <3> QED
      BY <2>4, <3>2, SeqGrows DEF SendPacketStarts, SendPacketRefused
  <2>5. ASSUME NEW since \in 0..MaxSeq, NEW max \in 0..(MaxFetch + 1),
               HandleFetchPackets(s, since, max)
        PROVE  SeqInv'
    <3>1. PICK f \in Seq(FetchFrames(s)) : Emit(f)
      BY <2>5, FetchEmission
    <3>2. \A g \in FetchFrames(s) : g.body \in {"PacketEntry", "PacketAccepted"} =>
              [seq |-> g.seq, pkt |-> g.pkt] \in Retained
      BY DEF FetchFrames, PacketFrame, Retained
    <3>3. \A i \in DOMAIN f : f[i] \in FetchFrames(s)
      OBVIOUS
    <3>4. seen' \subseteq seen \cup Retained
      BY <3>1, <3>2, <3>3, SeenIn
    <3> QED
      BY <2>5, <3>4, SeqReads DEF HandleFetchPackets
  <2> QED
    BY <1>3, <2>1, <2>2, <2>3, <2>4, <2>5 DEF NotedRequests
<1>4. CASE PollTxDone
  <2>1. seen' \subseteq seen \cup Retained
    BY <1>4, SeenIn DEF PollTxDone, TxResult
  <2> QED
    BY <1>4, <2>1, SeqReads DEF PollTxDone, logVars
<1>5. ASSUME NEW p \in Packets, PacketReceived(p) PROVE SeqInv'
  <2>1. CASE LogReject(p) /\ Emit(<< >>)
    <3>1. seen' \subseteq seen \cup Retained
      BY <2>1, SeenIn
    <3> QED
      BY <2>1, <3>1, SeqReads DEF LogReject
  <2>2. CASE /\ LogAppend(p)
             /\ Emit(<<PacketFrame([seq |-> next_seq, pkt |-> p],
                                    {c \in sinks : Authorized(c)})>>)
    <3>1. seen' \subseteq seen \cup {[seq |-> next_seq, pkt |-> p]}
      BY <2>2, SeenOne DEF PacketFrame
    <3> QED
      BY <2>2, <3>1, SeqGrows
  <2> QED
    BY <1>5, <2>1, <2>2 DEF PacketReceived
<1> QED
  BY <1>1, <1>2, <1>3, <1>4, <1>5, SeqPowerDown, FrameCases

\* Within one boot a sequence number names one packet, for any packets, byte
\* budget and interleaving of fetches, purges and receptions.
THEOREM NumbersNamePackets == Spec => []SeqNamesPacket
<1>1. Init => SeqInv
  BY DEF Init, SeqInv, SeqNamesPacket
<1>2. SeqInv => SeqNamesPacket
  BY DEF SeqInv
<1> QED
  BY <1>1, <1>2, SeqStep, LogStart, LogStep, PTL DEF Spec

-----------------------------------------------------------------------------
(* The name on the air. *)

LEMMA NameStep == AdvertisedName /\ [Next]_vars => AdvertisedName'
<1> SUFFICES ASSUME AdvertisedName, [Next]_vars PROVE AdvertisedName'
  OBVIOUS
<1>1. ASSUME NEW frames, PowerDown(frames) PROVE AdvertisedName'
  BY <1>1 DEF PowerDown, AdvertisedName
<1>2. ASSUME UNCHANGED <<up, devVars>> PROVE AdvertisedName'
  BY <1>2 DEF devVars, AdvertisedName, EffectiveName
<1>3. ASSUME NEW s \in Sinks, Changes(s) PROVE AdvertisedName'
  <2>1. ASSUME NEW m \in Writes, HandleSetDeviceSettings(s, m), ~PowerDown(<< >>)
        PROVE  AdvertisedName'
    <3>1. up /\ device' = Candidate(m) /\ adv_name' = Advertised(m, Candidate(m))
      BY <2>1 DEF HandleSetDeviceSettings, Admitted, Request
    <3>2. m.name = Absent => Candidate(m).name = device.name
      BY DEF Candidate
    <3> QED
      BY <3>1, <3>2 DEF Advertised, EffectiveName, AdvertisedName
  <2>2. ASSUME ~ \E m \in Writes : HandleSetDeviceSettings(s, m) PROVE AdvertisedName'
    BY <1>1, <1>2, <1>3, <2>2
    DEF Changes, HandleAuth, SetRadioSettingsFails, HandleSetRadioSettings, SendPacketNoRoom,
        SendPacketStarts, SendPacketRefused, HandlePurgeStore, HandleFactoryReset, Connect,
        Disconnect, coreVars
  <2> QED
    BY <1>1, <2>1, <2>2
<1>4. CASE BoardSteps
  <2>1. CASE Boot
    BY <2>1 DEF Boot, AdvertisedName, EffectiveName
  <2>2. CASE ~Boot
    BY <1>2, <1>4, <2>2
    DEF BoardSteps, PollIdle, PollTxDone, PacketReceived, PacketDiscarded, Chip, coreVars
  <2> QED
    BY <2>1, <2>2
<1>5. CASE Restarts
  BY <1>1, <1>5 DEF Restarts, PowerLoss, HandleReboot, HandleBootloader
<1>6. CASE UNCHANGED <<coreVars, radioVars, logVars>>
  BY <1>2, <1>6 DEF coreVars
<1> QED
  BY <1>3, <1>4, <1>5, <1>6, StepCases

\* The advertisement, written in two places only, is the name the settings
\* report, for every set of names and every order of renames and restarts.
THEOREM NameIsAdvertised == Spec => []AdvertisedName
<1>1. Init => AdvertisedName
  BY DEF Init, AdvertisedName
<1> QED
  BY <1>1, NameStep, PTL DEF Spec

-----------------------------------------------------------------------------
(* The tuning on the air. *)

\* Every register holds the tuning t.
AllRegs(t) == \A i \in 1..NumRegs : regs[i] = t

LEMMA AirStep ==
    ASSUME "set" \notin Faults, "startReceive" \notin Faults,
           AirMatchesSettings, [Next]_vars
    PROVE  AirMatchesSettings'
<1>1. ASSUME NEW frames, PowerDown(frames) PROVE AirMatchesSettings'
  BY <1>1 DEF PowerDown, AirMatchesSettings
<1>2. ASSUME UNCHANGED <<up, radio_ok, settings, regs>> PROVE AirMatchesSettings'
  BY <1>2 DEF AirMatchesSettings
<1>3. ASSUME NEW s \in Sinks, Changes(s) PROVE AirMatchesSettings'
  <2>1. ASSUME NEW t \in Tunes, SetRadioSettingsFails(s, t) PROVE AirMatchesSettings'
    BY <1>2, <2>1
    DEF SetRadioSettingsFails, ApplyRefused, ApplyFails, StartRx, Outcome, coreVars, tuneVars,
        radioVars
  <2>2. ASSUME NEW t \in Tunes, HandleSetRadioSettings(s, t), ~PowerDown(<< >>)
        PROVE  AirMatchesSettings'
    <3>1. ApplyOk(t) /\ settings' = [tune |-> t, epoch |-> settings.epoch + 1]
      BY <2>2 DEF HandleSetRadioSettings
    <3>2. AllRegs(t)'
      BY <3>1, RegsAssumption DEF ApplyOk, Written, AllRegs
    <3> QED
      BY <3>1, <3>2 DEF AllRegs, AirMatchesSettings
  <2>3. ASSUME NEW p \in Packets, SendPacketStarts(s, p) \/ SendPacketRefused(s, p)
        PROVE  AirMatchesSettings'
    BY <1>2, <2>3
    DEF SendPacketStarts, SendPacketRefused, TransmitOk, TransmitRefused, coreVars, tuneVars,
        radioVars
  <2>4. ASSUME NEW m \in Writes, HandleSetDeviceSettings(s, m) PROVE AirMatchesSettings'
    BY <1>1, <1>2, <2>4 DEF HandleSetDeviceSettings, tuneVars, radioVars
  <2> QED
    BY <1>1, <1>2, <1>3, <2>1, <2>2, <2>3, <2>4
    DEF Changes, HandleAuth, SendPacketNoRoom, HandlePurgeStore, HandleFactoryReset, Connect,
        Disconnect, coreVars, tuneVars, radioVars
<1>4. CASE BoardSteps
  <2>1. CASE Boot
    BY <2>1 DEF Boot, CoreBoot, BeginOk, AirMatchesSettings
  <2>2. CASE ~Boot
    BY <1>2, <1>4, <2>2
    DEF BoardSteps, PollIdle, PollTxDone, TxDone, PacketReceived, ReceiveOk, PacketDiscarded,
        ReceiveDiscards, Chip, ChipTxDone, ChipRx, coreVars, tuneVars, radioVars
  <2> QED
    BY <2>1, <2>2
<1>5. CASE Restarts
  BY <1>1, <1>5 DEF Restarts, PowerLoss, HandleReboot, HandleBootloader
<1>6. CASE UNCHANGED <<coreVars, radioVars, logVars>>
  BY <1>2, <1>6 DEF coreVars, tuneVars, radioVars
<1> QED
  BY <1>3, <1>4, <1>5, <1>6, StepCases

\* Where a retune is refused before its first register or not at all, the
\* air follows the settings, for any number of registers.  (The two ways a
\* retune stops part way are what the run CoreRefusedRetune shows.)
THEOREM AirFollowsSettings ==
    ASSUME "set" \notin Faults, "startReceive" \notin Faults
    PROVE  Spec => []AirMatchesSettings
<1>1. Init => AirMatchesSettings
  BY DEF Init, AirMatchesSettings
<1>2. AirMatchesSettings /\ [Next]_vars => AirMatchesSettings'
  BY AirStep
<1> QED
  BY <1>1, <1>2, PTL DEF Spec

-----------------------------------------------------------------------------
(* What was told, and what flash holds. *)

\* The tuning and the device settings a restart brings back.
FlashTuning == Stored(flash.radio, DefaultSettings)
FlashDevice == Stored(flash.dev, DefaultDevice)

\* What is in force is what flash holds.
FlashInv ==
    /\ RecordTypes
    /\ up => settings = FlashTuning /\ device = FlashDevice

\* Nobody was told of a newer tuning than the one in flash, nor of another
\* one with the same epoch.
ToldInv ==
    /\ told \subseteq Tunings
    /\ \A r \in told : /\ r.epoch <= FlashTuning.epoch
                       /\ r.epoch = FlashTuning.epoch => r = FlashTuning
    /\ EpochNamesTuning

LEMMA SavedFor ==
    ASSUME "save" \notin Faults, RecordTypes, NEW field \in {"radio", "dev"}, NEW value,
           SaveTo(field, value)
    PROVE  /\ flash'.radio = IF field = "radio" THEN value ELSE flash.radio
           /\ flash'.dev = IF field = "dev" THEN value ELSE flash.dev
  BY DEF SaveTo, Outcome, RecordTypes

\* One step: the tuning in flash stays, or a newer one takes its place.
LEMMA FlashStep ==
    ASSUME "save" \notin Faults, FlashInv, [Next]_vars
    PROVE  FlashInv' /\ (FlashTuning' = FlashTuning \/ FlashTuning'.epoch > FlashTuning.epoch)
<1> DEFINE Kept == FlashTuning' = FlashTuning
           Newer == FlashTuning'.epoch > FlashTuning.epoch
<1>0. RecordTypes /\ RecordTypes'
  BY RecordStep DEF FlashInv
<1>1. ASSUME UNCHANGED <<up, settings, device, flash>> PROVE FlashInv' /\ Kept
  BY <1>0, <1>1 DEF FlashInv, FlashTuning, FlashDevice
<1>2. ASSUME NEW frames, PowerDown(frames) PROVE FlashInv'
  BY <1>0, <1>2 DEF PowerDown, FlashInv
<1>3. UNCHANGED flash => Kept
  BY DEF FlashTuning
<1>4. ASSUME NEW s \in Sinks, Changes(s) PROVE FlashInv' /\ (Kept \/ Newer)
  <2>1. ASSUME NEW m \in Writes, HandleSetDeviceSettings(s, m) PROVE FlashInv' /\ Kept
    <3>1. flash'.radio = flash.radio /\ flash'.dev = {Candidate(m)}
      BY <1>0, <2>1, SavedFor DEF HandleSetDeviceSettings
    <3>2. Kept /\ FlashDevice' = Candidate(m)
      <4>1. Kept
        BY <3>1 DEF FlashTuning
      <4>2. FlashDevice' = Candidate(m)
        BY <3>1, StoredRecord, DefaultsTyped DEF FlashDevice
      <4> QED
        BY <4>1, <4>2
    <3>3. CASE ~PowerDown(<< >>)
      <4>1. UNCHANGED <<up, settings>> /\ up /\ device' = Candidate(m)
        BY <2>1, <3>3 DEF HandleSetDeviceSettings, tuneVars, Admitted, Request
      <4> QED
        BY <1>0, <3>2, <4>1 DEF FlashInv
    <3> QED
      BY <1>2, <3>2, <3>3
  <2>2. ASSUME NEW t \in Tunes, HandleSetRadioSettings(s, t) PROVE FlashInv' /\ Newer
    <3> DEFINE next == [tune |-> t, epoch |-> settings.epoch + 1]
    <3>1. flash'.radio = {next} /\ flash'.dev = flash.dev
      BY <1>0, <2>2, SavedFor DEF HandleSetRadioSettings
    <3> HIDE DEF next
    <3>2. FlashTuning' = next
      BY <3>1, StoredRecord, DefaultsTyped DEF FlashTuning
    <3>3. FlashDevice' = FlashDevice
      BY <3>1 DEF FlashDevice
    <3>4. Newer
      <4>1. settings = FlashTuning /\ settings.epoch \in Nat
        BY <1>0, <2>2
        DEF HandleSetRadioSettings, Admitted, Request, FlashInv, RecordTypes, Tunings
      <4> QED
        BY <3>2, <4>1 DEF next
    <3>5. CASE ~PowerDown(<< >>)
      <4>1. settings' = next /\ device' = device /\ up /\ up' = up
        BY <2>2, <3>5 DEF next, HandleSetRadioSettings, devVars, Admitted, Request
      <4> QED
        BY <1>0, <3>2, <3>3, <3>4, <4>1 DEF FlashInv
    <3> QED
      BY <1>2, <3>4, <3>5
  <2>3. CASE HandleFactoryReset(s)
    <3>1. flash'.radio = flash.radio
      BY <1>0, <2>3, SavedFor DEF HandleFactoryReset
    <3> QED
      BY <1>2, <2>3, <3>1 DEF HandleFactoryReset, FlashTuning
  <2> QED
    BY <1>1, <1>4, <2>1, <2>2, <2>3
    DEF Changes, HandleAuth, SetRadioSettingsFails, SendPacketNoRoom, SendPacketStarts,
        SendPacketRefused, HandlePurgeStore, Connect, Disconnect, coreVars, devVars, tuneVars
<1>5. CASE BoardSteps
  <2>1. CASE Boot
    BY <1>0, <1>3, <2>1 DEF Boot, CoreBoot, FlashInv, FlashTuning, FlashDevice
  <2>2. CASE ~Boot
    BY <1>1, <1>5, <2>2
    DEF BoardSteps, PollIdle, PollTxDone, PacketReceived, PacketDiscarded, Chip,
        coreVars, devVars, tuneVars
  <2> QED
    BY <2>1, <2>2
<1>6. CASE Restarts
  BY <1>2, <1>3, <1>6 DEF Restarts, PowerLoss, HandleReboot, HandleBootloader
<1>7. CASE UNCHANGED <<coreVars, radioVars, logVars>>
  BY <1>1, <1>7 DEF coreVars, devVars, tuneVars
<1> QED
  BY <1>4, <1>5, <1>6, <1>7, StepCases

\* What a burst of frames adds to what was told.
LEMMA ToldIn ==
    ASSUME NEW f, Emit(f), NEW K,
           \A i \in DOMAIN f : f[i].body = "RadioSettings" => f[i].radio \in K
    PROVE  told' \subseteq told \cup K
  BY DEF Emit, ToldBy, Range

\* Nobody is told of any other tuning than the one in force.
LEMMA ToldStep ==
    ASSUME LogInv, [Next]_vars
    PROVE  told' \subseteq told \/ (up' /\ told' \subseteq told \cup {settings'})
<1>1. CASE PlainStep
  BY <1>1 DEF PlainStep
<1>2. CASE UNCHANGED vars
  BY <1>2 DEF vars, outVars
<1>3. CASE PowerDown(<< >>)
  BY <1>3 DEF PowerDown, ToldBy, Range
<1>4. ASSUME NEW s \in Sinks, NotedRequests(s), ~PowerDown(<< >>)
      PROVE  told' \subseteq told \/ (up' /\ told' \subseteq told \cup {settings'})
  <2>1. CASE HandleGetRadioSettings(s)
    <3>1. up' /\ settings' = settings /\ Emit(<<RadioSettingsFrame(settings, Only(s))>>)
      BY <2>1
      DEF HandleGetRadioSettings, Admitted, Request, JustSend, coreVars, tuneVars
    <3>2. told' \subseteq told \cup {settings}
      <4> DEFINE K == {settings}
                 b == RadioSettingsFrame(settings, Only(s))
      <4>1. b.radio \in K
        BY DEF RadioSettingsFrame
      <4> HIDE DEF K, b
      <4>2. told' \subseteq told \cup K
        BY <3>1, <4>1, ToldIn DEF b
      <4> QED
        BY <4>2 DEF K
    <3> QED
      BY <3>1, <3>2
  <2>2. ASSUME NEW t \in Tunes, HandleSetRadioSettings(s, t)
        PROVE  up' /\ told' \subseteq told \cup {settings'}
    <3>1. up' /\ Emit(RetuneFrames(s, settings'))
      BY <1>4, <2>2 DEF HandleSetRadioSettings, Admitted, Request
    <3>2. told' \subseteq told \cup {settings'}
      <4> DEFINE K == {settings'}
                 f == RetuneFrames(s, settings')
      <4>1. \A i \in DOMAIN f : f[i].radio \in K
        BY DEF RetuneFrames, RadioSettingsFrame
      <4> HIDE DEF K
      <4>2. told' \subseteq told \cup K
        BY <3>1, <4>1, ToldIn
      <4> QED
        BY <4>2 DEF K
    <3> QED
      BY <3>1, <3>2
  <2>3. CASE HandleGetDeviceSettings(s) \/ \E m \in Writes : SetDeviceSettingsNoop(s, m)
    <3>1. \E b : Emit(<<b>>) /\ b.body # "RadioSettings"
      BY <2>3
      DEF HandleGetDeviceSettings, SetDeviceSettingsNoop, JustSend, DeviceSettingsFrame
    <3> QED
      BY <3>1, ToldIn
  <2>4. ASSUME NEW m \in Writes, HandleSetDeviceSettings(s, m) PROVE told' \subseteq told
    <3>1. PICK f \in Seq(DeviceFrames(s, Candidate(m))) : Emit(f)
      BY <1>4, <2>4, DeviceEmission
    <3>2. \A g \in DeviceFrames(s, Candidate(m)) : g.body # "RadioSettings"
      BY DEF DeviceFrames, DeviceSettingsFrame
    <3>3. \A i \in DOMAIN f : f[i] \in DeviceFrames(s, Candidate(m))
      OBVIOUS
    <3>4. told' \subseteq told \cup {}
      BY <3>1, <3>2, <3>3, ToldIn
    <3> QED
      BY <3>4
  <2>5. ASSUME NEW p \in Packets, SendPacketStarts(s, p) \/ SendPacketRefused(s, p)
        PROVE  told' \subseteq told
    <3>1. Emit(<<Accepted(s, p)>>) \/ Emit(<<Accepted(s, p), TxResult(next_seq, FALSE)>>)
      BY <2>5 DEF SendPacketStarts, SendPacketRefused
    <3>2. told' \subseteq told \cup {}
      BY <3>1, ToldIn DEF Accepted, TxResult
    <3> QED
      BY <3>2
  <2>6. ASSUME NEW since \in 0..MaxSeq, NEW max \in 0..(MaxFetch + 1),
               HandleFetchPackets(s, since, max)
        PROVE  told' \subseteq told
    <3>1. PICK f \in Seq(FetchFrames(s)) : Emit(f)
      BY <2>6, FetchEmission
    <3>2. \A g \in FetchFrames(s) : g.body # "RadioSettings"
      BY DEF FetchFrames, PacketFrame
    <3>3. \A i \in DOMAIN f : f[i] \in FetchFrames(s)
      OBVIOUS
    <3>4. told' \subseteq told \cup {}
      BY <3>1, <3>2, <3>3, ToldIn
    <3> QED
      BY <3>4
  <2> QED
    BY <1>4, <2>1, <2>2, <2>3, <2>4, <2>5, <2>6 DEF NotedRequests
<1>5. CASE PollTxDone
  <2>1. told' \subseteq told \cup {}
    BY <1>5, ToldIn DEF PollTxDone, TxResult
  <2> QED
    BY <2>1
<1>6. ASSUME NEW p \in Packets, PacketReceived(p) PROVE told' \subseteq told
  <2>1. told' \subseteq told \cup {}
    BY <1>6, ToldIn DEF PacketReceived, PacketFrame
  <2> QED
    BY <2>1
<1> QED
  BY <1>1, <1>2, <1>3, <1>4, <1>5, <1>6, FrameCases

LEMMA ToldInvStep ==
    ASSUME "save" \notin Faults, FlashInv, LogInv, ToldInv, [Next]_vars
    PROVE  ToldInv'
<1>1. /\ FlashInv' /\ FlashTuning \in Tunings /\ FlashTuning' \in Tunings
      /\ FlashTuning' = FlashTuning \/ FlashTuning'.epoch > FlashTuning.epoch
  <2>1. FlashTuning \in Tunings
    BY StoredRecord, DefaultsTyped DEF FlashInv, RecordTypes, FlashTuning
  <2>2. FlashInv'
    BY FlashStep
  <2>3. FlashTuning' \in Tunings
    BY <2>2, StoredRecord, DefaultsTyped DEF FlashInv, RecordTypes, FlashTuning
  <2> QED
    BY <2>1, <2>2, <2>3, FlashStep
<1>2. \A r \in told' : r \in told \/ r = FlashTuning'
  BY <1>1, ToldStep DEF FlashInv
<1>3. \A r \in told : r \in Tunings /\ r.epoch \in Nat
  BY DEF ToldInv, Tunings
<1>4. FlashTuning.epoch \in Nat /\ FlashTuning'.epoch \in Nat
  BY <1>1 DEF Tunings
<1>5. ASSUME NEW r \in told'
      PROVE  /\ r.epoch <= FlashTuning'.epoch
             /\ r.epoch = FlashTuning'.epoch => r = FlashTuning'
  <2>1. CASE r = FlashTuning'
    BY <1>4, <2>1
  <2>2. CASE r \in told
    BY <1>1, <1>3, <1>4, <2>2 DEF ToldInv
  <2> QED
    BY <1>2, <2>1, <2>2
<1>6. EpochNamesTuning'
  BY <1>2, <1>5 DEF ToldInv, EpochNamesTuning
<1> QED
  BY <1>1, <1>2, <1>3, <1>5, <1>6 DEF ToldInv

LEMMA FlashStart == Init => FlashInv /\ ToldInv
<1> SUFFICES ASSUME Init PROVE FlashInv /\ ToldInv
  OBVIOUS
<1>1. flash \in [radio : Held(Tunings), dev : Held(Devices)]
  BY DEF Init, Held
<1>2. RecordTypes
  BY <1>1, DefaultsTyped DEF Init, RecordTypes
<1> QED
  BY <1>2 DEF Init, FlashInv, ToldInv, EpochNamesTuning

\* While saves succeed, an epoch names one tuning for good: over retunes,
\* refused ones too, reads, restarts and power cuts inside a retune.
THEOREM EpochsNameTunings ==
    ASSUME "save" \notin Faults
    PROVE  Spec => []EpochNamesTuning
<1>1. FlashInv /\ [Next]_vars => FlashInv'
  BY FlashStep
<1>2. FlashInv /\ LogInv /\ ToldInv /\ [Next]_vars => ToldInv'
  BY ToldInvStep
<1>3. ToldInv => EpochNamesTuning
  BY DEF ToldInv
<1> QED
  BY <1>1, <1>2, <1>3, FlashStart, LogStart, LogStep, PTL DEF Spec

\* While saves succeed, flash is never behind what clients were told.
THEOREM AnswersAreDurable ==
    ASSUME "save" \notin Faults
    PROVE  Spec => []AnsweredIsDurable
<1>1. FlashInv /\ [Next]_vars => FlashInv'
  BY FlashStep
<1>2. FlashInv /\ LogInv /\ ToldInv /\ [Next]_vars => ToldInv'
  BY ToldInvStep
<1>3. FlashInv /\ ToldInv => AnsweredIsDurable
  BY DEF FlashInv, ToldInv, FlashTuning, FlashDevice, AnsweredIsDurable
<1> QED
  BY <1>1, <1>2, <1>3, FlashStart, LogStart, LogStep, PTL DEF Spec

-----------------------------------------------------------------------------
(* What ends a session. *)

\* Another connection, authorized, wrote device settings that carry a PIN and
\* change something.
RotatedByOther(s) ==
    \E w \in sinks \ {s}, m \in Writes :
        Authorized(w) /\ m.pin # Absent /\ Candidate(m) # device /\ device' = Candidate(m)

\* A session that ends while its connection stays registered and the board up.
SessionEnds(s) == s \in sinks \cap sinks' /\ authenticated[s] /\ ~authenticated'[s]

\* No step but such a write ends the session of a connection that stays.
EndedByRotation == up /\ up' => \A s \in Sinks : SessionEnds(s) => RotatedByOther(s)

LEMMA EndedStep == SessionInv /\ [Next]_vars => EndedByRotation
<1> SUFFICES ASSUME SessionInv, [Next]_vars PROVE EndedByRotation
  OBVIOUS
<1>0. authenticated \in [Sinks -> BOOLEAN] /\ sinks \subseteq Sinks
  BY DEF SessionInv, SessionTypes
<1>1. ASSUME UNCHANGED authenticated PROVE EndedByRotation
  BY <1>1 DEF EndedByRotation, SessionEnds
<1>2. ASSUME NEW frames, PowerDown(frames) PROVE EndedByRotation
  BY <1>2 DEF PowerDown, EndedByRotation
<1>3. ASSUME NEW s \in Sinks, Changes(s) PROVE EndedByRotation
  <2>1. ASSUME NEW pin \in Pins, HandleAuth(s, pin) PROVE EndedByRotation
    <3>1. \A c \in Sinks : authenticated[c] => authenticated'[c]
      BY <1>0, <2>1 DEF HandleAuth
    <3> QED
      BY <3>1 DEF EndedByRotation, SessionEnds
  <2>2. ASSUME NEW m \in Writes, HandleSetDeviceSettings(s, m), ~PowerDown(<< >>)
        PROVE  EndedByRotation
    <3>1. /\ s \in sinks /\ Authorized(s)
          /\ Candidate(m) # device /\ device' = Candidate(m) /\ RotateSessions(s, m)
      BY <2>2 DEF HandleSetDeviceSettings, Admitted, Request
    <3>2. CASE m.pin = Absent
      BY <1>1, <3>1, <3>2 DEF RotateSessions
    <3>3. CASE m.pin # Absent
      <4>1. authenticated' = [c \in Sinks |-> c = s \/ (c \notin sinks /\ authenticated[c])]
        BY <3>1, <3>3 DEF RotateSessions
      <4>2. \A c \in Sinks : SessionEnds(c) => c # s
        BY <4>1 DEF SessionEnds
      <4>3. \A c \in Sinks : c # s => RotatedByOther(c)
        BY <3>1, <3>3 DEF RotatedByOther
      <4> QED
        BY <4>2, <4>3 DEF EndedByRotation
    <3> QED
      BY <3>2, <3>3
  <2>3. CASE Connect(s)
    <3>1. s \notin sinks /\ authenticated' = [authenticated EXCEPT ![s] = FALSE]
      BY <2>3 DEF Connect
    <3>2. \A c \in Sinks : ~SessionEnds(c)
      BY <1>0, <3>1 DEF SessionEnds
    <3> QED
      BY <3>2 DEF EndedByRotation
  <2>4. ASSUME ~ (\E pin \in Pins : HandleAuth(s, pin)),
               ~ (\E m \in Writes : HandleSetDeviceSettings(s, m)), ~Connect(s)
        PROVE  EndedByRotation
    BY <1>1, <1>2, <1>3, <2>4
    DEF Changes, SetRadioSettingsFails, HandleSetRadioSettings, SendPacketNoRoom,
        SendPacketStarts, SendPacketRefused, HandlePurgeStore, HandleFactoryReset, Disconnect,
        coreVars, sessVars
  <2> QED
    BY <1>2, <2>1, <2>2, <2>3, <2>4
<1>4. CASE BoardSteps
  <2>1. CASE Boot
    BY <2>1 DEF Boot, EndedByRotation
  <2>2. CASE ~Boot
    BY <1>1, <1>4, <2>2
    DEF BoardSteps, PollIdle, PollTxDone, PacketReceived, PacketDiscarded, Chip,
        coreVars, sessVars
  <2> QED
    BY <2>1, <2>2
<1>5. CASE Restarts
  BY <1>2, <1>5 DEF Restarts, PowerLoss, HandleReboot, HandleBootloader
<1>6. CASE UNCHANGED <<coreVars, radioVars, logVars>>
  BY <1>1, <1>6 DEF coreVars, sessVars
<1> QED
  BY <1>3, <1>4, <1>5, <1>6, StepCases

\* A session outlives everything but its connection, a restart, and a write of
\* another authorized connection that carries a PIN and changes something: a
\* wrong PIN, a rename without one, a write that changes nothing, a retune, a
\* purge or a socket taken down never log out a connection that stays.  What
\* SameValuePinKeepsSessions adds, and the code does not keep, is that the PIN
\* in such a write is a new one.
THEOREM OnlyRotationEndsSessions == Spec => [][EndedByRotation]_vars
<1>1. SessionInv /\ [Next]_vars => [EndedByRotation]_vars
  BY EndedStep
<1> QED
  BY <1>1, SessionStart, SessionStep, PTL DEF Spec
=============================================================================
