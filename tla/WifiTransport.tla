--------------------------- MODULE WifiTransport ---------------------------
(***************************************************************************)
(* The Wi-Fi station and its TCP server (class WifiTransport, ESP32): the  *)
(* link's state machine with its retry ladder, the client slots, and the   *)
(* settings applied to all of it while it runs.                            *)
(*                                                                         *)
(* pump() is cut where other code runs inside it: the link, the accept,    *)
(* then one slot after the other.  A request drained from a slot can       *)
(* apply new settings, which tears down the very slots being walked.       *)
(*                                                                         *)
(* The Wi-Fi driver, the access point and the peers are external.  `now`   *)
(* is millis(), which wraps; waited is auxiliary.  The Status push that    *)
(* set_state() makes is an action of CommandProcessor.                     *)
(***************************************************************************)
EXTENDS Naturals, FiniteSets, FiniteSetsExt

CONSTANTS
    Configs,       \* Wi-Fi settings: enabled, ssid, pass, port
    NoSsid,        \* the empty SSID
    MaxClients,    \* kMaxClients
    MaxSinks,      \* kMaxSinks of the registry all transports share
    MaxOthers,     \* bound: connections of the other transports
    BackoffStart,  \* kBackoffStartMs, in ticks
    BackoffMax,    \* kBackoffMaxMs, in ticks
    Wrap           \* millis() counts modulo this: 2^32 ms in the code

Slots == 1..MaxClients

ASSUME ConfigsAssumption ==
    Configs \subseteq [enabled : BOOLEAN, ssid : STRING, pass : STRING, port : Nat \ {0}]
ASSUME SizesAssumption ==
    {MaxClients, MaxSinks, MaxOthers} \subseteq Nat /\ MaxClients > 0
ASSUME TimesAssumption ==
    /\ {BackoffStart, BackoffMax, Wrap} \subseteq Nat
    /\ 0 < BackoffStart /\ BackoffStart <= BackoffMax /\ BackoffMax < Wrap

VARIABLES
    settings,      \* settings_
    state,         \* state_
    server,        \* port of the listening server, 0 when server_up_ is false
    last_attempt,  \* last_attempt_ms_
    backoff,       \* backoff_ms_
    in_use,        \* slots with a client
    broken,        \* slots with a frame not written in full
    num_clients,   \* num_clients_
    reg,           \* entries of each slot in the core's registry
    others,        \* registry entries of the other transports
    pc, cur,       \* where pump() is, and the slot it is at
    drv,           \* the driver
    target,        \* the credentials last given to WiFi.begin()
    ap,            \* what the network does with a station that joins
    waiting,       \* a peer is in the server's backlog
    gone,          \* slots whose peer has closed the socket
    now,           \* millis()
    waited         \* auxiliary: real time since the last attempt, capped

linkVars == <<state, last_attempt, backoff, drv, target, waited>>
slotVars == <<in_use, num_clients, reg, waiting, gone>>
pumpVars == <<pc, cur>>
envVars == <<others, ap, now>>
vars == <<settings, linkVars, server, slotVars, broken, pumpVars, envVars>>

\* usable(), of these settings.
Usable(c) == c.enabled /\ c.ssid # NoSsid

Credentials(c) == <<c.ssid, c.pass>>

-----------------------------------------------------------------------------
(* The helpers of the class. *)

\* Mutant: the walk stops at the number of clients instead of the slots.
StopServer_ByCount ==
    LET drop == in_use \cap 1..num_clients IN
    /\ in_use' = in_use \ drop
    /\ reg' = [i \in Slots |-> IF i \in drop THEN reg[i] - 1 ELSE reg[i]]
    /\ num_clients' = num_clients - Cardinality(drop)
    /\ gone' = gone \ drop
    /\ waiting' = FALSE

\* stop_server(): every slot with a client is dropped.
StopServer ==
    /\ in_use' = {}
    /\ reg' = [i \in Slots |-> IF i \in in_use THEN reg[i] - 1 ELSE reg[i]]
    /\ num_clients' = num_clients - Cardinality(in_use)
    /\ gone' = {}
    /\ waiting' = FALSE

\* connect_start() with the settings c: a fresh attempt ladder.
ConnectStart(c) ==
    /\ state' = "CONNECTING"
    /\ drv' = "joining" /\ target' = Credentials(c)
    /\ last_attempt' = now /\ waited' = 0
    /\ backoff' = BackoffStart

\* disconnect()
Disconnect ==
    /\ state' = "OFF" /\ drv' = "off"
    /\ UNCHANGED <<last_attempt, backoff, target, waited>>

-----------------------------------------------------------------------------
(* apply() *)

\* A request runs on the loop, between two pumps or inside the drain of the
\* slot it came from.
RequestRuns == pc = "loop" \/ (pc = "drain" /\ cur \in in_use /\ cur \notin broken)

\* Mutant: a new password alone is taken for the same network.
CredentialsChanged_SsidOnly(c) == c.ssid # settings.ssid

CredentialsChanged(c) == Credentials(c) # Credentials(settings)

\* Mutant: only a link that is up is torn down.
WasEnabled_OnlyUp == state = "CONNECTED"

WasEnabled == settings.enabled

\* There is no network to be on any more.
ApplyOff(c) ==
    /\ RequestRuns /\ ~Usable(c)
    /\ settings' = c
    /\ \/ WasEnabled /\ StopServer /\ server' = 0 /\ Disconnect
       \/ ~WasEnabled /\ UNCHANGED <<slotVars, server, linkVars>>
    /\ UNCHANGED <<broken, pumpVars, envVars>>

\* A new network, new credentials, or newly enabled.
ApplyRejoin(c) ==
    /\ RequestRuns /\ Usable(c)
    /\ ~WasEnabled \/ CredentialsChanged(c)
    /\ settings' = c
    /\ StopServer /\ server' = 0
    /\ ConnectStart(c)
    /\ UNCHANGED <<broken, pumpVars, envVars>>

\* The same network; another port rebinds the listener, and drops the
\* sockets that were on the old one.
ApplyPort(c) ==
    /\ RequestRuns /\ Usable(c)
    /\ WasEnabled /\ ~CredentialsChanged(c)
    /\ settings' = c
    /\ \/ c.port # settings.port /\ server # 0 /\ StopServer /\ server' = c.port
       \/ (c.port = settings.port \/ server = 0) /\ UNCHANGED <<slotVars, server>>
    /\ UNCHANGED <<linkVars, broken, pumpVars, envVars>>

-----------------------------------------------------------------------------
(* pump(): the link. *)

\* Mutant: a network that was not found is never tried again.
Trying_NoError == {"CONNECTING", "AUTH_FAIL"}

Trying == {"CONNECTING", "AUTH_FAIL", "ERROR"}

PumpLink == pc = "loop" /\ Usable(settings) /\ pc' = "accept" /\ UNCHANGED cur

\* Mutant: the ladder is not seeded when the link drops.
LinkLost_NotSeeded ==
    /\ PumpLink /\ state = "CONNECTED" /\ drv # "joined"
    /\ StopServer /\ server' = 0
    /\ state' = "CONNECTING"
    /\ last_attempt' = now /\ waited' = 0
    /\ UNCHANGED <<settings, backoff, drv, target, broken, envVars>>

\* The link dropped.
LinkLost ==
    /\ PumpLink /\ state = "CONNECTED" /\ drv # "joined"
    /\ StopServer /\ server' = 0
    /\ state' = "CONNECTING"
    /\ last_attempt' = now /\ waited' = 0
    /\ backoff' = BackoffStart
    /\ UNCHANGED <<settings, drv, target, broken, envVars>>

\* The link is up.
LinkUp ==
    /\ PumpLink /\ state \in Trying /\ drv = "joined"
    /\ IF server = 0 THEN StopServer /\ server' = settings.port
       ELSE UNCHANGED <<slotVars, server>>
    /\ state' = "CONNECTED" /\ backoff' = 0
    /\ UNCHANGED <<settings, last_attempt, drv, target, waited, broken, envVars>>

\* What the driver's status makes of the state while the link is down.
DownState ==
    CASE drv = "no_ssid" -> "ERROR"
      [] drv = "failed" -> "AUTH_FAIL"
      [] OTHER -> "CONNECTING"

\* Mutant: the deadline is computed and compared, and the counter wraps.
RetryDue_Deadline == now >= (last_attempt + backoff) % Wrap

\* millis() - last_attempt_ms_ >= backoff_ms_, in the counter's width.
RetryDue == (now + Wrap - last_attempt) % Wrap >= backoff

\* The next rung: doubled, with a floor and a cap.
NextBackoff ==
    LET b == IF backoff >= BackoffMax THEN backoff
             ELSE IF backoff # 0 THEN 2 * backoff ELSE BackoffStart
    IN  IF b > BackoffMax THEN BackoffMax ELSE b

LinkRetry ==
    /\ PumpLink /\ state \in Trying /\ drv # "joined" /\ RetryDue
    /\ state' = DownState
    /\ last_attempt' = now /\ waited' = 0
    /\ backoff' = NextBackoff
    /\ drv' = "joining" /\ target' = Credentials(settings)
    /\ UNCHANGED <<settings, server, slotVars, broken, envVars>>

\* Reading the status may consume a failure.
LinkWait ==
    /\ PumpLink /\ state \in Trying /\ drv # "joined" /\ ~RetryDue
    /\ state' = DownState
    /\ drv' \in {drv} \cup (IF drv \in {"no_ssid", "failed"} THEN {"idle"} ELSE {})
    /\ UNCHANGED <<settings, last_attempt, backoff, target, waited, server,
                   slotVars, broken, envVars>>

LinkSteady ==
    /\ PumpLink /\ state = "CONNECTED" /\ drv = "joined"
    /\ UNCHANGED <<settings, linkVars, server, slotVars, broken, envVars>>

-----------------------------------------------------------------------------
(* pump(): the clients. *)

ToDrain == pc = "accept" /\ pc' = "drain" /\ cur' = 1

\* What sink_free() subtracts from kMaxSinks: the entries of the slots, each
\* named by its slot and its number, and those of the other transports.
Registered == UNION {{i} \X (1..reg[i]) : i \in Slots}
RegistrySize == others + Cardinality(Registered)

NobodyWaits ==
    /\ ToDrain /\ (server = 0 \/ ~waiting)
    /\ UNCHANGED <<settings, linkVars, server, slotVars, broken, envVars>>

\* accept_clients() takes the first free slot, while the registry has room.
AcceptClient ==
    /\ ToDrain /\ server # 0 /\ waiting
    /\ in_use # Slots /\ RegistrySize < MaxSinks
    /\ LET i == Min(Slots \ in_use) IN
          /\ in_use' = in_use \cup {i}
          /\ broken' = broken \ {i}
          /\ reg' = [reg EXCEPT ![i] = @ + 1]
    /\ num_clients' = num_clients + 1
    /\ waiting' = FALSE
    /\ UNCHANGED <<settings, linkVars, server, gone, envVars>>

\* At capacity, here or in the registry: the client is hung up on.
TurnAway ==
    /\ ToDrain /\ server # 0 /\ waiting
    /\ in_use = Slots \/ RegistrySize >= MaxSinks
    /\ waiting' = FALSE
    /\ UNCHANGED <<settings, linkVars, server, in_use, num_clients, reg, gone, broken,
                   envVars>>

\* A frame to slot i could not be written in full: to a client of the slot,
\* or the response to a request that tore its own socket down.
SendFails(i) ==
    /\ i \in in_use \/ (pc = "drain" /\ i = cur)
    /\ broken' = broken \cup {i}
    /\ UNCHANGED <<settings, linkVars, server, slotVars, pumpVars, envVars>>

\* Mutant: the socket is closed and its registry entry left behind.
DropClient_StaysRegistered(i) ==
    IF i \in in_use
    THEN /\ in_use' = in_use \ {i} /\ gone' = gone \ {i}
         /\ num_clients' = num_clients - 1
         /\ UNCHANGED <<reg, waiting>>
    ELSE UNCHANGED slotVars

\* drop_client(i)
DropClient(i) ==
    IF i \in in_use
    THEN /\ in_use' = in_use \ {i} /\ gone' = gone \ {i}
         /\ reg' = [reg EXCEPT ![i] = @ - 1]
         /\ num_clients' = num_clients - 1
         /\ UNCHANGED waiting
    ELSE UNCHANGED slotVars

\* pump_clients() is done with a slot, and goes to the next.
PumpClient ==
    /\ pc = "drain"
    /\ \/ cur \in broken \cup gone /\ DropClient(cur)
       \/ cur \notin broken \cup gone /\ UNCHANGED slotVars
    /\ pc' = IF cur = MaxClients THEN "loop" ELSE "drain"
    /\ cur' = IF cur = MaxClients THEN 1 ELSE cur + 1
    /\ UNCHANGED <<settings, linkVars, server, broken, envVars>>

-----------------------------------------------------------------------------
(* The driver, the network, the peers and the clock. *)

\* An attempt ends; the driver does not try again by itself.
DriverJoins ==
    /\ drv = "joining"
    /\ drv' = CASE ap = "good" -> "joined" [] ap = "absent" -> "no_ssid" [] OTHER -> "failed"
    /\ UNCHANGED <<settings, state, last_attempt, backoff, target, waited, server,
                   slotVars, broken, pumpVars, envVars>>

DriverDrops ==
    /\ drv = "joined" /\ ap # "good" /\ drv' = "idle"
    /\ UNCHANGED <<settings, state, last_attempt, backoff, target, waited, server,
                   slotVars, broken, pumpVars, envVars>>

NetworkChanges ==
    /\ ap' \in {"good", "absent", "rejects"} \ {ap}
    /\ UNCHANGED <<settings, linkVars, server, slotVars, broken, pumpVars, others, now>>

PeerArrives ==
    /\ server # 0 /\ ~waiting /\ waiting' = TRUE
    /\ UNCHANGED <<settings, linkVars, server, in_use, num_clients, reg, gone, broken,
                   pumpVars, envVars>>

PeerLeaves(i) ==
    /\ i \in in_use \ gone /\ gone' = gone \cup {i}
    /\ UNCHANGED <<settings, linkVars, server, in_use, num_clients, reg, waiting, broken,
                   pumpVars, envVars>>

\* Another transport registers or removes a connection.
OthersChange ==
    /\ pc = "loop"
    /\ \/ others < MaxOthers /\ RegistrySize < MaxSinks /\ others' = others + 1
       \/ others > 0 /\ others' = others - 1
    /\ UNCHANGED <<settings, linkVars, server, slotVars, broken, pumpVars, ap, now>>

\* The loop runs at least once in every period of the counter.
Tick ==
    /\ state \in Trying => waited < Wrap - 1
    /\ now' = (now + 1) % Wrap
    /\ waited' = IF waited < Wrap THEN waited + 1 ELSE waited
    /\ UNCHANGED <<settings, state, last_attempt, backoff, drv, target, server,
                   slotVars, broken, pumpVars, others, ap>>

-----------------------------------------------------------------------------
\* begin(), before the first apply().
Init ==
    /\ settings \in {c \in Configs : ~c.enabled}
    /\ state = "OFF" /\ server = 0
    /\ last_attempt = 0 /\ backoff = 0
    /\ in_use = {} /\ broken = {} /\ num_clients = 0
    /\ reg = [i \in Slots |-> 0] /\ others = 0
    /\ pc = "loop" /\ cur = 1
    /\ drv = "off" /\ target = Credentials(settings)
    /\ ap = "good" /\ waiting = FALSE /\ gone = {}
    /\ now = 0 /\ waited = 0 

Apply == \E c \in Configs : ApplyOff(c) \/ ApplyRejoin(c) \/ ApplyPort(c)

Pump ==
    \/ LinkLost \/ LinkUp \/ LinkRetry \/ LinkWait \/ LinkSteady
    \/ NobodyWaits \/ AcceptClient \/ TurnAway \/ PumpClient

Environment ==
    \/ DriverJoins \/ DriverDrops \/ NetworkChanges \/ PeerArrives \/ OthersChange \/ Tick
    \/ \E i \in Slots : PeerLeaves(i) \/ SendFails(i)

Next == Apply \/ Pump \/ Environment

Spec == Init /\ [][Next]_vars

\* The loop runs for ever, time passes, and an attempt to join ends.
FairSpec == Spec /\ WF_vars(Pump) /\ WF_vars(Tick) /\ WF_vars(DriverJoins)

-----------------------------------------------------------------------------
(* Properties. *)

\* Every variable has its type: the wait stays within the cap, each slot is
\* registered at most once, and a peer can only leave a slot that has one.
TypeOK ==
    /\ settings \in Configs /\ target \in {Credentials(c) : c \in Configs}
    /\ state \in {"OFF", "CONNECTING", "CONNECTED", "AUTH_FAIL", "ERROR"}
    /\ server \in {0} \cup {c.port : c \in Configs}
    /\ {last_attempt, now} \subseteq 0..(Wrap - 1) /\ waited \in 0..Wrap
    /\ backoff \in 0..BackoffMax
    /\ in_use \subseteq Slots /\ broken \subseteq Slots /\ gone \subseteq in_use
    /\ num_clients \in 0..MaxClients /\ others \in 0..MaxOthers
    /\ reg \in [Slots -> 0..1]
    /\ pc \in {"loop", "accept", "drain"} /\ cur \in Slots
    /\ drv \in {"off", "idle", "joining", "joined", "no_ssid", "failed"}
    /\ ap \in {"good", "absent", "rejects"} /\ waiting \in BOOLEAN

\* The slots, the client count that Status reports and the core's registry
\* agree: a client in a slot is registered once, a freed slot not at all, and
\* the registry is never over its capacity - although a request can tear
\* down the slots while pump_clients() walks them.
SlotsMatchRegistry ==
    /\ \A i \in Slots : reg[i] = IF i \in in_use THEN 1 ELSE 0
    /\ num_clients = Cardinality(in_use)
    /\ RegistrySize <= MaxSinks

\* The server listens, on the configured port, exactly while the link is up,
\* and clients exist only while it listens: no socket survives the network,
\* the port or the settings it was accepted under.
ServesOnlyWhileUp ==
    /\ server = IF state = "CONNECTED" THEN settings.port ELSE 0
    /\ in_use # {} => server # 0

\* The station is off exactly while the settings leave it no network to be
\* on, and then the driver is off too: a settings change that ends the
\* network also ends a join that is still in progress or backing off.
LinkMatchesSettings ==
    /\ state = "OFF" <=> ~Usable(settings)
    /\ state = "OFF" => drv = "off"

\* Whatever the driver is joining, or has joined, it was given the
\* credentials of the settings in force.
RightNetwork == drv # "off" => target = Credentials(settings)

\* While the link is being retried the wait is between the floor and the cap:
\* no path into a retrying state leaves the wait unseeded, to be doubled from
\* zero or retried on every pass of the loop.
BackoffSeeded == state \in Trying => backoff \in BackoffStart..BackoffMax

\* No attempt is repeated before its wait is over in real time, across the
\* rollover of millis() too.
RetryPaced ==
    [][/\ settings' = settings
       /\ {state, state'} \subseteq {"CONNECTING", "AUTH_FAIL", "ERROR"}
       /\ waited' < waited \/ backoff' # backoff
       => waited >= backoff]_vars

\* However the network failed before, and however often the settings were
\* changed: once they and the network stay good, the link comes up and stays.
ComesBack ==
    \A c \in Configs : Usable(c) =>
        (<>[](settings = c /\ ap = "good") => <>[](state = "CONNECTED"))
=============================================================================
