------------------------ MODULE WifiTransportProofs ------------------------
(***************************************************************************)
(* What the Wi-Fi transport guarantees for any settings, any number of     *)
(* slots and registry entries, any retry ladder and any counter width.     *)
(***************************************************************************)
EXTENDS WifiTransport, FiniteSetTheorems, WellFoundedInduction, TLAPS

-----------------------------------------------------------------------------
(* The least element, the counter and the registry. *)

\* The first free slot is a free slot: a set of naturals has a least element.
LEMMA LeastElement ==
    ASSUME NEW T, T \subseteq Nat, T # {}
    PROVE  Min(T) \in T /\ \A y \in T : Min(T) <= y
<1> DEFINE R == OpToRel(<, Nat)
<1>1. IsWellFoundedOn(R, Nat)
  BY NatLessThanWellFounded
<1>2. \A x, y \in Nat : y < x => <<y, x>> \in R
  BY DEF OpToRel
<1> HIDE DEF R
<1>3. PICK x \in T : \A y \in T : ~ (<<y, x>> \in R)
  BY <1>1, WFMin
<1>4. ASSUME NEW y \in T PROVE x <= y
  <2>1. x \in Nat /\ y \in Nat
    OBVIOUS
  <2>2. ~ (y < x)
    BY <1>2, <1>3, <2>1
  <2> QED
    BY <2>1, <2>2
<1> QED
  BY <1>4 DEF Min

\* What the counter reads `waited` ticks after an attempt.
Elapsed == (now + Wrap - last_attempt) % Wrap

LEMMA FreshAttempt ==
    ASSUME now \in 0..(Wrap - 1)
    PROVE  (now + Wrap - now) % Wrap = 0
<1>1. now + Wrap - now = Wrap /\ Wrap \in Nat \ {0}
  BY TimesAssumption
<1>2. Wrap % Wrap = 0
  BY <1>1, Z3
<1> QED
  BY <1>1, <1>2

LEMMA ElapsedTicks ==
    ASSUME {last_attempt, now} \subseteq 0..(Wrap - 1), Elapsed < Wrap - 1
    PROVE  (((now + 1) % Wrap) + Wrap - last_attempt) % Wrap = Elapsed + 1
<1>1. Wrap \in Nat \ {0}
  BY TimesAssumption
<1>2. ASSUME NEW a \in 0..(Wrap - 1) PROVE a % Wrap = a /\ (a + Wrap) % Wrap = a
  BY <1>1, Z3
<1>3. (now + 1) % Wrap = IF now + 1 = Wrap THEN 0 ELSE now + 1
  <2>1. Wrap % Wrap = 0
    BY <1>1, Z3
  <2> QED
    BY <1>1, <1>2, <2>1
<1>4. CASE now >= last_attempt
  <2>1. (now - last_attempt) \in 0..(Wrap - 1)
        /\ now + Wrap - last_attempt = (now - last_attempt) + Wrap
    BY <1>1, <1>4
  <2>2. Elapsed = now - last_attempt
    BY <1>2, <2>1 DEF Elapsed
  <2>3. CASE now + 1 < Wrap
    <3>1. (now + 1 - last_attempt) \in 0..(Wrap - 1)
          /\ now + 1 + Wrap - last_attempt = (now + 1 - last_attempt) + Wrap
      BY <1>1, <1>4, <2>2, <2>3
    <3> QED
      BY <1>2, <1>3, <2>2, <2>3, <3>1
  <2>4. CASE now + 1 = Wrap
    <3>1. (Wrap - last_attempt) \in 0..(Wrap - 1)
      BY <1>1, <1>4, <2>2, <2>4
    <3>2. ((now + 1) % Wrap) + Wrap - last_attempt = Wrap - last_attempt
      BY <1>1, <1>3, <2>4
    <3>3. Wrap - last_attempt = now - last_attempt + 1
      BY <1>1, <2>4
    <3> QED
      BY <1>2, <2>2, <3>1, <3>2, <3>3
  <2> QED
    BY <1>1, <2>3, <2>4
<1>5. CASE now < last_attempt
  <2>1. now + Wrap - last_attempt \in 0..(Wrap - 1)
    BY <1>1, <1>5
  <2>2. Elapsed = now + Wrap - last_attempt
    BY <1>2, <2>1 DEF Elapsed
  <2>3. now + 1 + Wrap - last_attempt \in 0..(Wrap - 1) /\ now + 1 < Wrap
    BY <1>1, <1>5, <2>2
  <2>4. ((now + 1) % Wrap) + Wrap - last_attempt = now + 1 + Wrap - last_attempt
    BY <1>1, <1>3, <2>3
  <2> QED
    BY <1>1, <1>2, <2>2, <2>3, <2>4
<1> QED
  BY <1>1, <1>4, <1>5

\* The registry entries the clients in S have: one each.
OnceEach(S) == [i \in Slots |-> IF i \in S THEN 1 ELSE 0]

LEMMA SlotsFinite ==
    ASSUME NEW S, S \subseteq Slots
    PROVE  IsFiniteSet(S) /\ Cardinality(S) \in 0..MaxClients
<1>1. IsFiniteSet(Slots) /\ Cardinality(Slots) = MaxClients
  BY FS_Interval, SizesAssumption DEF Slots
<1>2. IsFiniteSet(S) /\ Cardinality(S) <= MaxClients
  BY <1>1, FS_Subset
<1>3. Cardinality(S) \in Nat
  BY <1>2, FS_CardinalityType
<1> QED
  BY <1>2, <1>3, SizesAssumption

\* The entries of the slots are as many as the clients.
LEMMA RegistryCount ==
    ASSUME reg = OnceEach(in_use), in_use \subseteq Slots
    PROVE  Cardinality(Registered) = Cardinality(in_use)
<1>1. Registered = in_use \X {1}
  <2>1. ASSUME NEW e \in Registered PROVE e \in in_use \X {1}
    <3>1. PICK i \in Slots : e \in {i} \X (1..reg[i])
      BY <2>1 DEF Registered
    <3>2. reg[i] = IF i \in in_use THEN 1 ELSE 0
      BY DEF OnceEach
    <3> QED
      BY <3>1, <3>2
  <2>2. ASSUME NEW e \in in_use \X {1} PROVE e \in Registered
    <3>1. PICK i \in in_use : e = <<i, 1>>
      BY <2>2
    <3>2. i \in Slots /\ reg[i] = 1
      BY DEF OnceEach
    <3>3. e \in {i} \X (1..reg[i])
      BY <3>1, <3>2
    <3> QED
      BY <3>2, <3>3 DEF Registered
  <2> QED
    BY <2>1, <2>2
<1>2. IsFiniteSet(in_use) /\ Cardinality(in_use) \in Nat
  BY SlotsFinite
<1>3. IsFiniteSet({1}) /\ Cardinality({1}) = 1
  BY FS_Singleton
<1>4. Cardinality(in_use \X {1}) = Cardinality(in_use) * 1
  BY <1>2, <1>3, FS_Product
<1> QED
  BY <1>1, <1>2, <1>4

-----------------------------------------------------------------------------
(* The invariant. *)

\* The slots, the count and the registry.
SlotInv ==
    /\ in_use \subseteq Slots /\ broken \subseteq Slots /\ gone \subseteq in_use
    /\ waiting \in BOOLEAN /\ others \in 0..MaxOthers
    /\ pc \in {"loop", "accept", "drain"} /\ cur \in Slots
    /\ reg = OnceEach(in_use) /\ num_clients = Cardinality(in_use)
    /\ others + Cardinality(in_use) <= MaxSinks

LinkTypes ==
    /\ settings \in Configs /\ target \in {Credentials(c) : c \in Configs}
    /\ state \in {"OFF", "CONNECTING", "CONNECTED", "AUTH_FAIL", "ERROR"}
    /\ {last_attempt, now} \subseteq 0..(Wrap - 1) /\ waited \in 0..Wrap
    /\ backoff \in 0..BackoffMax
    /\ drv \in {"off", "idle", "joining", "joined", "no_ssid", "failed"}
    /\ ap \in {"good", "absent", "rejects"}

\* While the link is retried, the counter shows the time since the attempt.
Paced == state \in Trying => waited < Wrap /\ Elapsed = waited

LinkInv ==
    /\ LinkTypes
    /\ ServesOnlyWhileUp /\ LinkMatchesSettings /\ RightNetwork
    /\ BackoffSeeded /\ Paced

LEMMA StopServerSlots ==
    ASSUME SlotInv, StopServer
    PROVE  /\ in_use' = {} /\ gone' = {} /\ waiting' = FALSE
           /\ reg' = OnceEach({}) /\ num_clients' = 0
<1>1. Cardinality(in_use) \in Nat
  BY SlotsFinite DEF SlotInv
<1>2. reg' = OnceEach({})
  BY DEF StopServer, SlotInv, OnceEach
<1> QED
  BY <1>1, <1>2 DEF StopServer, SlotInv

LEMMA DropClientSlots ==
    ASSUME SlotInv, NEW i \in Slots, DropClient(i)
    PROVE  /\ in_use' = in_use \ {i} /\ gone' \subseteq in_use' /\ waiting' = waiting
           /\ reg' = OnceEach(in_use') /\ num_clients' = Cardinality(in_use')
           /\ Cardinality(in_use') <= Cardinality(in_use)
<1>0. IsFiniteSet(in_use) /\ Cardinality(in_use) \in Nat
  BY SlotsFinite DEF SlotInv
<1>1. CASE i \in in_use
  <2>1. in_use' = in_use \ {i}
    BY <1>1 DEF DropClient
  <2>2. Cardinality(in_use') = Cardinality(in_use) - 1
    BY <1>0, <1>1, <2>1, FS_RemoveElement
  <2>3. reg' = OnceEach(in_use')
    BY <1>1, <2>1 DEF DropClient, SlotInv, OnceEach
  <2> QED
    BY <1>0, <1>1, <2>1, <2>2, <2>3 DEF DropClient, SlotInv
<1>2. CASE i \notin in_use
  BY <1>0, <1>2 DEF DropClient, slotVars, SlotInv
<1> QED
  BY <1>1, <1>2

LEMMA AcceptClientSlots ==
    ASSUME SlotInv, AcceptClient
    PROVE  /\ in_use' \subseteq Slots /\ in_use \subseteq in_use' /\ broken' \subseteq broken
           /\ reg' = OnceEach(in_use') /\ num_clients' = Cardinality(in_use')
           /\ others + Cardinality(in_use') <= MaxSinks
<1> DEFINE i == Min(Slots \ in_use)
<1>0. IsFiniteSet(in_use) /\ Cardinality(in_use) \in Nat
  BY SlotsFinite DEF SlotInv
<1>1. i \in Slots \ in_use
  <2>1. Slots \ in_use \subseteq Nat /\ Slots \ in_use # {}
    <3>1. Slots \ in_use # {}
      BY DEF AcceptClient, SlotInv
    <3> QED
      BY <3>1, SizesAssumption DEF Slots
  <2> QED
    BY <2>1, LeastElement
<1>2. /\ in_use' = in_use \cup {i} /\ broken' = broken \ {i}
      /\ reg' = [reg EXCEPT ![i] = @ + 1] /\ num_clients' = num_clients + 1
      /\ others + Cardinality(in_use) < MaxSinks
  BY RegistryCount DEF AcceptClient, SlotInv, RegistrySize
<1> HIDE DEF i
<1>3. Cardinality(in_use') = Cardinality(in_use) + 1
  BY <1>0, <1>1, <1>2, FS_AddElement
<1>4. reg' = OnceEach(in_use')
  BY <1>1, <1>2 DEF SlotInv, OnceEach
<1>5. others \in Nat /\ MaxSinks \in Nat
  BY SizesAssumption DEF SlotInv
<1>6. others + Cardinality(in_use') <= MaxSinks
  BY <1>0, <1>2, <1>3, <1>5
<1> QED
  BY <1>1, <1>2, <1>3, <1>4, <1>6 DEF SlotInv

LEMMA SlotStep == SlotInv /\ [Next]_vars => SlotInv'
<1> SUFFICES ASSUME SlotInv, [Next]_vars PROVE SlotInv'
  OBVIOUS
<1> DEFINE ToPump == pc' \in {"loop", "accept", "drain"} /\ cur' \in Slots
<1>0. 1 \in Slots /\ Cardinality(in_use) \in Nat /\ others \in Nat /\ MaxSinks \in Nat
  <2>1. Cardinality(in_use) \in Nat
    BY SlotsFinite DEF SlotInv
  <2>2. 1 \in Slots /\ MaxSinks \in Nat
    BY SizesAssumption DEF Slots
  <2>3. others \in Nat
    BY SizesAssumption DEF SlotInv
  <2> QED
    BY <2>1, <2>2, <2>3
<1>1. ASSUME UNCHANGED <<slotVars, broken, others>>, ToPump PROVE SlotInv'
  BY <1>1 DEF slotVars, SlotInv
<1>2. ASSUME StopServer, UNCHANGED <<broken, others>>, ToPump PROVE SlotInv'
  <2>1. Cardinality({}) = 0 /\ others + 0 <= MaxSinks
    BY <1>0, FS_EmptySet DEF SlotInv
  <2>2. /\ in_use' = {} /\ gone' = {} /\ waiting' = FALSE
        /\ reg' = OnceEach({}) /\ num_clients' = 0
    BY <1>2, StopServerSlots
  <2>3. others' + Cardinality(in_use') <= MaxSinks /\ num_clients' = Cardinality(in_use')
    BY <1>2, <2>1, <2>2
  <2> QED
    BY <1>2, <2>2, <2>3 DEF SlotInv
<1>3. ASSUME NEW i \in Slots, DropClient(i), UNCHANGED <<broken, others>>, ToPump PROVE SlotInv'
  <2>1. Cardinality(in_use') \in Nat
    BY <1>3, DropClientSlots, SlotsFinite DEF SlotInv
  <2> QED
    BY <1>0, <1>3, <2>1, DropClientSlots DEF SlotInv
<1>4. UNCHANGED pumpVars => ToPump
  BY DEF pumpVars, SlotInv
<1>5. PumpLink \/ ToDrain => ToPump
  BY <1>0 DEF PumpLink, ToDrain, SlotInv
<1>6. CASE Apply
  BY <1>1, <1>2, <1>4, <1>6 DEF Apply, ApplyOff, ApplyRejoin, ApplyPort, envVars
<1>7. CASE LinkLost \/ LinkUp \/ LinkRetry \/ LinkWait \/ LinkSteady \/ NobodyWaits
  BY <1>1, <1>2, <1>5, <1>7
  DEF LinkLost, LinkUp, LinkRetry, LinkWait, LinkSteady, NobodyWaits, envVars
<1>8. CASE AcceptClient
  <2>1. UNCHANGED <<gone, others>> /\ waiting' = FALSE /\ ToPump
    BY <1>5, <1>8 DEF AcceptClient, envVars
  <2> QED
    BY <1>8, <2>1, AcceptClientSlots DEF SlotInv
<1>9. CASE TurnAway
  BY <1>5, <1>9 DEF TurnAway, envVars, SlotInv
<1>10. CASE PumpClient
  <2>1. ToPump
    BY <1>0, <1>10, SizesAssumption DEF PumpClient, SlotInv, Slots
  <2> QED
    BY <1>1, <1>3, <1>10, <2>1 DEF PumpClient, SlotInv, envVars
<1>11. CASE Environment
  <2>1. CASE DriverJoins \/ DriverDrops \/ NetworkChanges \/ Tick
    BY <1>1, <1>4, <2>1 DEF DriverJoins, DriverDrops, NetworkChanges, Tick, envVars
  <2>2. CASE PeerArrives
    BY <2>2 DEF PeerArrives, pumpVars, envVars, SlotInv
  <2>3. CASE OthersChange
    <3>1. Cardinality(Registered) = Cardinality(in_use)
      BY RegistryCount DEF SlotInv
    <3>2. others' \in 0..MaxOthers /\ others' + Cardinality(in_use) <= MaxSinks
      BY <1>0, <2>3, <3>1, SizesAssumption DEF OthersChange, RegistrySize, SlotInv
    <3> QED
      BY <2>3, <3>2 DEF OthersChange, slotVars, pumpVars, SlotInv
  <2>4. ASSUME NEW i \in Slots, PeerLeaves(i) \/ SendFails(i) PROVE SlotInv'
    BY <2>4 DEF PeerLeaves, SendFails, slotVars, pumpVars, envVars, SlotInv
  <2> QED
    BY <1>11, <2>1, <2>2, <2>3, <2>4 DEF Environment
<1>12. CASE UNCHANGED vars
  BY <1>1, <1>4, <1>12 DEF vars, envVars
<1> QED
  BY <1>6, <1>7, <1>8, <1>9, <1>10, <1>11, <1>12 DEF Next, Pump

LEMMA SlotStart == Init => SlotInv
<1> SUFFICES ASSUME Init PROVE SlotInv
  OBVIOUS
<1>1. 1 \in Slots /\ reg = OnceEach({})
  BY SizesAssumption DEF Init, Slots, OnceEach
<1> QED
  <2>1. Cardinality({}) = 0 /\ 0 + 0 <= MaxSinks /\ 0 \in 0..MaxOthers
    BY FS_EmptySet, SizesAssumption
  <2> QED
    BY <1>1, <2>1 DEF Init, SlotInv

\* The slots, the count in Status and the shared registry agree for any
\* number of slots and entries, although a request can tear down the slots
\* that pump_clients() is walking.
THEOREM SlotsAndRegistryAgree == Spec => []SlotsMatchRegistry
<1>1. SlotInv => SlotsMatchRegistry
  BY RegistryCount DEF SlotInv, OnceEach, RegistrySize, SlotsMatchRegistry
<1> QED
  BY <1>1, SlotStart, SlotStep, PTL DEF Spec

-----------------------------------------------------------------------------
(* The link. *)

LEMMA ConfigTypes ==
    ASSUME NEW c \in Configs
    PROVE  c.enabled \in BOOLEAN /\ c.port \in Nat \ {0}
  BY ConfigsAssumption

\* What one step of the retry ladder can do to the times.
TimesOk ==
    /\ {last_attempt', now'} \subseteq 0..(Wrap - 1) /\ waited' \in 0..Wrap
    /\ backoff' \in 0..BackoffMax
    /\ BackoffSeeded' /\ Paced'

\* A fresh wait starts now.
LEMMA FreshWait ==
    ASSUME LinkInv, now' = now, last_attempt' = now, waited' = 0,
           backoff' \in BackoffStart..BackoffMax
    PROVE  TimesOk
<1>1. now \in 0..(Wrap - 1)
  BY DEF LinkInv, LinkTypes
<1>2. Elapsed' = 0
  BY <1>1, FreshAttempt DEF Elapsed
<1>3. Paced'
  BY <1>2, TimesAssumption DEF Paced
<1>4. backoff' \in 0..BackoffMax /\ waited' \in 0..Wrap
  BY TimesAssumption
<1> QED
  BY <1>1, <1>3, <1>4 DEF TimesOk, BackoffSeeded

\* The wait goes on, or there is none.
LEMMA SameWait ==
    ASSUME LinkInv, UNCHANGED <<now, last_attempt, waited, backoff>>,
           state' \in Trying => state \in Trying
    PROVE  TimesOk
  BY DEF LinkInv, LinkTypes, TimesOk, BackoffSeeded, Paced, Elapsed

LEMMA ApplyStep == LinkInv /\ SlotInv /\ Apply => LinkInv'
<1> SUFFICES ASSUME LinkInv, SlotInv, NEW c \in Configs,
                    ApplyOff(c) \/ ApplyRejoin(c) \/ ApplyPort(c)
             PROVE  LinkInv'
  BY DEF Apply
<1> USE DEF LinkInv, LinkTypes, envVars
<1>0. settings.enabled \in BOOLEAN /\ settings.port \in Nat \ {0} /\ c.port \in Nat \ {0}
  BY ConfigTypes
<1>1. CASE ApplyOff(c)
  <2>1. settings' = c /\ ~Usable(c) /\ now' = now /\ ap' = ap
    BY <1>1 DEF ApplyOff
  <2>2. CASE WasEnabled
    <3>1. /\ server' = 0 /\ state' = "OFF" /\ drv' = "off" /\ in_use' = {}
          /\ UNCHANGED <<last_attempt, backoff, target, waited>>
      BY <1>1, <2>2, StopServerSlots DEF ApplyOff, Disconnect, WasEnabled
    <3>2. TimesOk
      BY <2>1, <3>1, SameWait DEF Trying
    <3> QED
      BY <2>1, <3>1, <3>2
      DEF TimesOk, ServesOnlyWhileUp, LinkMatchesSettings, RightNetwork, Usable
  <2>3. CASE ~WasEnabled
    <3>1. UNCHANGED <<in_use, server, linkVars>> /\ state = "OFF" /\ drv = "off"
      BY <1>1, <2>3 DEF ApplyOff, slotVars, WasEnabled, LinkMatchesSettings, Usable
    <3>2. TimesOk
      BY <2>1, <3>1, SameWait DEF linkVars
    <3> QED
      BY <2>1, <3>1, <3>2
      DEF linkVars, TimesOk, ServesOnlyWhileUp, LinkMatchesSettings, RightNetwork, Usable
  <2> QED
    BY <2>2, <2>3
<1>2. CASE ApplyRejoin(c)
  <2>1. /\ settings' = c /\ Usable(c) /\ now' = now /\ ap' = ap
        /\ server' = 0 /\ in_use' = {} /\ state' = "CONNECTING" /\ drv' = "joining"
        /\ target' = Credentials(c)
        /\ last_attempt' = now /\ waited' = 0 /\ backoff' = BackoffStart
    BY <1>2, StopServerSlots DEF ApplyRejoin, ConnectStart
  <2>2. TimesOk
    <3>1. BackoffStart \in BackoffStart..BackoffMax
      BY TimesAssumption
    <3> QED
      BY <2>1, <3>1, FreshWait
  <2> QED
    BY <2>1, <2>2
    DEF TimesOk, ServesOnlyWhileUp, LinkMatchesSettings, RightNetwork, Usable
<1>3. CASE ApplyPort(c)
  <2>1. /\ settings' = c /\ Usable(c) /\ now' = now /\ ap' = ap
        /\ settings.enabled /\ Credentials(c) = Credentials(settings)
        /\ UNCHANGED linkVars
    BY <1>3 DEF ApplyPort, WasEnabled, CredentialsChanged
  <2>2. Usable(settings) /\ state # "OFF"
    BY <2>1 DEF Usable, Credentials, LinkMatchesSettings
  <2>3. TimesOk
    BY <2>1, SameWait DEF linkVars
  <2>4. ServesOnlyWhileUp'
    <3>1. CASE c.port # settings.port /\ server # 0 /\ StopServer /\ server' = c.port
      BY <1>0, <2>1, <3>1, StopServerSlots DEF ServesOnlyWhileUp, linkVars
    <3>2. CASE (c.port = settings.port \/ server = 0) /\ UNCHANGED <<slotVars, server>>
      BY <1>0, <2>1, <3>2 DEF ServesOnlyWhileUp, linkVars, slotVars
    <3> QED
      BY <1>3, <3>1, <3>2 DEF ApplyPort
  <2> QED
    BY <2>1, <2>2, <2>3, <2>4
    DEF TimesOk, LinkMatchesSettings, RightNetwork, linkVars
<1> QED
  BY <1>1, <1>2, <1>3

LEMMA NextBackoffSeeded ==
    ASSUME backoff \in BackoffStart..BackoffMax
    PROVE  NextBackoff \in BackoffStart..BackoffMax
  BY TimesAssumption DEF NextBackoff

LEMMA PumpStep == LinkInv /\ SlotInv /\ Pump => LinkInv'
<1> SUFFICES ASSUME LinkInv, SlotInv, Pump PROVE LinkInv'
  OBVIOUS
<1> USE DEF LinkInv, LinkTypes, envVars, PumpLink, Trying
<1>0. settings.port \in Nat \ {0}
  BY ConfigTypes
<1>1. PumpLink => state # "OFF"
  BY DEF LinkMatchesSettings
<1>2. CASE LinkLost
  <2>1. TimesOk
    <3>1. BackoffStart \in BackoffStart..BackoffMax
      BY TimesAssumption
    <3> QED
      BY <1>2, <3>1, FreshWait DEF LinkLost
  <2>2. /\ UNCHANGED <<settings, drv, target, ap>> /\ Usable(settings)
        /\ server' = 0 /\ in_use' = {} /\ state' = "CONNECTING"
    BY <1>2, StopServerSlots DEF LinkLost
  <2> QED
    BY <2>1, <2>2 DEF TimesOk, ServesOnlyWhileUp, LinkMatchesSettings, RightNetwork
<1>3. CASE LinkUp
  <2>1. /\ UNCHANGED <<settings, now, last_attempt, waited, drv, target, ap>>
        /\ Usable(settings) /\ state' = "CONNECTED" /\ backoff' = 0 /\ server = 0
        /\ server' = settings.port /\ in_use' = {}
    BY <1>3, StopServerSlots DEF LinkUp, ServesOnlyWhileUp
  <2>2. TimesOk
    BY <2>1, TimesAssumption DEF TimesOk, BackoffSeeded, Paced
  <2> QED
    BY <1>0, <2>1, <2>2 DEF TimesOk, ServesOnlyWhileUp, LinkMatchesSettings, RightNetwork
<1>4. CASE LinkRetry
  <2>1. TimesOk
    <3>1. NextBackoff \in BackoffStart..BackoffMax
      BY <1>4, NextBackoffSeeded DEF LinkRetry, BackoffSeeded
    <3> QED
      BY <1>4, <3>1, FreshWait DEF LinkRetry
  <2>2. /\ UNCHANGED <<settings, server, in_use, ap>> /\ Usable(settings)
        /\ state \in Trying /\ state' \in Trying
        /\ drv' = "joining" /\ target' = Credentials(settings)
    BY <1>4 DEF LinkRetry, DownState, slotVars
  <2> QED
    BY <2>1, <2>2 DEF TimesOk, ServesOnlyWhileUp, LinkMatchesSettings, RightNetwork
<1>5. CASE LinkWait
  <2>1. /\ UNCHANGED <<settings, server, in_use, now, last_attempt, waited, backoff, target, ap>>
        /\ Usable(settings) /\ state \in Trying /\ state' \in Trying
        /\ drv' = drv \/ (drv \in {"no_ssid", "failed"} /\ drv' = "idle")
    BY <1>5 DEF LinkWait, DownState, slotVars
  <2>2. TimesOk
    BY <2>1, SameWait
  <2> QED
    BY <2>1, <2>2 DEF TimesOk, ServesOnlyWhileUp, LinkMatchesSettings, RightNetwork
<1>6. ASSUME UNCHANGED <<settings, linkVars, server, in_use, ap, now>> PROVE LinkInv'
  <2>1. TimesOk
    BY <1>6, SameWait DEF linkVars
  <2> QED
    BY <1>6, <2>1
    DEF linkVars, TimesOk, ServesOnlyWhileUp, LinkMatchesSettings, RightNetwork
<1>7. CASE LinkSteady \/ NobodyWaits \/ TurnAway
  BY <1>6, <1>7 DEF LinkSteady, NobodyWaits, TurnAway, slotVars
<1>8. CASE AcceptClient
  <2>1. UNCHANGED <<settings, linkVars, server, ap, now>> /\ server # 0
    BY <1>8 DEF AcceptClient
  <2>2. TimesOk
    BY <2>1, SameWait DEF linkVars
  <2> QED
    BY <2>1, <2>2 DEF linkVars, TimesOk, ServesOnlyWhileUp, LinkMatchesSettings, RightNetwork
<1>9. CASE PumpClient
  <2>1. UNCHANGED <<settings, linkVars, server, ap, now>> /\ in_use' \subseteq in_use
    BY <1>9 DEF PumpClient, DropClient, slotVars
  <2>2. TimesOk
    BY <2>1, SameWait DEF linkVars
  <2> QED
    BY <2>1, <2>2 DEF linkVars, TimesOk, ServesOnlyWhileUp, LinkMatchesSettings, RightNetwork
<1> QED
  BY <1>2, <1>3, <1>4, <1>5, <1>7, <1>8, <1>9 DEF Pump

LEMMA EnvironmentStep == LinkInv /\ SlotInv /\ Environment => LinkInv'
<1> SUFFICES ASSUME LinkInv, SlotInv, Environment PROVE LinkInv'
  OBVIOUS
<1> USE DEF LinkInv, LinkTypes, envVars, slotVars, linkVars
<1>1. ASSUME UNCHANGED <<settings, state, target, server, last_attempt, backoff, waited, now>>,
             in_use' \subseteq in_use,
             drv' \in {"off", "idle", "joining", "joined", "no_ssid", "failed"},
             drv = "off" <=> drv' = "off", ap' \in {"good", "absent", "rejects"}
      PROVE  LinkInv'
  <2>1. TimesOk
    BY <1>1, SameWait
  <2> QED
    BY <1>1, <2>1 DEF TimesOk, ServesOnlyWhileUp, LinkMatchesSettings, RightNetwork
<1>2. CASE DriverJoins \/ DriverDrops
  BY <1>1, <1>2 DEF DriverJoins, DriverDrops
<1>3. CASE NetworkChanges
  BY <1>1, <1>3 DEF NetworkChanges
<1>4. CASE PeerArrives \/ OthersChange
  BY <1>1, <1>4 DEF PeerArrives, OthersChange
<1>5. ASSUME NEW i \in Slots, PeerLeaves(i) \/ SendFails(i) PROVE LinkInv'
  BY <1>1, <1>5 DEF PeerLeaves, SendFails
<1>6. CASE Tick
  <2>1. /\ UNCHANGED <<settings, state, target, server, last_attempt, backoff, drv, ap, in_use>>
        /\ state \in Trying => waited < Wrap - 1
        /\ now' = (now + 1) % Wrap /\ waited' = IF waited < Wrap THEN waited + 1 ELSE waited
    BY <1>6 DEF Tick
  <2>2. now' \in 0..(Wrap - 1) /\ waited' \in 0..Wrap
    <3>1. Wrap \in Nat \ {0} /\ now \in Nat
      BY TimesAssumption
    <3>2. (now + 1) % Wrap \in 0..(Wrap - 1)
      BY <3>1, Z3
    <3> QED
      BY <2>1, <3>1, <3>2
  <2>3. Paced'
    <3>1. CASE state \in Trying
      <4>1. Elapsed = waited /\ waited < Wrap - 1 /\ waited' = waited + 1
        BY <2>1, <3>1, TimesAssumption DEF Paced
      <4>2. Elapsed' = Elapsed + 1
        BY <2>1, <4>1, ElapsedTicks DEF Elapsed
      <4> QED
        BY <4>1, <4>2, TimesAssumption DEF Paced
    <3>2. CASE state \notin Trying
      BY <2>1, <3>2 DEF Paced, Trying
    <3> QED
      BY <3>1, <3>2
  <2> QED
    BY <2>1, <2>2, <2>3
    DEF BackoffSeeded, Trying, ServesOnlyWhileUp, LinkMatchesSettings, RightNetwork
<1> QED
  BY <1>2, <1>3, <1>4, <1>5, <1>6 DEF Environment

LEMMA LinkStep == LinkInv /\ SlotInv /\ [Next]_vars => LinkInv'
<1> SUFFICES ASSUME LinkInv, UNCHANGED vars PROVE LinkInv'
  BY ApplyStep, PumpStep, EnvironmentStep DEF Next
<1>1. UNCHANGED <<settings, linkVars, server, in_use, ap, now>>
  BY DEF vars, slotVars, envVars
<1>2. TimesOk
  BY <1>1, SameWait DEF linkVars
<1> QED
  BY <1>1, <1>2
  DEF LinkInv, LinkTypes, linkVars, TimesOk, ServesOnlyWhileUp, LinkMatchesSettings,
      RightNetwork

LEMMA LinkStart == Init => LinkInv
<1> SUFFICES ASSUME Init PROVE LinkInv
  OBVIOUS
<1>1. settings \in Configs /\ ~settings.enabled
  BY DEF Init
<1>2. 0 \in 0..(Wrap - 1) /\ 0 \in 0..Wrap /\ 0 \in 0..BackoffMax
  BY TimesAssumption
<1>3. LinkTypes
  BY <1>1, <1>2 DEF Init, LinkTypes
<1> QED
  BY <1>1, <1>3
  DEF Init, LinkInv, ServesOnlyWhileUp, LinkMatchesSettings, RightNetwork, BackoffSeeded,
      Paced, Trying, Usable

LEMMA WifiInvariance == Spec => [](SlotInv /\ LinkInv)
  BY SlotStart, SlotStep, LinkStart, LinkStep, PTL DEF Spec

\* The listener is up, on the port of the settings, exactly while the link is,
\* and no socket outlives it, after every interleaving of settings changes,
\* link failures, retries and clients.
THEOREM ListenerFollowsLink == Spec => []ServesOnlyWhileUp
<1>1. LinkInv => ServesOnlyWhileUp
  BY DEF LinkInv
<1> QED
  BY <1>1, WifiInvariance, PTL

\* Settings that leave no network to be on end the link, and a join still in
\* progress too.
THEOREM LinkFollowsSettings == Spec => []LinkMatchesSettings
<1>1. LinkInv => LinkMatchesSettings
  BY DEF LinkInv
<1> QED
  BY <1>1, WifiInvariance, PTL

\* The driver never works with credentials that are no longer the settings'.
THEOREM CredentialsInForce == Spec => []RightNetwork
<1>1. LinkInv => RightNetwork
  BY DEF LinkInv
<1> QED
  BY <1>1, WifiInvariance, PTL

\* No path into a retrying state leaves the wait unseeded, for every floor,
\* cap and counter width.
THEOREM BackoffIsSeeded == Spec => []BackoffSeeded
<1>1. LinkInv => BackoffSeeded
  BY DEF LinkInv
<1> QED
  BY <1>1, WifiInvariance, PTL

\* The types, of which the count of clients rests on the slots.
THEOREM WifiTypes == Spec => []TypeOK
<1>1. SlotInv /\ LinkInv => TypeOK
  <2> SUFFICES ASSUME SlotInv, LinkInv PROVE TypeOK
    OBVIOUS
  <2>1. num_clients \in 0..MaxClients
    BY SlotsFinite DEF SlotInv
  <2>2. reg \in [Slots -> 0..1]
    BY DEF SlotInv, OnceEach
  <2>3. server \in {0} \cup {c.port : c \in Configs}
    BY DEF LinkInv, LinkTypes, ServesOnlyWhileUp
  <2> QED
    BY <2>1, <2>2, <2>3 DEF SlotInv, LinkInv, LinkTypes, TypeOK
<1> QED
  BY <1>1, WifiInvariance, PTL

\* No attempt comes before its wait is over in real time, across rollovers of
\* the counter: the counter's difference is the time waited.
THEOREM RetriesArePaced == Spec => RetryPaced
<1> DEFINE Early == /\ settings' = settings
                    /\ {state, state'} \subseteq {"CONNECTING", "AUTH_FAIL", "ERROR"}
                    /\ waited' < waited \/ backoff' # backoff
<1>1. SlotInv /\ LinkInv /\ [Next]_vars => [Early => waited >= backoff]_vars
  <2> SUFFICES ASSUME SlotInv, LinkInv, Next, Early PROVE waited >= backoff
    OBVIOUS
  <2>0. waited \in Nat /\ ~(waited < waited)
    BY DEF LinkInv, LinkTypes
  <2>1. CASE LinkRetry
    <3>1. Elapsed = waited /\ RetryDue
      BY <2>1 DEF LinkRetry, LinkInv, Paced
    <3> QED
      BY <3>1 DEF RetryDue, Elapsed
  <2>2. CASE Apply
    <3>1. ~ \E c \in Configs : ApplyRejoin(c)
      BY DEF ApplyRejoin, CredentialsChanged, WasEnabled, Usable, LinkInv, LinkMatchesSettings
    <3> QED
      BY <2>0, <2>2, <3>1
      DEF Apply, ApplyOff, ApplyPort, Disconnect, linkVars
  <2>3. CASE Tick
    BY <2>0, <2>3 DEF Tick
  <2>4. CASE ~(LinkRetry \/ Apply \/ Tick)
    BY <2>0, <2>4
    DEF Next, Pump, LinkLost, LinkUp, LinkWait, LinkSteady, NobodyWaits, AcceptClient,
        TurnAway, PumpClient, Environment, DriverJoins, DriverDrops, NetworkChanges,
        PeerArrives, OthersChange, PeerLeaves, SendFails, linkVars
  <2> QED
    BY <2>1, <2>2, <2>3, <2>4
<1> QED
  BY <1>1, WifiInvariance, PTL DEF Spec, RetryPaced
=============================================================================
