------------------------- MODULE BleCentralsProofs -------------------------
(* A central is only served in its own session on every slot that has its   *)
(* handle to itself, for any number of centrals, handles and slots.  A slot *)
(* that shared its handle keeps none of this, and none of it depends on the *)
(* slots that did: the invariant speaks of the others one by one, and of a  *)
(* shared one again once it is claimed with nothing of the old left in it.  *)
EXTENDS BleCentrals, FiniteSetTheorems, WellFoundedInduction, TLAPS

LEMMA LeastElement ==
    ASSUME NEW T, T \subseteq Nat, T # {}
    PROVE  Min(T) \in T
<1> DEFINE R == OpToRel(<, Nat)
<1>1. IsWellFoundedOn(R, Nat)
  BY NatLessThanWellFounded
<1>2. \A x, y \in Nat : y < x => <<y, x>> \in R
  BY DEF OpToRel
<1> HIDE DEF R
<1>3. PICK x \in T : \A y \in T : ~ (<<y, x>> \in R)
  BY <1>1, WFMin
<1>4. ASSUME NEW y \in T PROVE x <= y
  <2>1. x \in Nat /\ y \in Nat
    OBVIOUS
  <2>2. ~ (y < x)
    BY <1>2, <1>3, <2>1
  <2> QED
    BY <2>1, <2>2
<1> QED
  BY <1>4 DEF Min

Kinds == {"auth", "gated"}

Requests == [from : Centrals, what : Kinds]

ConnectionSlot ==
    [in_use : BOOLEAN, handle : Handles \cup {None}, pending : BOOLEAN,
     registered : BOOLEAN, session : Centrals \cup {None}, subscribed : BOOLEAN,
     rx : Seq(Requests)]

BleTypes ==
    /\ link \in [Handles -> Centrals \cup {None}]
    /\ slot \in [ConnSlots -> ConnectionSlot]
    /\ host \in [pc : {"idle", "pending", "session", "rx", "flag"}, at : ConnSlots]
    /\ loop \in [pc : {"slot", "released", "drain"}, at : ConnSlots, left : Nat]

\* The slot the host task is resetting, or about to flag.
Claiming(i) == host.pc \in {"pending", "session", "rx"} /\ host.at = i
Flagging(i) == host.pc = "flag" /\ host.at = i
Releasing(i) == loop.pc = "released" /\ loop.at = i

\* Nothing of a slot but the session flag outlives its connection.
FreeIsEmpty ==
    \A i \in ConnSlots \ shared : ~slot[i].in_use =>
        slot[i].rx = <<>> /\ ~slot[i].pending /\ ~Claiming(i) /\ ~Flagging(i) /\ ~Releasing(i)

\* A slot in use has a handle.
HandleIsSet == \A i \in ConnSlots : slot[i].in_use => slot[i].handle \in Handles

\* A connection's handle stays unlinked from the moment the link is down
\* until the slot is free.
DownUntilFree ==
    \A i \in ConnSlots \ shared :
        /\ slot[i].pending \/ Flagging(i) \/ Releasing(i) =>
              slot[i].in_use /\ link[slot[i].handle] = None /\ ~Claiming(i)
        /\ slot[i].pending => ~Flagging(i)
        /\ Releasing(i) => ~slot[i].pending /\ ~Flagging(i) /\ slot[i].rx = <<>>

\* A claimed slot has nothing queued until the last of its fields is reset.
ClaimIsEmpty ==
    \A i \in ConnSlots \ shared : Claiming(i) =>
        /\ slot[i].in_use /\ slot[i].rx = <<>> /\ ~slot[i].pending
        /\ link[slot[i].handle] # None
        /\ host.pc = "rx" => slot[i].session = None

\* One central is behind all a connection holds: the link, as long as it is
\* up, the session, and every request queued.
OwnedBy(i, c) ==
    /\ link[slot[i].handle] \in {c, None}
    /\ slot[i].session \in {c, None}
    /\ slot[i].rx \in Seq([from : {c}, what : Kinds])

Settled(i) == slot[i].in_use /\ ~(host.pc \in {"pending", "session"} /\ host.at = i)

OneOwner == \A i \in ConnSlots \ shared : Settled(i) => \E c \in Centrals : OwnedBy(i, c)

\* pump() drains a slot that is in use, and `served` is of that slot.
Draining ==
    /\ loop.pc = "drain" => slot[loop.at].in_use
    /\ served # None => loop.pc = "drain"

BleInv ==
    /\ BleTypes /\ FreeIsEmpty /\ HandleIsSet /\ DownUntilFree /\ ClaimIsEmpty /\ OneOwner

\* find() and claim() name a slot that is held by the handle, or free.
LEMMA Members ==
    ASSUME NEW h \in Handles
    PROVE  /\ Holders(h) # {} => /\ Holder(h) \in ConnSlots /\ slot[Holder(h)].in_use
                                 /\ slot[Holder(h)].handle = h
           /\ Free # {} => Min(Free) \in ConnSlots /\ ~slot[Min(Free)].in_use
<1>1. ConnSlots \subseteq Nat
  BY CentralsAssumption DEF ConnSlots
<1>2. ASSUME Holders(h) # {} PROVE Holder(h) \in Holders(h)
  BY <1>1, <1>2, LeastElement DEF Holder, Holders
<1>3. ASSUME Free # {} PROVE Min(Free) \in Free
  BY <1>1, <1>3, LeastElement DEF Free
<1> QED
  BY <1>2, <1>3 DEF Holders, Free

LEMMA NextAt ==
    ASSUME loop.at \in ConnSlots
    PROVE  NextSlot \in [pc : {"slot"}, at : ConnSlots, left : Nat]
<1>1. \A m \in Nat \ {0} : \A a \in Nat : 1 + (a % m) \in 1..m
  BY Z3
<1>2. loop.at \in Nat /\ MaxCentrals \in Nat \ {0}
  BY CentralsAssumption DEF ConnSlots
<1>3. 1 + (loop.at % MaxCentrals) \in ConnSlots
  BY <1>1, <1>2, Zenon DEF ConnSlots
<1> QED
  BY <1>3 DEF NextSlot

LEMMA IdleHost ==
    HostIdle \in [pc : {"idle", "pending", "session", "rx", "flag"}, at : ConnSlots]
BY CentralsAssumption DEF HostIdle, ConnSlots

LEMMA InitiallyInv == BleInit => BleInv
<1> SUFFICES ASSUME BleInit PROVE BleInv
  OBVIOUS
<1> USE DEF BleInit, HostIdle
<1>1. 1 \in ConnSlots
  BY CentralsAssumption DEF ConnSlots
<1>2. <<>> \in Seq(Requests)
  OBVIOUS
<1>3. BleTypes
  <2>1. \A i \in ConnSlots : slot[i] \in ConnectionSlot
    BY <1>2 DEF ConnectionSlot
  <2>2. slot \in [ConnSlots -> ConnectionSlot]
    BY <2>1
  <2> QED
    BY <1>1, <2>2 DEF BleTypes
<1>4. \A i \in ConnSlots : ~slot[i].in_use /\ ~slot[i].pending /\ slot[i].rx = <<>>
  OBVIOUS
<1>5. host.pc = "idle" /\ loop.pc = "slot"
  OBVIOUS
<1> HIDE DEF BleInit
<1> QED
  BY <1>3, <1>4, <1>5
  DEF BleInv, FreeIsEmpty, HandleIsSet, DownUntilFree, ClaimIsEmpty, OneOwner, Claiming,
      Flagging, Releasing, Settled

LEMMA OnConnectInv ==
    ASSUME BleInv, NEW h \in Handles, NEW c \in Centrals, OnConnect(h, c)
    PROVE  BleInv'
<1> DEFINE j == Min(Free)
           t == [slot[j] EXCEPT !.handle = h, !.in_use = TRUE]
<1>0. BleTypes
  BY DEF BleInv
<1>1. j \in ConnSlots /\ ~slot[j].in_use
  BY Members DEF OnConnect
<1>2. /\ host = HostIdle /\ link[h] = None
      /\ link' = [link EXCEPT ![h] = c] /\ host' = [pc |-> "pending", at |-> j]
      /\ UNCHANGED <<loop, served>>
  BY DEF OnConnect
<1>3. slot' = [slot EXCEPT ![j] = t]
  BY <1>0, <1>1 DEF OnConnect, BleTypes
<1>4. /\ t \in ConnectionSlot /\ t.in_use /\ t.handle = h /\ t.rx = slot[j].rx
      /\ t.pending = slot[j].pending
  BY <1>0, <1>1 DEF BleTypes, ConnectionSlot
<1>7. /\ \A i \in ConnSlots \ shared' : i # j => i \notin shared
      /\ \A i \in ConnSlots \ shared' : slot[i].in_use => slot[i].handle # h
      /\ j \notin shared' => j \notin shared \/ Clean(j)
  BY DEF OnConnect, Holders
<1> HIDE DEF j, t
<1>5. slot'[j] = t /\ \A i \in ConnSlots : i # j => slot'[i] = slot[i]
  BY <1>0, <1>1, <1>3 DEF BleTypes
<1>6. BleTypes'
  BY <1>0, <1>1, <1>2, <1>3, <1>4 DEF BleTypes
<1>8. j \notin shared' => slot[j].rx = <<>> /\ ~slot[j].pending /\ ~Releasing(j)
  BY <1>1, <1>7 DEF BleInv, FreeIsEmpty, Clean, Releasing
<1>9. FreeIsEmpty'
  BY <1>1, <1>2, <1>4, <1>5, <1>7, <1>8
  DEF BleInv, FreeIsEmpty, Claiming, Flagging, Releasing, HostIdle
<1>10. HandleIsSet'
  BY <1>1, <1>4, <1>5 DEF BleInv, HandleIsSet
<1>11. DownUntilFree'
  BY <1>0, <1>1, <1>2, <1>4, <1>5, <1>7, <1>8
  DEF BleInv, BleTypes, DownUntilFree, HandleIsSet, Claiming, Flagging, Releasing, HostIdle
<1>12. ClaimIsEmpty'
  BY <1>0, <1>1, <1>2, <1>4, <1>5, <1>8, CentralsAssumption DEF ClaimIsEmpty, Claiming, BleTypes
<1>13. OneOwner'
  <2> SUFFICES ASSUME NEW i \in ConnSlots \ shared', Settled(i)'
               PROVE  \E e \in Centrals : OwnedBy(i, e)'
    BY DEF OneOwner
  <2>1. i # j /\ i \notin shared /\ slot'[i] = slot[i] /\ Settled(i)
    BY <1>2, <1>5, <1>7 DEF Settled, HostIdle
  <2>2. slot[i].handle # h /\ slot[i].handle \in Handles
    BY <1>7, <2>1 DEF Settled, BleInv, HandleIsSet
  <2>3. link'[slot[i].handle] = link[slot[i].handle]
    BY <1>0, <1>2, <2>2 DEF BleTypes
  <2>4. PICK d \in Centrals : OwnedBy(i, d)
    BY <2>1 DEF BleInv, OneOwner
  <2> QED
    BY <2>1, <2>3, <2>4 DEF OwnedBy
<1> QED
  BY <1>6, <1>9, <1>10, <1>11, <1>12, <1>13 DEF BleInv

LEMMA ClaimPendingInv ==
    ASSUME BleInv, ClaimPending
    PROVE  BleInv'
<1> DEFINE j == host.at
           t == [slot[j] EXCEPT !.pending = FALSE]
<1>0. BleTypes
  BY DEF BleInv
<1>1. j \in ConnSlots /\ Claiming(j)
  BY <1>0 DEF ClaimPending, BleTypes, Claiming
<1>2. /\ host.pc = "pending" /\ host'.pc = "session" /\ host'.at = j
      /\ host' = [host EXCEPT !.pc = "session"] /\ UNCHANGED <<link, loop, served, shared>>
  BY <1>0 DEF ClaimPending, BleTypes
<1>3. slot' = [slot EXCEPT ![j] = t]
  BY <1>0, <1>1 DEF ClaimPending, BleTypes, BleTypes
<1>4. /\ t \in ConnectionSlot /\ ~t.pending /\ t.in_use = slot[j].in_use
      /\ t.handle = slot[j].handle
      /\ t.session = slot[j].session /\ t.rx = slot[j].rx
  <2>1. slot[j] \in ConnectionSlot
    BY <1>0, <1>1 DEF BleTypes
  <2> HIDE DEF j
  <2> QED
    BY <2>1 DEF ConnectionSlot
<1> HIDE DEF j, t
<1>5. slot'[j] = t /\ \A i \in ConnSlots : i # j => slot'[i] = slot[i]
  BY <1>0, <1>1, <1>3 DEF BleTypes
<1>6. BleTypes'
  BY <1>0, <1>1, <1>2, <1>3, <1>4, NextAt, CentralsAssumption DEF BleTypes
<1>10. FreeIsEmpty'
  BY <1>0, <1>1, <1>2, <1>4, <1>5
  DEF BleInv, BleTypes, FreeIsEmpty, Claiming, Flagging, Releasing, HostIdle, NextSlot
<1>11. HandleIsSet'
  BY <1>0, <1>1, <1>2, <1>4, <1>5
  DEF BleInv, BleTypes, HandleIsSet, FreeIsEmpty, HostIdle, NextSlot
<1>12. DownUntilFree'
  BY <1>0, <1>1, <1>2, <1>4, <1>5
  DEF BleInv, BleTypes, DownUntilFree, HandleIsSet, Claiming, Flagging, Releasing,
      HostIdle, NextSlot
<1>13. ClaimIsEmpty'
  BY <1>0, <1>1, <1>2, <1>4, <1>5
  DEF BleInv, BleTypes, ClaimIsEmpty, DownUntilFree, Claiming, Flagging, Releasing,
      HostIdle, NextSlot
<1>14. OneOwner'
  BY <1>0, <1>1, <1>2, <1>4, <1>5
  DEF BleInv, BleTypes, OneOwner, OwnedBy, Settled, ClaimIsEmpty, Claiming,
      FreeIsEmpty, HostIdle, NextSlot
<1> QED
  BY <1>6, <1>10, <1>11, <1>12, <1>13, <1>14 DEF BleInv

LEMMA ClaimSessionInv ==
    ASSUME BleInv, ClaimSession
    PROVE  BleInv'
<1> DEFINE j == host.at
           t == [slot[j] EXCEPT !.session = None, !.subscribed = FALSE]
<1>0. BleTypes
  BY DEF BleInv
<1>1. j \in ConnSlots /\ Claiming(j)
  BY <1>0 DEF ClaimSession, BleTypes, Claiming
<1>2. /\ host.pc = "session" /\ host'.pc = "rx" /\ host'.at = j
      /\ host' = [host EXCEPT !.pc = "rx"] /\ UNCHANGED <<link, loop, served, shared>>
  BY <1>0 DEF ClaimSession, BleTypes
<1>3. slot' = [slot EXCEPT ![j] = t]
  BY <1>0, <1>1 DEF ClaimSession, BleTypes, BleTypes
<1>4. /\ t \in ConnectionSlot /\ t.session = None /\ t.in_use = slot[j].in_use
      /\ t.handle = slot[j].handle
      /\ t.pending = slot[j].pending /\ t.rx = slot[j].rx
  <2>1. slot[j] \in ConnectionSlot
    BY <1>0, <1>1 DEF BleTypes
  <2> HIDE DEF j
  <2> QED
    BY <2>1 DEF ConnectionSlot
<1> HIDE DEF j, t
<1>5. slot'[j] = t /\ \A i \in ConnSlots : i # j => slot'[i] = slot[i]
  BY <1>0, <1>1, <1>3 DEF BleTypes
<1>6. BleTypes'
  BY <1>0, <1>1, <1>2, <1>3, <1>4, NextAt, CentralsAssumption DEF BleTypes
<1>10. FreeIsEmpty'
  BY <1>0, <1>1, <1>2, <1>4, <1>5
  DEF BleInv, BleTypes, FreeIsEmpty, Claiming, Flagging, Releasing, HostIdle, NextSlot
<1>11. HandleIsSet'
  BY <1>0, <1>1, <1>2, <1>4, <1>5
  DEF BleInv, BleTypes, HandleIsSet, FreeIsEmpty, HostIdle, NextSlot
<1>12. DownUntilFree'
  BY <1>0, <1>1, <1>2, <1>4, <1>5
  DEF BleInv, BleTypes, DownUntilFree, HandleIsSet, Claiming, Flagging, Releasing,
      HostIdle, NextSlot
<1>13. ClaimIsEmpty'
  BY <1>0, <1>1, <1>2, <1>4, <1>5
  DEF BleInv, BleTypes, ClaimIsEmpty, DownUntilFree, Claiming, Flagging, Releasing,
      HostIdle, NextSlot
<1>7. ASSUME j \notin shared
      PROVE  link[t.handle] \in Centrals /\ t.session = None /\ t.rx = <<>>
  <2>1. t.handle \in Handles /\ link[t.handle] # None
    BY <1>1, <1>4, <1>7 DEF BleInv, HandleIsSet, ClaimIsEmpty
  <2>2. t.session = None /\ t.rx = <<>>
    BY <1>1, <1>2, <1>4, <1>7 DEF BleInv, ClaimIsEmpty
  <2> QED
    BY <1>0, <2>1, <2>2 DEF BleTypes
<1>8. \A c \in Centrals : <<>> \in Seq([from : {c}, what : Kinds])
  OBVIOUS
<1>14. OneOwner'
  <2> SUFFICES ASSUME NEW i \in ConnSlots \ shared, Settled(i)'
               PROVE  \E c \in Centrals : OwnedBy(i, c)'
    BY <1>2 DEF OneOwner
  <2>1. CASE i # j
    <3>1. Settled(i)
      BY <1>1, <1>2, <1>5, <2>1 DEF Settled, Claiming, HostIdle
    <3> QED
      BY <1>2, <1>5, <2>1, <3>1 DEF BleInv, OneOwner, OwnedBy
  <2>2. CASE i = j
    <3>1. PICK c \in Centrals : link[t.handle] = c
      BY <1>7, <2>2
    <3>2. OwnedBy(i, c)'
      BY <1>2, <1>5, <1>7, <1>8, <2>2, <3>1 DEF OwnedBy
    <3> QED
      BY <3>2
  <2> QED
    BY <2>1, <2>2
<1> QED
  BY <1>6, <1>10, <1>11, <1>12, <1>13, <1>14 DEF BleInv

LEMMA ClaimRxInv ==
    ASSUME BleInv, ClaimRx
    PROVE  BleInv'
<1> DEFINE j == host.at
           t == [slot[j] EXCEPT !.rx = <<>>]
<1>0. BleTypes
  BY DEF BleInv
<1>1. j \in ConnSlots /\ Claiming(j)
  BY <1>0 DEF ClaimRx, BleTypes, Claiming
<1>2. host.pc = "rx" /\ host' = HostIdle /\ UNCHANGED <<link, loop, served, shared>>
  BY <1>0 DEF ClaimRx
<1>3. slot' = [slot EXCEPT ![j] = t]
  BY <1>0, <1>1 DEF ClaimRx, BleTypes
<1>4. /\ t \in ConnectionSlot /\ t.rx = <<>> /\ t.in_use = slot[j].in_use
      /\ t.handle = slot[j].handle
      /\ t.pending = slot[j].pending /\ t.session = slot[j].session
  <2>1. slot[j] \in ConnectionSlot
    BY <1>0, <1>1 DEF BleTypes
  <2>2. <<>> \in Seq(Requests)
    OBVIOUS
  <2> HIDE DEF j
  <2> QED
    BY <2>1, <2>2 DEF ConnectionSlot
<1> HIDE DEF j, t
<1>5. slot'[j] = t /\ \A i \in ConnSlots : i # j => slot'[i] = slot[i]
  BY <1>0, <1>1, <1>3 DEF BleTypes
<1>6. BleTypes'
  BY <1>0, <1>1, <1>2, <1>3, <1>4, IdleHost DEF BleTypes
<1>10. FreeIsEmpty'
  BY <1>0, <1>1, <1>2, <1>4, <1>5
  DEF BleInv, BleTypes, FreeIsEmpty, Claiming, Flagging, Releasing, HostIdle, NextSlot
<1>11. HandleIsSet'
  BY <1>0, <1>1, <1>2, <1>4, <1>5
  DEF BleInv, BleTypes, HandleIsSet, FreeIsEmpty, HostIdle, NextSlot
<1>12. DownUntilFree'
  BY <1>0, <1>1, <1>2, <1>4, <1>5
  DEF BleInv, BleTypes, DownUntilFree, HandleIsSet, Claiming, Flagging, Releasing,
      HostIdle, NextSlot
<1>13. ClaimIsEmpty'
  BY <1>0, <1>1, <1>2, <1>4, <1>5
  DEF BleInv, BleTypes, ClaimIsEmpty, DownUntilFree, Claiming, Flagging, Releasing,
      HostIdle, NextSlot
<1>7. ASSUME j \notin shared
      PROVE  link[t.handle] \in Centrals /\ t.session = None /\ t.rx = <<>>
  <2>1. t.handle \in Handles /\ link[t.handle] # None
    BY <1>1, <1>4, <1>7 DEF BleInv, HandleIsSet, ClaimIsEmpty
  <2>2. t.session = None /\ t.rx = <<>>
    BY <1>1, <1>2, <1>4, <1>7 DEF BleInv, ClaimIsEmpty
  <2> QED
    BY <1>0, <2>1, <2>2 DEF BleTypes
<1>8. \A c \in Centrals : <<>> \in Seq([from : {c}, what : Kinds])
  OBVIOUS
<1>14. OneOwner'
  <2> SUFFICES ASSUME NEW i \in ConnSlots \ shared, Settled(i)'
               PROVE  \E c \in Centrals : OwnedBy(i, c)'
    BY <1>2 DEF OneOwner
  <2>1. CASE i # j
    <3>1. Settled(i)
      BY <1>1, <1>2, <1>5, <2>1 DEF Settled, Claiming, HostIdle
    <3> QED
      BY <1>2, <1>5, <2>1, <3>1 DEF BleInv, OneOwner, OwnedBy
  <2>2. CASE i = j
    <3>1. PICK c \in Centrals : link[t.handle] = c
      BY <1>7, <2>2
    <3>2. OwnedBy(i, c)'
      BY <1>2, <1>5, <1>7, <1>8, <2>2, <3>1 DEF OwnedBy
    <3> QED
      BY <3>2
  <2> QED
    BY <2>1, <2>2
<1> QED
  BY <1>6, <1>10, <1>11, <1>12, <1>13, <1>14 DEF BleInv

LEMMA FlagDisconnectInv ==
    ASSUME BleInv, FlagDisconnect
    PROVE  BleInv'
<1> DEFINE j == host.at
           t == [slot[j] EXCEPT !.pending = TRUE]
<1>0. BleTypes
  BY DEF BleInv
<1>1. j \in ConnSlots /\ Flagging(j)
  BY <1>0 DEF FlagDisconnect, BleTypes, Flagging
<1>2. host.pc = "flag" /\ host' = HostIdle /\ UNCHANGED <<link, loop, served, shared>>
  BY <1>0 DEF FlagDisconnect
<1>3. slot' = [slot EXCEPT ![j] = t]
  BY <1>0, <1>1 DEF FlagDisconnect, BleTypes
<1>4. /\ t \in ConnectionSlot /\ t.pending /\ t.in_use = slot[j].in_use /\ t.handle = slot[j].handle
      /\ t.session = slot[j].session /\ t.rx = slot[j].rx
  <2>1. slot[j] \in ConnectionSlot
    BY <1>0, <1>1 DEF BleTypes
  <2> HIDE DEF j
  <2> QED
    BY <2>1 DEF ConnectionSlot
<1> HIDE DEF j, t
<1>5. slot'[j] = t /\ \A i \in ConnSlots : i # j => slot'[i] = slot[i]
  BY <1>0, <1>1, <1>3 DEF BleTypes
<1>6. BleTypes'
  BY <1>0, <1>1, <1>2, <1>3, <1>4, IdleHost DEF BleTypes
<1>10. FreeIsEmpty'
  BY <1>0, <1>1, <1>2, <1>4, <1>5
  DEF BleInv, BleTypes, FreeIsEmpty, Claiming, Flagging, Releasing, HostIdle, NextSlot
<1>11. HandleIsSet'
  BY <1>0, <1>1, <1>2, <1>4, <1>5
  DEF BleInv, BleTypes, HandleIsSet, FreeIsEmpty, HostIdle, NextSlot
<1>12. DownUntilFree'
  BY <1>0, <1>1, <1>2, <1>4, <1>5
  DEF BleInv, BleTypes, DownUntilFree, HandleIsSet, Claiming, Flagging, Releasing,
      HostIdle, NextSlot
<1>13. ClaimIsEmpty'
  BY <1>0, <1>1, <1>2, <1>4, <1>5
  DEF BleInv, BleTypes, ClaimIsEmpty, DownUntilFree, Claiming, Flagging, Releasing,
      HostIdle, NextSlot
<1>14. OneOwner'
  <2> SUFFICES ASSUME NEW i \in ConnSlots \ shared, Settled(i)'
               PROVE  \E c \in Centrals : OwnedBy(i, c)'
    BY <1>2 DEF OneOwner
  <2>1. Settled(i)
    BY <1>1, <1>2, <1>4, <1>5 DEF Settled, Claiming, HostIdle
  <2>2. PICK c \in Centrals : OwnedBy(i, c)
    BY <2>1 DEF BleInv, OneOwner
  <2> QED
    BY <1>1, <1>2, <1>4, <1>5, <2>2 DEF OwnedBy
<1> QED
  BY <1>6, <1>10, <1>11, <1>12, <1>13, <1>14 DEF BleInv

LEMMA OnSubscribeInv ==
    ASSUME BleInv, NEW h \in Handles, OnSubscribe(h)
    PROVE  BleInv'
<1> DEFINE j == Holder(h)
           t == [slot[j] EXCEPT !.subscribed = ~@]
<1>0. BleTypes
  BY DEF BleInv
<1>1. /\ j \in ConnSlots /\ slot[j].in_use /\ slot[j].handle = h
      /\ host = HostIdle /\ link[h] # None
  BY Members DEF OnSubscribe
<1>2. host = HostIdle /\ UNCHANGED <<link, host, loop, served, shared>>
  BY <1>0 DEF OnSubscribe
<1>3. slot' = [slot EXCEPT ![j] = t]
  BY <1>0, <1>1 DEF OnSubscribe, BleTypes
<1>4. /\ t \in ConnectionSlot /\ t.in_use = slot[j].in_use /\ t.handle = slot[j].handle
      /\ t.pending = slot[j].pending
      /\ t.session = slot[j].session /\ t.rx = slot[j].rx
  <2>1. slot[j] \in ConnectionSlot
    BY <1>0, <1>1 DEF BleTypes
  <2> HIDE DEF j
  <2> QED
    BY <2>1 DEF ConnectionSlot
<1> HIDE DEF j, t
<1>5. slot'[j] = t /\ \A i \in ConnSlots : i # j => slot'[i] = slot[i]
  BY <1>0, <1>1, <1>3 DEF BleTypes
<1>6. BleTypes'
  <2>1. slot \in [ConnSlots -> ConnectionSlot]
    BY <1>0 DEF BleTypes
  <2>2. slot' \in [ConnSlots -> ConnectionSlot]
    BY ONLY <1>1, <1>3, <1>4, <2>1
  <2> QED
    BY <1>0, <1>2, <2>2 DEF BleTypes
<1>7. \A i \in ConnSlots :
        /\ slot'[i].in_use = slot[i].in_use /\ slot'[i].handle = slot[i].handle
        /\ slot'[i].pending = slot[i].pending
        /\ i # j => slot'[i].rx = slot[i].rx
  BY <1>4, <1>5
<1>8. \A i \in ConnSlots :
        /\ ~Claiming(i) /\ ~Claiming(i)' /\ ~Flagging(i) /\ ~Flagging(i)'
        /\ Releasing(i)' = Releasing(i)
  BY <1>2 DEF Claiming, Flagging, Releasing, HostIdle
<1>9. j \notin shared => ~Releasing(j)
  BY <1>1 DEF BleInv, DownUntilFree
<1>10. FreeIsEmpty'
  BY <1>1, <1>2, <1>7, <1>8 DEF BleInv, FreeIsEmpty
<1>11. HandleIsSet'
  BY <1>7 DEF BleInv, HandleIsSet
<1>12. DownUntilFree'
  BY <1>2, <1>7, <1>8, <1>9 DEF BleInv, DownUntilFree
<1>13. ClaimIsEmpty'
  BY <1>8 DEF ClaimIsEmpty
<1>14. OneOwner'
  <2> SUFFICES ASSUME NEW i \in ConnSlots \ shared, Settled(i)'
               PROVE  \E c \in Centrals : OwnedBy(i, c)'
    BY <1>2 DEF OneOwner
  <2>1. Settled(i)
    BY <1>1, <1>2, <1>4, <1>5 DEF Settled, Claiming, HostIdle
  <2>2. PICK c \in Centrals : OwnedBy(i, c)
    BY <2>1 DEF BleInv, OneOwner
  <2> QED
    BY <1>1, <1>2, <1>4, <1>5, <2>2 DEF OwnedBy
<1> QED
  BY <1>6, <1>10, <1>11, <1>12, <1>13, <1>14 DEF BleInv

LEMMA OnWriteInv ==
    ASSUME BleInv, NEW h \in Handles, NEW what \in Kinds, OnWrite(h, what)
    PROVE  BleInv'
<1> DEFINE r == [from |-> link[h], what |-> what]
           j == Holder(h)
           t == [slot[j] EXCEPT !.rx = Append(@, r)]
<1>0. BleTypes
  BY DEF BleInv
<1>1. /\ j \in ConnSlots /\ slot[j].in_use /\ slot[j].handle = h
      /\ host = HostIdle /\ link[h] # None
  BY Members DEF OnWrite
<1>2. host = HostIdle /\ UNCHANGED <<link, host, loop, served, shared>>
  BY <1>0 DEF OnWrite
<1>3. slot' = [slot EXCEPT ![j] = t]
  BY <1>0, <1>1 DEF OnWrite, BleTypes
<1>4. /\ t \in ConnectionSlot /\ t.rx = Append(slot[j].rx, r)
      /\ t.in_use = slot[j].in_use /\ t.handle = slot[j].handle /\ t.pending = slot[j].pending
      /\ t.session = slot[j].session
  <2>1. slot[j] \in ConnectionSlot
    BY <1>0, <1>1 DEF BleTypes
  <2>2. r \in Requests
    BY <1>0, <1>1 DEF BleTypes, Requests, r
  <2>3. Append(slot[j].rx, r) \in Seq(Requests)
    BY <2>1, <2>2 DEF ConnectionSlot
  <2> HIDE DEF j, r
  <2>4. \A x \in ConnectionSlot, q \in Seq(Requests) :
            /\ [x EXCEPT !.rx = q] \in ConnectionSlot
            /\ [x EXCEPT !.rx = q].rx = q
            /\ [x EXCEPT !.rx = q].in_use = x.in_use /\ [x EXCEPT !.rx = q].handle = x.handle
            /\ [x EXCEPT !.rx = q].pending = x.pending
            /\ [x EXCEPT !.rx = q].session = x.session
    BY DEF ConnectionSlot
  <2>5. t = [slot[j] EXCEPT !.rx = Append(slot[j].rx, r)]
    OBVIOUS
  <2> HIDE DEF t
  <2> QED
    BY ONLY <2>1, <2>3, <2>4, <2>5
<1> HIDE DEF j, t, r
<1>5. slot'[j] = t /\ \A i \in ConnSlots : i # j => slot'[i] = slot[i]
  BY <1>0, <1>1, <1>3 DEF BleTypes
<1>6. BleTypes'
  <2>1. slot \in [ConnSlots -> ConnectionSlot]
    BY <1>0 DEF BleTypes
  <2>2. slot' \in [ConnSlots -> ConnectionSlot]
    BY ONLY <1>1, <1>3, <1>4, <2>1
  <2> QED
    BY <1>0, <1>2, <2>2 DEF BleTypes
<1>7. \A i \in ConnSlots :
        /\ slot'[i].in_use = slot[i].in_use /\ slot'[i].handle = slot[i].handle
        /\ slot'[i].pending = slot[i].pending
        /\ i # j => slot'[i].rx = slot[i].rx
  BY <1>4, <1>5
<1>8. \A i \in ConnSlots :
        /\ ~Claiming(i) /\ ~Claiming(i)' /\ ~Flagging(i) /\ ~Flagging(i)'
        /\ Releasing(i)' = Releasing(i)
  BY <1>2 DEF Claiming, Flagging, Releasing, HostIdle
<1>9. j \notin shared => ~Releasing(j)
  BY <1>1 DEF BleInv, DownUntilFree
<1>10. FreeIsEmpty'
  BY <1>1, <1>2, <1>7, <1>8 DEF BleInv, FreeIsEmpty
<1>11. HandleIsSet'
  BY <1>7 DEF BleInv, HandleIsSet
<1>12. DownUntilFree'
  BY <1>2, <1>7, <1>8, <1>9 DEF BleInv, DownUntilFree
<1>13. ClaimIsEmpty'
  BY <1>8 DEF ClaimIsEmpty
<1>14. OneOwner'
  <2> SUFFICES ASSUME NEW i \in ConnSlots \ shared, Settled(i)'
               PROVE  \E c \in Centrals : OwnedBy(i, c)'
    BY <1>2 DEF OneOwner
  <2>1. Settled(i)
    BY <1>1, <1>2, <1>4, <1>5 DEF Settled, Claiming, HostIdle
  <2>2. PICK c \in Centrals : OwnedBy(i, c)
    BY <2>1 DEF BleInv, OneOwner
  <2>3. i = j => c = link[h] /\ r \in [from : {c}, what : Kinds]
    BY <1>1, <2>2 DEF OwnedBy, r
  <2>4. i = j => Append(slot[j].rx, r) \in Seq([from : {c}, what : Kinds])
    BY <2>2, <2>3 DEF OwnedBy
  <2> QED
    BY <1>1, <1>2, <1>4, <1>5, <2>2, <2>4 DEF OwnedBy
<1> QED
  BY <1>6, <1>10, <1>11, <1>12, <1>13, <1>14 DEF BleInv

LEMMA PumpReleaseInv ==
    ASSUME BleInv, PumpRelease
    PROVE  BleInv'
<1> DEFINE j == loop.at
           t == [slot[j] EXCEPT !.pending = FALSE, !.registered = FALSE, !.rx = <<>>]
<1>0. BleTypes
  BY DEF BleInv
<1>1. j \in ConnSlots /\ slot[j].pending
  BY <1>0 DEF PumpRelease, BleTypes
<1>2. /\ loop' = [loop EXCEPT !.pc = "released"] /\ loop'.pc = "released" /\ loop'.at = j
      /\ loop.pc = "slot" /\ UNCHANGED <<link, host, shared>>
  BY <1>0 DEF PumpRelease, BleTypes
<1>3. slot' = [slot EXCEPT ![j] = t]
  BY <1>0, <1>1 DEF PumpRelease, BleTypes
<1>4. /\ t \in ConnectionSlot /\ ~t.pending /\ t.rx = <<>>
      /\ t.in_use = slot[j].in_use /\ t.handle = slot[j].handle /\ t.session = slot[j].session
  <2>1. slot[j] \in ConnectionSlot
    BY <1>0, <1>1 DEF BleTypes
  <2>2. <<>> \in Seq(Requests)
    OBVIOUS
  <2> HIDE DEF j
  <2> QED
    BY <2>1, <2>2 DEF ConnectionSlot
<1> HIDE DEF j, t
<1>5. slot'[j] = t /\ \A i \in ConnSlots : i # j => slot'[i] = slot[i]
  BY <1>0, <1>1, <1>3 DEF BleTypes
<1>6. BleTypes'
  BY <1>0, <1>1, <1>2, <1>3, <1>4, NextAt, CentralsAssumption DEF BleTypes
<1>10. FreeIsEmpty'
  BY <1>0, <1>1, <1>2, <1>4, <1>5
  DEF BleInv, BleTypes, FreeIsEmpty, Claiming, Flagging, Releasing, HostIdle, NextSlot
<1>11. HandleIsSet'
  BY <1>0, <1>1, <1>2, <1>4, <1>5
  DEF BleInv, BleTypes, HandleIsSet, FreeIsEmpty, HostIdle, NextSlot
<1>12. DownUntilFree'
  BY <1>0, <1>1, <1>2, <1>4, <1>5
  DEF BleInv, BleTypes, DownUntilFree, HandleIsSet, Claiming, Flagging, Releasing,
      HostIdle, NextSlot
<1>13. ClaimIsEmpty'
  BY <1>0, <1>1, <1>2, <1>4, <1>5
  DEF BleInv, BleTypes, ClaimIsEmpty, DownUntilFree, Claiming, Flagging, Releasing,
      HostIdle, NextSlot
<1>14. OneOwner'
  <2> SUFFICES ASSUME NEW i \in ConnSlots \ shared, Settled(i)'
               PROVE  \E c \in Centrals : OwnedBy(i, c)'
    BY <1>2 DEF OneOwner
  <2>1. Settled(i)
    BY <1>1, <1>2, <1>4, <1>5 DEF Settled, Claiming, HostIdle
  <2>2. PICK c \in Centrals : OwnedBy(i, c)
    BY <2>1 DEF BleInv, OneOwner
  <2>3. <<>> \in Seq([from : {c}, what : Kinds])
    OBVIOUS
  <2> QED
    BY <1>1, <1>2, <1>4, <1>5, <2>2, <2>3 DEF OwnedBy
<1> QED
  BY <1>6, <1>10, <1>11, <1>12, <1>13, <1>14 DEF BleInv

LEMMA PumpFreeInv ==
    ASSUME BleInv, PumpFree
    PROVE  BleInv'
<1> DEFINE j == loop.at
           t == [slot[j] EXCEPT !.in_use = FALSE]
<1>0. BleTypes
  BY DEF BleInv
<1>1. j \in ConnSlots /\ Releasing(j)
  BY <1>0 DEF PumpFree, BleTypes, Releasing
<1>2. /\ loop' = NextSlot /\ loop'.pc = "slot" /\ UNCHANGED <<link, host, shared>>
  BY <1>0 DEF PumpFree, NextSlot
<1>3. slot' = [slot EXCEPT ![j] = t]
  BY <1>0, <1>1 DEF PumpFree, NextSlot, BleTypes
<1>4. /\ t \in ConnectionSlot /\ ~t.in_use /\ t.handle = slot[j].handle
      /\ t.pending = slot[j].pending
      /\ t.session = slot[j].session /\ t.rx = slot[j].rx
  <2>1. slot[j] \in ConnectionSlot
    BY <1>0, <1>1 DEF BleTypes
  <2> HIDE DEF j
  <2> QED
    BY <2>1 DEF ConnectionSlot
<1> HIDE DEF j, t
<1>5. slot'[j] = t /\ \A i \in ConnSlots : i # j => slot'[i] = slot[i]
  BY <1>0, <1>1, <1>3 DEF BleTypes
<1>6. BleTypes'
  BY <1>0, <1>1, <1>2, <1>3, <1>4, NextAt, CentralsAssumption DEF BleTypes
<1>7. j \notin shared =>
        slot[j].rx = <<>> /\ ~slot[j].pending /\ ~Claiming(j) /\ ~Flagging(j)
  BY <1>1 DEF BleInv, DownUntilFree
<1>10. FreeIsEmpty'
  BY <1>0, <1>1, <1>2, <1>4, <1>5, <1>7
  DEF BleInv, BleTypes, FreeIsEmpty, Claiming, Flagging, Releasing, HostIdle, NextSlot
<1>11. HandleIsSet'
  BY <1>0, <1>1, <1>2, <1>4, <1>5
  DEF BleInv, BleTypes, HandleIsSet, FreeIsEmpty, HostIdle, NextSlot
<1>12. DownUntilFree'
  BY <1>0, <1>1, <1>2, <1>4, <1>5
  DEF BleInv, BleTypes, DownUntilFree, HandleIsSet, Claiming, Flagging, Releasing,
      HostIdle, NextSlot
<1>13. ClaimIsEmpty'
  BY <1>0, <1>1, <1>2, <1>4, <1>5
  DEF BleInv, BleTypes, ClaimIsEmpty, DownUntilFree, Claiming, Flagging, Releasing,
      HostIdle, NextSlot
<1>14. OneOwner'
  <2> SUFFICES ASSUME NEW i \in ConnSlots \ shared, Settled(i)'
               PROVE  \E c \in Centrals : OwnedBy(i, c)'
    BY <1>2 DEF OneOwner
  <2>1. Settled(i)
    BY <1>1, <1>2, <1>4, <1>5 DEF Settled, Claiming, HostIdle
  <2>2. PICK c \in Centrals : OwnedBy(i, c)
    BY <2>1 DEF BleInv, OneOwner
  <2> QED
    BY <1>1, <1>2, <1>4, <1>5, <2>2 DEF OwnedBy
<1> QED
  BY <1>6, <1>10, <1>11, <1>12, <1>13, <1>14 DEF BleInv

LEMMA PumpRegisterInv ==
    ASSUME BleInv, PumpRegister
    PROVE  BleInv'
<1> DEFINE j == loop.at
           t == [slot[j] EXCEPT !.registered = TRUE]
<1>0. BleTypes
  BY DEF BleInv
<1>1. j \in ConnSlots /\ slot[j].in_use
  BY <1>0 DEF PumpRegister, BleTypes
<1>2. /\ loop' = [loop EXCEPT !.pc = "drain", !.left = MaxRequests]
      /\ loop'.pc = "drain" /\ loop'.at = loop.at /\ UNCHANGED <<link, host, shared>>
  BY <1>0 DEF PumpRegister, BleTypes
<1>3. slot' = [slot EXCEPT ![j] = t]
  BY <1>0, <1>1 DEF PumpRegister, BleTypes
<1>4. /\ t \in ConnectionSlot /\ t.in_use = slot[j].in_use /\ t.handle = slot[j].handle
      /\ t.pending = slot[j].pending
      /\ t.session = slot[j].session /\ t.rx = slot[j].rx
  <2>1. slot[j] \in ConnectionSlot
    BY <1>0, <1>1 DEF BleTypes
  <2> HIDE DEF j
  <2> QED
    BY <2>1 DEF ConnectionSlot
<1> HIDE DEF j, t
<1>5. slot'[j] = t /\ \A i \in ConnSlots : i # j => slot'[i] = slot[i]
  BY <1>0, <1>1, <1>3 DEF BleTypes
<1>6. BleTypes'
  BY <1>0, <1>1, <1>2, <1>3, <1>4, NextAt, CentralsAssumption DEF BleTypes
<1>7. \A i \in ConnSlots :
        /\ slot'[i].in_use = slot[i].in_use /\ slot'[i].handle = slot[i].handle
        /\ slot'[i].pending = slot[i].pending /\ slot'[i].session = slot[i].session
        /\ slot'[i].rx = slot[i].rx
  BY <1>4, <1>5
<1>8. link' = link /\ host' = host /\ shared' = shared /\ \A i \in ConnSlots : ~Releasing(i)'
  BY <1>2 DEF Releasing
<1>10. FreeIsEmpty'
  BY <1>0, <1>1, <1>2, <1>4, <1>5
  DEF BleInv, BleTypes, FreeIsEmpty, Claiming, Flagging, Releasing, HostIdle, NextSlot
<1>11. HandleIsSet'
  BY <1>0, <1>1, <1>2, <1>4, <1>5
  DEF BleInv, BleTypes, HandleIsSet, FreeIsEmpty, HostIdle, NextSlot
<1>12. DownUntilFree'
  BY <1>7, <1>8 DEF BleInv, DownUntilFree, Claiming, Flagging
<1>13. ClaimIsEmpty'
  BY <1>7, <1>8 DEF BleInv, ClaimIsEmpty, Claiming, Flagging
<1>14. OneOwner'
  <2> SUFFICES ASSUME NEW i \in ConnSlots \ shared, Settled(i)'
               PROVE  \E c \in Centrals : OwnedBy(i, c)'
    BY <1>2 DEF OneOwner
  <2>1. Settled(i)
    BY <1>1, <1>2, <1>4, <1>5 DEF Settled, Claiming, HostIdle
  <2>2. PICK c \in Centrals : OwnedBy(i, c)
    BY <2>1 DEF BleInv, OneOwner
  <2> QED
    BY <1>1, <1>2, <1>4, <1>5, <2>2 DEF OwnedBy
<1> QED
  BY <1>6, <1>10, <1>11, <1>12, <1>13, <1>14 DEF BleInv

LEMMA OnDisconnectInv ==
    ASSUME BleInv, NEW h \in Handles, OnDisconnect(h)
    PROVE  BleInv'
<1> DEFINE j == Holder(h)
<1>0. BleTypes
  BY DEF BleInv
<1>1. /\ host = HostIdle /\ host.pc = "idle" /\ link[h] # None
      /\ link' = [link EXCEPT ![h] = None] /\ UNCHANGED <<slot, loop, served, shared>>
  BY DEF OnDisconnect, HostIdle
<1>2. \/ host' = HostIdle /\ Holders(h) = {}
      \/ /\ host' = [pc |-> "flag", at |-> j]
         /\ j \in ConnSlots /\ slot[j].in_use /\ slot[j].handle = h
  BY Members DEF OnDisconnect
<1> HIDE DEF j
<1>3. \A g \in Handles : link'[g] = IF g = h THEN None ELSE link[g]
  BY <1>0, <1>1 DEF BleTypes
<1>4. \A i \in ConnSlots : slot[i].in_use => slot[i].handle \in Handles
  BY DEF BleInv, HandleIsSet
<1>5. \A i \in ConnSlots : ~Claiming(i)' /\ Releasing(i)' = Releasing(i) /\ ~Flagging(i)
  BY <1>1, <1>2 DEF Claiming, Flagging, Releasing, HostIdle
<1>6. \A i \in ConnSlots \ shared : Flagging(i)' =>
        slot[i].in_use /\ slot[i].handle = h /\ ~slot[i].pending /\ ~Releasing(i)
  BY <1>1, <1>2 DEF Flagging, HostIdle, BleInv, DownUntilFree
<1>7. BleTypes'
  BY <1>0, <1>1, <1>2, IdleHost DEF BleTypes
<1>8. FreeIsEmpty'
  BY <1>1, <1>5, <1>6 DEF BleInv, FreeIsEmpty
<1>9. HandleIsSet'
  BY <1>1 DEF BleInv, HandleIsSet
<1>10. DownUntilFree'
  BY <1>1, <1>3, <1>4, <1>5, <1>6 DEF BleInv, DownUntilFree
<1>11. ClaimIsEmpty'
  BY <1>5 DEF ClaimIsEmpty
<1>12. OneOwner'
  <2> SUFFICES ASSUME NEW i \in ConnSlots \ shared, Settled(i)'
               PROVE  \E c \in Centrals : OwnedBy(i, c)'
    BY <1>1 DEF OneOwner
  <2>1. Settled(i) /\ slot[i].handle \in Handles
    BY <1>1, <1>4 DEF Settled
  <2>2. PICK c \in Centrals : OwnedBy(i, c)
    BY <2>1 DEF BleInv, OneOwner
  <2> QED
    BY <1>1, <1>3, <2>1, <2>2 DEF OwnedBy
<1> QED
  BY <1>7, <1>8, <1>9, <1>10, <1>11, <1>12 DEF BleInv

\* Who a request is from, whose session it is served in and whom the answer
\* goes to: the one central behind the connection.
LEMMA PumpRequestInv ==
    ASSUME BleInv, PumpRequest
    PROVE  BleInv' /\ OwnSession'
<1> DEFINE j == loop.at
           r == Head(slot[j].rx)
           t == [slot[j] EXCEPT !.rx = Tail(@),
                                !.session = IF r.what = "auth" THEN r.from ELSE @]
<1>0. BleTypes
  BY DEF BleInv
<1>1. /\ j \in ConnSlots /\ slot[j].rx # <<>> /\ slot[j] \in ConnectionSlot
      /\ loop.pc = "drain" /\ loop.left > 0
  BY <1>0 DEF PumpRequest, BleTypes
<1>2. /\ loop' = [loop EXCEPT !.left = @ - 1] /\ loop'.pc = "drain" /\ loop'.at = j
      /\ UNCHANGED <<link, host, shared>>
  BY <1>0, <1>1 DEF PumpRequest, BleTypes
<1>3. slot' = [slot EXCEPT ![j] = t]
  BY <1>0, <1>1 DEF PumpRequest, BleTypes
<1>4. served' = IF r.what = "auth" \/ slot[j].session = None THEN None
                ELSE [from |-> r.from, session |-> slot[j].session,
                      to |-> IF slot[j].subscribed THEN link[slot[j].handle] ELSE None]
  BY DEF PumpRequest
<1>5. j \notin shared => Settled(j) /\ ~Claiming(j) /\ slot[j].in_use
  BY <1>1 DEF BleInv, FreeIsEmpty, ClaimIsEmpty, Settled, Claiming
<1>6. /\ slot[j].rx \in Seq(Requests) /\ r \in Requests /\ Tail(slot[j].rx) \in Seq(Requests)
      /\ \A c \in Centrals : OwnedBy(j, c) =>
            r.from = c /\ Tail(slot[j].rx) \in Seq([from : {c}, what : Kinds])
  <2> DEFINE q == slot[j].rx
  <2>1. q \in Seq(Requests) /\ q # <<>>
    BY <1>1 DEF ConnectionSlot
  <2>2. \A c \in Centrals : OwnedBy(j, c) => q \in Seq([from : {c}, what : Kinds])
    BY DEF OwnedBy
  <2> HIDE DEF q
  <2>3. Head(q) \in Requests /\ Tail(q) \in Seq(Requests)
    BY <2>1
  <2>4. ASSUME NEW c \in Centrals, OwnedBy(j, c)
        PROVE  Head(q).from = c /\ Tail(q) \in Seq([from : {c}, what : Kinds])
    <3> DEFINE S == [from : {c}, what : Kinds]
    <3>1. q \in Seq(S) /\ \A x \in S : x.from = c
      BY <2>2, <2>4
    <3> HIDE DEF S
    <3>2. Head(q) \in S /\ Tail(q) \in Seq(S)
      BY <2>1, <3>1
    <3> QED
      BY <3>1, <3>2 DEF S
  <2> QED
    BY <2>1, <2>3, <2>4 DEF q
<1>9. /\ t.in_use = slot[j].in_use /\ t.handle = slot[j].handle /\ t.pending = slot[j].pending
      /\ t.rx = Tail(slot[j].rx) /\ t.session \in {r.from, slot[j].session}
      /\ t \in ConnectionSlot
  <2> HIDE DEF j, r
  <2> QED
    BY <1>1, <1>6 DEF ConnectionSlot, Requests
<1>7. ASSUME j \notin shared PROVE \E c \in Centrals : OwnedBy(j, c)
  BY <1>1, <1>5, <1>7 DEF BleInv, OneOwner
<1>10. OwnSession'
  <2> SUFFICES ASSUME j \notin shared, served' # None
               PROVE  served'.session = served'.from /\ served'.to \in {served'.from, None}
    BY <1>2 DEF OwnSession
  <2>1. PICK c \in Centrals : OwnedBy(j, c)
    BY <1>7
  <2>2. slot[j].session \in {c, None} /\ link[slot[j].handle] \in {c, None} /\ r.from = c
    BY <1>6, <2>1 DEF OwnedBy
  <2> HIDE DEF j, r
  <2> QED
    BY <1>4, <2>2
<1> HIDE DEF j, t, r
<1>11. slot'[j] = t /\ \A i \in ConnSlots : i # j => slot'[i] = slot[i]
  BY <1>0, <1>1, <1>3 DEF BleTypes
<1>12. \A i \in ConnSlots :
         /\ slot'[i].in_use = slot[i].in_use /\ slot'[i].handle = slot[i].handle
         /\ slot'[i].pending = slot[i].pending
         /\ i # j => slot'[i].rx = slot[i].rx /\ slot'[i].session = slot[i].session
  BY <1>9, <1>11
<1>13. /\ link' = link /\ host' = host /\ shared' = shared
       /\ \A i \in ConnSlots : ~Releasing(i)' /\ Claiming(i)' = Claiming(i)
                               /\ Flagging(i)' = Flagging(i) /\ Settled(i)' = Settled(i)
  BY <1>2, <1>12 DEF Releasing, Claiming, Flagging, Settled
<1>14. BleTypes'
  BY <1>0, <1>1, <1>2, <1>3, <1>9 DEF BleTypes
<1>15. FreeIsEmpty'
  BY <1>5, <1>12, <1>13 DEF BleInv, FreeIsEmpty
<1>16. HandleIsSet'
  BY <1>12 DEF BleInv, HandleIsSet
<1>17. DownUntilFree'
  BY <1>12, <1>13 DEF BleInv, DownUntilFree
<1>18. ClaimIsEmpty'
  BY <1>2, <1>5, <1>12, <1>13 DEF BleInv, ClaimIsEmpty
<1>19. OneOwner'
  <2> SUFFICES ASSUME NEW i \in ConnSlots \ shared, Settled(i)'
               PROVE  \E d \in Centrals : OwnedBy(i, d)'
    BY <1>2 DEF OneOwner
  <2>1. CASE i # j
    BY <1>12, <1>13, <2>1 DEF BleInv, OneOwner, OwnedBy
  <2>2. CASE i = j
    <3>1. PICK c \in Centrals : OwnedBy(j, c)
      BY <1>7, <2>2
    <3>2. OwnedBy(i, c)'
      BY <1>1, <1>6, <1>9, <1>11, <1>13, <2>2, <3>1 DEF OwnedBy
    <3> QED
      BY <3>2
  <2> QED
    BY <2>1, <2>2
<1> QED
  BY <1>10, <1>14, <1>15, <1>16, <1>17, <1>18, <1>19 DEF BleInv

\* pump() going on to the next slot.
LEMMA PumpOnInv ==
    ASSUME BleInv, loop.pc # "released", loop' = NextSlot, UNCHANGED <<link, slot, host, shared>>
    PROVE  BleInv'
<1>1. loop.at \in ConnSlots
  BY DEF BleInv, BleTypes
<1>2. \A i \in ConnSlots : ~Releasing(i)'
  BY NextAt, <1>1 DEF Releasing
<1>3. BleTypes'
  BY NextAt, <1>1 DEF BleInv, BleTypes
<1> QED
  BY <1>2, <1>3
  DEF BleInv, FreeIsEmpty, HandleIsSet, DownUntilFree, ClaimIsEmpty, OneOwner, OwnedBy,
      Settled, Claiming, Flagging

LEMMA StutterInv == ASSUME BleInv, UNCHANGED <<link, slot, host, loop, shared>> PROVE BleInv'
BY DEF BleInv, BleTypes, FreeIsEmpty, HandleIsSet, DownUntilFree, ClaimIsEmpty, OneOwner,
       OwnedBy, Settled, Claiming, Flagging, Releasing

\* The two facts of Draining rest on nothing but the types.
LEMMA DrainingStep ==
    ASSUME BleTypes, Draining, [BleNext]_bleVars
    PROVE  Draining'
<1> USE DEF Draining
<1>1. loop.at \in ConnSlots /\ loop.pc \in {"slot", "released", "drain"}
  BY DEF BleTypes
<1>2. CASE HostNext
  <2>1. UNCHANGED <<loop, served>>
    BY <1>2 DEF HostNext, Claim, ClaimPending, ClaimSession, ClaimRx, FlagDisconnect, OnConnect,
                OnConnectRefused, OnDisconnect, OnSubscribe, OnWrite, bleVars
  <2>2. slot[loop.at].in_use => slot'[loop.at].in_use
    <3> HIDE DEF Draining
    <3>1. ASSUME NEW h \in Handles, NEW c \in Centrals, OnConnect(h, c)
          PROVE  slot[loop.at].in_use => slot'[loop.at].in_use
      BY <1>1, <3>1 DEF OnConnect, BleTypes, ConnectionSlot
    <3>2. ASSUME NEW h \in Handles, NEW what \in Kinds, OnWrite(h, what)
          PROVE  slot[loop.at].in_use => slot'[loop.at].in_use
      BY <1>1, <3>2, Members DEF OnWrite, BleTypes, ConnectionSlot
    <3>3. ASSUME NEW h \in Handles, OnSubscribe(h)
          PROVE  slot[loop.at].in_use => slot'[loop.at].in_use
      BY <1>1, <3>3, Members DEF OnSubscribe, BleTypes, ConnectionSlot
    <3>4. ASSUME NEW h \in Handles, OnDisconnect(h)
          PROVE  slot[loop.at].in_use => slot'[loop.at].in_use
      BY <3>4 DEF OnDisconnect
    <3>5. CASE Claim \/ FlagDisconnect \/ OnConnectRefused
      <4>1. host.at \in ConnSlots
        BY DEF BleTypes
      <4>2. CASE ClaimPending
        BY <1>1, <4>1, <4>2 DEF ClaimPending, BleTypes, ConnectionSlot
      <4>3. CASE ClaimSession
        BY <1>1, <4>1, <4>3 DEF ClaimSession, BleTypes, ConnectionSlot
      <4>4. CASE ClaimRx
        BY <1>1, <4>1, <4>4 DEF ClaimRx, BleTypes, ConnectionSlot
      <4>5. CASE FlagDisconnect
        BY <1>1, <4>1, <4>5 DEF FlagDisconnect, BleTypes, ConnectionSlot
      <4> QED
        BY <3>5, <4>2, <4>3, <4>4, <4>5 DEF Claim, OnConnectRefused, bleVars
    <3> QED
      BY <1>2, <3>1, <3>2, <3>3, <3>4, <3>5 DEF HostNext, Kinds
  <2> QED
    BY <2>1, <2>2
<1>3. CASE PumpNext
  <2>1. CASE PumpRelease \/ PumpFree \/ PumpUnused \/ PumpDrained
    BY <2>1, NextAt, <1>1 DEF PumpRelease, PumpFree, PumpUnused, PumpDrained, NextSlot, BleTypes
  <2>2. CASE PumpRegister
    BY <1>1, <2>2 DEF PumpRegister, BleTypes, ConnectionSlot
  <2>3. CASE PumpRequest
    BY <1>1, <2>3 DEF PumpRequest, BleTypes, ConnectionSlot
  <2> QED
    BY <1>3, <2>1, <2>2, <2>3 DEF PumpNext
<1>4. CASE UNCHANGED bleVars
  BY <1>4 DEF bleVars
<1> QED
  BY <1>2, <1>3, <1>4 DEF BleNext

\* A connection that is accepted while the loop drains a slot takes another
\* slot, so a request served on a shared slot stays one of a shared slot.
LEMMA HostKeepsOwnSession ==
    ASSUME BleTypes, Draining, OwnSession, HostNext
    PROVE  OwnSession'
<1>1. ASSUME NEW h \in Handles, NEW c \in Centrals, OnConnect(h, c) PROVE OwnSession'
  <2>1. /\ UNCHANGED <<loop, served>> /\ ~slot[Min(Free)].in_use
        /\ loop.at \notin shared' => loop.at = Min(Free) \/ loop.at \notin shared
    BY <1>1, Members DEF OnConnect
  <2> QED
    BY <2>1 DEF OwnSession, Draining
<1>2. ASSUME UNCHANGED <<loop, served, shared>> PROVE OwnSession'
  BY <1>2 DEF OwnSession
<1> QED
  BY <1>1, <1>2
  DEF HostNext, Claim, ClaimPending, ClaimSession, ClaimRx, FlagDisconnect, OnConnectRefused,
      OnDisconnect, OnSubscribe, OnWrite, bleVars

\* On a slot that has its handle to itself no central is served in another's
\* session and no answer goes to another central, whatever handles the
\* controller gives out and whatever happens on the slots that share one.
THEOREM SessionsAreOwn == BleSpec => []OwnSession
<1> DEFINE Inv == BleInv /\ Draining /\ OwnSession
<1>1. BleInit => Inv
  BY InitiallyInv DEF BleInit, OwnSession, Draining
<1>2. Inv /\ [BleNext]_bleVars => Inv'
  <2> SUFFICES ASSUME BleInv, Draining, OwnSession, [BleNext]_bleVars
               PROVE  BleInv' /\ OwnSession'
    BY DrainingStep DEF BleInv
  <2>1. CASE HostNext
    <3>1. OwnSession'
      BY <2>1, HostKeepsOwnSession DEF BleInv
    <3>2. BleInv'
      BY <2>1, ClaimPendingInv, ClaimSessionInv, ClaimRxInv, FlagDisconnectInv, OnDisconnectInv,
         OnSubscribeInv, OnWriteInv, OnConnectInv, StutterInv
      DEF HostNext, Claim, OnConnectRefused, bleVars, Kinds
    <3> QED
      BY <3>1, <3>2
  <2>2. CASE PumpNext
    <3>1. CASE PumpRequest
      BY <3>1, PumpRequestInv
    <3>2. CASE ~PumpRequest
      <4>1. OwnSession'
        BY <2>2, <3>2 DEF PumpNext, PumpRelease, PumpFree, PumpUnused, PumpRegister,
                          PumpDrained, OwnSession
      <4>2. BleInv'
        BY <2>2, <3>2, PumpReleaseInv, PumpFreeInv, PumpRegisterInv, PumpOnInv
        DEF PumpNext, PumpUnused, PumpDrained
      <4> QED
        BY <4>1, <4>2
    <3> QED
      BY <3>1, <3>2
  <2>3. CASE UNCHANGED bleVars
    BY <2>3, StutterInv DEF bleVars, OwnSession
  <2> QED
    BY <2>1, <2>2, <2>3 DEF BleNext
<1>3. Inv => OwnSession
  OBVIOUS
<1> HIDE DEF Inv
<1> QED
  BY <1>1, <1>2, <1>3, PTL DEF BleSpec
=============================================================================
