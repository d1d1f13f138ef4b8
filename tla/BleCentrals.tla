---------------------------- MODULE BleCentrals ----------------------------
(***************************************************************************)
(* The BLE transport of the ESP32 boards: the host task's callbacks and    *)
(* the board loop's pump() as two processes on the same connection slots.  *)
(* One action per access that the other task can see.                      *)
(*                                                                         *)
(* A request is one element of a slot's queue (RxFifo has the bytes),      *)
(* with the central that wrote it: "auth" presents the right PIN, "gated"  *)
(* needs a session.  The registry always has room for this transport:      *)
(* kMaxSinks is USB, kMaxCentrals and kMaxClients together.                *)
(*                                                                         *)
(* The controller and the centrals are external.                           *)
(***************************************************************************)
EXTENDS Naturals, Sequences, FiniteSets, FiniteSetsExt

CONSTANTS
    Centrals,
    Handles,       \* connection handles of the controller
    MaxCentrals,   \* kMaxCentrals
    MaxRequests,   \* bound: requests queued in a slot, and drained in a pump
    None

ConnSlots == 1..MaxCentrals

ASSUME CentralsAssumption ==
    /\ MaxCentrals \in Nat \ {0} /\ MaxRequests \in Nat \ {0}
    /\ None \notin Centrals

VARIABLES
    link,        \* the central at the other end of each handle
    slot,        \* conns_; `session` is the central whose PIN set authenticated
    host,        \* the callback the host task is in, and the slot it is at
    loop,        \* where pump() is, the slot it is at, what it may yet drain
    served,      \* auxiliary: the gated request just served
    shared       \* auxiliary: slots that shared their handle with another slot

bleVars == <<link, slot, host, loop, served, shared>>

HostIdle == [pc |-> "idle", at |-> 1]

\* Mutant: a connection is only found once the board loop has registered it.
Holders_Registered(h) ==
    {i \in ConnSlots : slot[i].in_use /\ slot[i].registered /\ slot[i].handle = h}

Holders(h) == {i \in ConnSlots : slot[i].in_use /\ slot[i].handle = h}

\* find(), of a handle some slot holds
Holder(h) == Min(Holders(h))

Free == {i \in ConnSlots : ~slot[i].in_use}

\* Nothing of an earlier central is left in slot i, nor about to be done to
\* it by pump().
Clean(i) ==
    /\ slot[i].rx = <<>> /\ ~slot[i].pending
    /\ ~(loop.pc = "released" /\ loop.at = i)

-----------------------------------------------------------------------------
(* The host task *)

\* onConnect() into claim(): in_use is set before the rest is reset.
OnConnect(h, c) ==
    /\ host = HostIdle
    /\ link[h] = None /\ \A g \in Handles : link[g] # c
    /\ Free # {}
    /\ link' = [link EXCEPT ![h] = c]
    /\ slot' = [slot EXCEPT ![Min(Free)].handle = h, ![Min(Free)].in_use = TRUE]
    /\ host' = [pc |-> "pending", at |-> Min(Free)]
    /\ shared' = IF Holders(h) # {} THEN shared \cup Holders(h) \cup {Min(Free)}
                 ELSE shared \ {i \in {Min(Free)} : Clean(i)}
    /\ UNCHANGED <<loop, served>>

ClaimPending ==
    /\ host.pc = "pending" /\ host' = [host EXCEPT !.pc = "session"]
    /\ slot' = [slot EXCEPT ![host.at].pending = FALSE]
    /\ UNCHANGED <<link, loop, served, shared>>

\* Mutant: the flag is left to the next Auth.
ClaimSession_Kept ==
    /\ host.pc = "session" /\ host' = [host EXCEPT !.pc = "rx"]
    /\ slot' = [slot EXCEPT ![host.at].subscribed = FALSE]
    /\ UNCHANGED <<link, loop, served, shared>>

ClaimSession ==
    /\ host.pc = "session" /\ host' = [host EXCEPT !.pc = "rx"]
    /\ slot' = [slot EXCEPT ![host.at].session = None, ![host.at].subscribed = FALSE]
    /\ UNCHANGED <<link, loop, served, shared>>

ClaimRx ==
    /\ host.pc = "rx" /\ host' = HostIdle
    /\ slot' = [slot EXCEPT ![host.at].rx = <<>>]
    /\ UNCHANGED <<link, loop, served, shared>>

\* onDisconnect(): the slot is found, then flagged.
OnDisconnect(h) ==
    /\ host = HostIdle /\ link[h] # None
    /\ link' = [link EXCEPT ![h] = None]
    /\ host' = IF Holders(h) = {} THEN HostIdle ELSE [pc |-> "flag", at |-> Holder(h)]
    /\ UNCHANGED <<slot, loop, served, shared>>

FlagDisconnect ==
    /\ host.pc = "flag" /\ host' = HostIdle
    /\ slot' = [slot EXCEPT ![host.at].pending = TRUE]
    /\ UNCHANGED <<link, loop, served, shared>>

OnSubscribe(h) ==
    /\ host = HostIdle /\ link[h] # None /\ Holders(h) # {}
    /\ slot' = [slot EXCEPT ![Holder(h)].subscribed = ~@]
    /\ UNCHANGED <<link, host, loop, served, shared>>

\* onWrite(); what does not fit is dropped.
OnWrite(h, what) ==
    /\ host = HostIdle /\ link[h] # None /\ Holders(h) # {}
    /\ Len(slot[Holder(h)].rx) < MaxRequests
    /\ slot' = [slot EXCEPT ![Holder(h)].rx = Append(@, [from |-> link[h], what |-> what])]
    /\ UNCHANGED <<link, host, loop, served, shared>>

\* No slot is free: the central is turned away and leaves nothing behind.
OnConnectRefused == host = HostIdle /\ Free = {} /\ UNCHANGED bleVars

-----------------------------------------------------------------------------
(* The board loop: pump() *)

NextSlot == [pc |-> "slot", at |-> 1 + (loop.at % MaxCentrals), left |-> 0]

\* The host task reported the link gone: all but in_use is released.
PumpRelease ==
    /\ loop.pc = "slot" /\ slot[loop.at].pending
    /\ slot' = [slot EXCEPT ![loop.at].pending = FALSE, ![loop.at].registered = FALSE,
                            ![loop.at].rx = <<>>]
    /\ loop' = [loop EXCEPT !.pc = "released"]
    /\ served' = None /\ UNCHANGED <<link, host, shared>>

PumpFree ==
    /\ loop.pc = "released"
    /\ slot' = [slot EXCEPT ![loop.at].in_use = FALSE]
    /\ loop' = NextSlot
    /\ served' = None /\ UNCHANGED <<link, host, shared>>

PumpUnused ==
    /\ loop.pc = "slot" /\ ~slot[loop.at].pending /\ ~slot[loop.at].in_use
    /\ loop' = NextSlot
    /\ served' = None /\ UNCHANGED <<link, slot, host, shared>>

PumpRegister ==
    /\ loop.pc = "slot" /\ ~slot[loop.at].pending /\ slot[loop.at].in_use
    /\ slot' = [slot EXCEPT ![loop.at].registered = TRUE]
    /\ loop' = [loop EXCEPT !.pc = "drain", !.left = MaxRequests]
    /\ served' = None /\ UNCHANGED <<link, host, shared>>

\* drain_frames(), one request; the answer is notified to the handle, if
\* its central has subscribed.
PumpRequest ==
    /\ loop.pc = "drain" /\ loop.left > 0 /\ slot[loop.at].rx # <<>>
    /\ LET s == slot[loop.at]
           r == Head(s.rx)
       IN /\ slot' = [slot EXCEPT ![loop.at].rx = Tail(@),
                                  ![loop.at].session = IF r.what = "auth" THEN r.from ELSE @]
          /\ served' = IF r.what = "auth" \/ s.session = None THEN None
                       ELSE [from |-> r.from, session |-> s.session,
                             to |-> IF s.subscribed THEN link[s.handle] ELSE None]
    /\ loop' = [loop EXCEPT !.left = @ - 1]
    /\ UNCHANGED <<link, host, shared>>

PumpDrained ==
    /\ loop.pc = "drain" /\ (loop.left = 0 \/ slot[loop.at].rx = <<>>)
    /\ loop' = NextSlot
    /\ served' = None /\ UNCHANGED <<link, slot, host, shared>>

-----------------------------------------------------------------------------
BleInit ==
    /\ link = [h \in Handles |-> None]
    /\ slot = [i \in ConnSlots |->
                 [in_use |-> FALSE, handle |-> None, pending |-> FALSE, registered |-> FALSE,
                  session |-> None, subscribed |-> FALSE, rx |-> <<>>]]
    /\ host = HostIdle
    /\ loop = [pc |-> "slot", at |-> 1, left |-> 0]
    /\ served = None /\ shared = {}

Claim == ClaimPending \/ ClaimSession \/ ClaimRx

HostNext ==
    \/ Claim \/ FlagDisconnect \/ OnConnectRefused
    \/ \E h \in Handles :
          \/ OnDisconnect(h) \/ OnSubscribe(h)
          \/ \E what \in {"auth", "gated"} : OnWrite(h, what)
          \/ \E c \in Centrals : OnConnect(h, c)

PumpNext ==
    \/ PumpRelease \/ PumpFree \/ PumpUnused
    \/ PumpRegister \/ PumpRequest \/ PumpDrained

BleNext == HostNext \/ PumpNext

BleSpec == BleInit /\ [][BleNext]_bleVars

-----------------------------------------------------------------------------
\* On a slot that has its handle to itself, a gated request is served only in
\* a session its own central opened, and its answer goes to nobody else,
\* however the host task's callbacks fall into the board loop's pump.  The
\* condition: while the loop has yet to free the slot of a central that has
\* gone (it may be held up in send_frame()), the controller may give that
\* handle to the next central, and find() then returns the old slot.
OwnSession ==
    served # None /\ loop.at \notin shared =>
        served.session = served.from /\ served.to \in {served.from, None}

\* The slot of a central that has gone is released, whatever the two tasks
\* were doing when it went, so the transport does not run out of slots; on
\* the same condition, for find() also flags the wrong one of two slots.
SlotsFollowLinks ==
    \A i \in ConnSlots :
        (slot[i].in_use /\ i \notin shared /\ link[slot[i].handle] = None)
            ~> (~slot[i].in_use \/ i \in shared)

\* No request is ever served in the session of another central, reused
\* handles or not: "a session that authenticated must not outlive the link it
\* authenticated on ... a reconnect that arrives first cannot be handed a
\* slot that is still registered" (onDisconnect()).
NoSessionOutlivesItsLink == served # None => served.session = served.from
=============================================================================
