---------------------------- MODULE EnvelopeWire ----------------------------
(***************************************************************************)
(* Envelopes between the core and a client that may be older or newer than *)
(* the firmware: what decode_envelope() makes of what a client's protobuf  *)
(* library writes, and what encode_envelope() puts into a frame.           *)
(*                                                                         *)
(* The client is external.  A request names its fields in any order, and   *)
(* may hold fields this firmware does not know.                            *)
(***************************************************************************)
EXTENDS Nanopb

CONSTANTS
    MaxFramePayload,   \* MESHPIGEON_MAX_FRAME_PAYLOAD
    NewTags,           \* tags no message of this firmware has
    Excess             \* by how many bytes a client goes over a cap

VARIABLES
    wmsg,    \* the message under way
    wire,    \* its bytes
    wgot,    \* what the receiver made of them
    wpc      \* "idle", "up" and "down" while under way, "read"

wireVars == <<wmsg, wire, wgot, wpc>>

-----------------------------------------------------------------------------
\* The protobuf encoding as the standard has it.

RECURSIVE StdVarint(_)
StdVarint(v) == IF v < 128 THEN <<v>> ELSE <<128 + (v % 128)>> \o StdVarint(v \div 128)

StdScalar(f, v) ==
    StdVarint(IF f.l = "bool" THEN (IF v THEN 1 ELSE 0) ELSE v % 2 ^ Long)

\* One more field, of each wire type.  What it holds reads like fields.
Unknown == {<<>>} \cup UNION {
    {StdVarint(8 * t + Varint) \o StdVarint(2 ^ Long - 1),
     StdVarint(8 * t + Fixed64) \o <<8, 5, 8, 5, 8, 5, 8, 5>>,
     StdVarint(8 * t + Delimited) \o <<4, 8, 5, 8, 5>>,
     StdVarint(8 * t + Fixed32) \o <<8, 5, 8, 5>>} : t \in NewTags}

\* How a client lays a message out: at one depth it reverses the fields or
\* puts an unknown one behind the first pos of them.
Layout == [depth : 0..2, reversed : BOOLEAN, unknown : Unknown, pos : 0..2]
Plainly == [depth |-> 3, reversed |-> FALSE, unknown |-> <<>>, pos |-> 0]

Arrange(parts, layout) ==
    LET order == IF layout.reversed THEN Reverse(parts) ELSE parts
        cut == IF layout.pos < Len(parts) THEN layout.pos ELSE Len(parts)
    IN SubSeq(order, 1, cut) \o <<layout.unknown>> \o SubSeq(order, cut + 1, Len(order))

RECURSIVE Protobuf(_, _, _, _)
Protobuf(desc, m, depth, layout) ==
    LET delimited(b) == StdVarint(Len(b)) \o b
        payload(f, v) ==
            CASE f.l \in Scalar -> StdScalar(f, v)
              [] f.l = "submsg" -> delimited(Protobuf(Desc(f.sub), v, depth + 1, layout))
              [] OTHER -> delimited(v)
        key(f) == StdVarint(8 * f.tag + (IF f.l \in Scalar THEN 0 ELSE 2))
        part(f) ==
            CASE f.h = "oneof" ->
                     IF m.which = f.tag THEN key(f) \o payload(f, m.body) ELSE <<>>
              [] f.h = "optional" ->
                     IF m[f.name].has THEN key(f) \o payload(f, m[f.name].v) ELSE <<>>
              [] f.h = "repeated" ->
                     IF m[f.name] = <<>> THEN <<>>
                     ELSE StdVarint(8 * f.tag + 2) \o delimited(
                         FlattenSeq([i \in DOMAIN m[f.name] |-> StdScalar(f, m[f.name][i])]))
              [] OTHER ->
                     IF m[f.name] = ZeroField(f) THEN <<>> ELSE key(f) \o payload(f, m[f.name])
        parts == SelectSeq([i \in DOMAIN desc |-> part(desc[i])], LAMBDA p : p # <<>>)
    IN FlattenSeq(IF layout.depth = depth THEN Arrange(parts, layout) ELSE <<<<>>>> \o parts)

-----------------------------------------------------------------------------
\* Messages to send: each field alone at the edges of its range, and all of
\* them at their largest.

Filled(n) == [i \in 1..n |-> 1 + ((i * 37) % 255)]

RECURSIVE Samples(_), Largest(_)

Edges(field) ==
    CASE field.l = "uvarint" -> {1, 127, 128, 2 ^ Word - 1, 2 ^ (field.size - 1), 2 ^ field.size - 1}
      [] field.l = "varint" -> {1, -1, 2 ^ (field.size - 1) - 1, -(2 ^ (field.size - 1))}
      [] field.l = "bool" -> {TRUE}
      [] field.l = "string" -> {Filled(1), Filled(field.size - 1)}
      [] field.l = "bytes" -> {<<0>>, Filled(field.size)}
      [] field.l = "submsg" -> Samples(field.sub)

Top(field) ==
    LET top == CASE field.l = "uvarint" -> 2 ^ field.size - 1
                 [] field.l = "varint" -> -(2 ^ (field.size - 1))
                 [] field.l = "bool" -> TRUE
                 [] field.l = "string" -> Filled(field.size - 1)
                 [] field.l = "bytes" -> Filled(field.size)
                 [] field.l = "submsg" -> Largest(field.sub)
    IN CASE field.h = "optional" -> [has |-> TRUE, v |-> top]
         [] field.h = "repeated" -> [i \in 1..field.max |-> top]
         [] OTHER -> top

Largest(msg) ==
    [n \in DOMAIN Zero(msg) |->
        IF n \in {"which", "body"} THEN Zero(msg)[n]
        ELSE Top(CHOOSE f \in ToSet(Desc(msg)) : f.name = n)]

Settings(field) ==
    CASE field.h = "optional" -> {[has |-> TRUE, v |-> e] : e \in Edges(field) \cup {ZeroField(field).v}}
      [] field.h = "repeated" -> {<<e>> : e \in Edges(field)}
      [] OTHER -> Edges(field)

Samples(msg) ==
    {Zero(msg), Largest(msg)}
    \cup UNION {{[Zero(msg) EXCEPT ![f.name] = e] : e \in Settings(f)} : f \in ToSet(Desc(msg))}

Envelope(type, id, f, body) == [Zero(type) EXCEPT !.id = id, !.which = f.tag, !.body = body]
Bodies(type) == {f \in ToSet(Desc(type)) : f.h = "oneof"}

-----------------------------------------------------------------------------
WireInit == wmsg = Zero("ClientToRadio") /\ wire = <<>> /\ wgot = Fail /\ wpc = "idle"

ClientSends(id, f, body, layout) ==
    /\ wpc' = "up"
    /\ wmsg' = Envelope("ClientToRadio", id, f, body)
    /\ wire' = Protobuf(ClientToRadio, wmsg', 0, layout)
    /\ UNCHANGED wgot

\* A text or bytes field of the message, longer than its cap.
OverCap(f, g, n) ==
    LET long == Filled(IF g.l = "string" THEN g.size - 1 + n ELSE g.size + n)
    IN [Zero(f.sub) EXCEPT ![g.name] = IF g.h = "optional" THEN [has |-> TRUE, v |-> long] ELSE long]

\* decode_envelope()
DecodeEnvelope(s) ==
    LET r == Decode("ClientToRadio", s) IN IF r.ok /\ r.v.id # 0 THEN r ELSE Fail

RadioReads ==
    /\ wpc = "up" /\ wpc' = "read" /\ wgot' = DecodeEnvelope(wire)
    /\ UNCHANGED <<wmsg, wire>>

\* encode_envelope(): on failure there is nothing to send
EncodeEnvelope(m) == Encode("RadioToClient", m, MaxFramePayload)

RadioSends(id, f, body) ==
    /\ wpc' = "down"
    /\ wmsg' = Envelope("RadioToClient", id, f, body)
    /\ LET out == EncodeEnvelope(wmsg') IN wire' = IF out.ok THEN out.v ELSE <<>>
    /\ UNCHANGED wgot

WireSends ==
    /\ wpc = "idle"
    /\ \/ \E id \in {0, 1, 2 ^ Word - 1}, f \in Bodies("ClientToRadio") :
             \E body \in Samples(f.sub) : ClientSends(id, f, body, Plainly)
       \/ \E f \in Bodies("ClientToRadio"), layout \in Layout :
             \E body \in {Zero(f.sub), Largest(f.sub)} : ClientSends(2 ^ Word - 1, f, body, layout)
       \/ \E f \in Bodies("ClientToRadio") : \E g \in ToSet(Desc(f.sub)), n \in Excess :
             g.l \in {"string", "bytes"} /\ ClientSends(1, f, OverCap(f, g, n), Plainly)
       \/ \E id \in {0, 2 ^ Word - 1}, f \in Bodies("RadioToClient") :
             \E body \in Samples(f.sub) : RadioSends(id, f, body)

WireNext == RadioReads \/ WireSends

-----------------------------------------------------------------------------
\* Within every cap of the message.
Fits(m) ==
    \A f \in Bodies("ClientToRadio") : f.tag = m.which =>
        \A g \in ToSet(Desc(f.sub)) :
            LET v == IF g.h = "optional" THEN m.body[g.name].v ELSE m.body[g.name]
            IN CASE g.l = "string" -> Len(v) < g.size
                 [] g.l = "bytes" -> Len(v) <= g.size
                 [] OTHER -> TRUE

\* A request within the caps is understood as it was meant: every field at
\* the edges of its range, fields in another order, unknown fields of every
\* wire type at every depth skipped, as envelope.proto's evolution policy
\* has it.  Only one without an id is dropped.
RequestUnderstood ==
    wpc = "read" /\ Fits(wmsg) => wgot = IF wmsg.id = 0 THEN Fail ELSE Done(wmsg, <<>>)

\* Whatever does decode is what the client sent: a value over its cap is
\* never cut to fit and taken for another one.
NeverCut == wpc = "read" /\ wgot.ok => wgot.v = wmsg

\* Every response the core can build fits its frame, to the byte at the
\* largest Pong; it is the protobuf encoding any client reads, and nanopb
\* reads it back.
ResponseIsProtobuf ==
    wpc = "down" =>
        /\ wire = Protobuf(RadioToClient, wmsg, 0, Plainly)
        /\ Decode("RadioToClient", wire) = Done(wmsg, <<>>)
=============================================================================
