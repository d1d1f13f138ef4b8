----------------------------- MODULE FetchBurst -----------------------------
(***************************************************************************)
(* A FetchPackets burst towards a slow reader: the entries and the         *)
(* FetchEnd that the core hands to a connection one after the other, from  *)
(* inside the board loop, over TCP or over the BLE sink of either board.   *)
(*                                                                         *)
(* A frame is cut into Chunks pieces, the last with the delimiter.  What   *)
(* was written and not yet read is in `pipe`, which has room for Window    *)
(* pieces: the TCP send buffer, NimBLE's buffer pool, or the SoftDevice's  *)
(* packets.  The reader is external: it may read at any time, stop, or     *)
(* hang up; it keeps what is between two delimiters if that is one whole   *)
(* frame.                                                                  *)
(***************************************************************************)
EXTENDS Naturals, Sequences

CONSTANTS
    Transports,    \* "tcp", "esp32" and "nrf52"
    Entries,       \* packets in the burst
    Chunks,        \* pieces of a frame
    QueueDepth,    \* kQueueDepth of the nRF52 sink
    Window

LastFrame == Entries + 1

ASSUME BurstAssumption ==
    {Entries, Chunks, QueueDepth, Window} \subseteq Nat \ {0}

VARIABLES
    transport,
    handed,      \* frame the core is handing over: 0 before the request,
                 \* LastFrame + 1 when the burst is done
    sent,        \* TCP, ESP32: pieces of that frame already written
    broken,      \* TCP: a frame was not written in full
    open,        \* TCP: the socket; BLE: always
    txq,         \* nRF52: queue_ from head_, each frame with its off
    connected,   \* the reader has not hung up
    dropPending, \* nRF52: drop_pending_
    pipe,
    acc,         \* what the reader has since the last delimiter
    received          \* the frames it has received

boardVars == <<handed, sent, broken, open, txq, dropPending>>
readerVars == <<connected, acc, received>>
burstVars == <<transport, boardVars, readerVars, pipe>>

Piece(f, i) == [of |-> f, part |-> i]
PipeHasRoom == Len(pipe) < Window

HandingOver == handed \in 1..LastFrame

\* handle_fetch_packets(): the entries, then the FetchEnd
HandleFetch ==
    /\ handed = 0 /\ connected /\ handed' = 1
    /\ UNCHANGED <<transport, sent, broken, open, txq, dropPending, readerVars, pipe>>

-----------------------------------------------------------------------------
(* TCP: Client::send_frame(), and the pump that closes a broken socket.  The *)
(* core goes on to the next frame whatever became of this one.              *)

\* One more piece of the frame gets out.
WritePiece ==
    /\ HandingOver
    /\ connected /\ PipeHasRoom /\ pipe' = Append(pipe, Piece(handed, sent + 1))
    /\ \/ sent + 1 < Chunks /\ sent' = sent + 1 /\ UNCHANGED handed
       \/ sent + 1 = Chunks /\ sent' = 0 /\ handed' = handed + 1
    /\ UNCHANGED <<transport, broken, open, txq, dropPending, readerVars>>

TcpWrites == transport = "tcp" /\ WritePiece

\* The socket is gone, or kWriteBudgetMs ran out with the window full.
TcpGivesUp ==
    /\ transport = "tcp" /\ HandingOver
    /\ ~connected \/ ~PipeHasRoom
    /\ broken' = TRUE /\ sent' = 0 /\ handed' = handed + 1
    /\ UNCHANGED <<transport, open, txq, dropPending, readerVars, pipe>>

TcpPump ==
    /\ transport = "tcp" /\ handed > LastFrame /\ open
    /\ broken \/ ~connected
    /\ open' = FALSE
    /\ UNCHANGED <<transport, handed, sent, broken, txq, dropPending, readerVars, pipe>>

-----------------------------------------------------------------------------
(* ESP32 BLE: Connection::send_frame() with notify_chunk() *)

EspNotifies == transport = "esp32" /\ WritePiece

\* The link is gone, or kNotifyWaitMs ran out: the frame is abandoned.
EspAbandons ==
    /\ transport = "esp32" /\ HandingOver
    /\ ~connected \/ ~PipeHasRoom
    /\ sent' = 0 /\ handed' = handed + 1
    /\ UNCHANGED <<transport, broken, open, txq, dropPending, readerVars, pipe>>

-----------------------------------------------------------------------------
(* nRF52: send_frame() with make_room() and drain_step() *)

\* drain_step() has written one chunk of the frame at the head.
Drained(q) ==
    IF Head(q).off + 1 = Chunks THEN Tail(q) ELSE [q EXCEPT ![1].off = @ + 1]

DrainStep ==
    /\ connected /\ txq # <<>> /\ PipeHasRoom
    /\ pipe' = Append(pipe, Piece(Head(txq).of, Head(txq).off + 1))

\* The end of make_room() and of send_frame(), the queue being q: a queue
\* that is still full is emptied.
Enqueue(q) ==
    /\ txq' = Append(IF Len(q) = QueueDepth THEN <<>> ELSE q, [of |-> handed, off |-> 0])
    /\ handed' = handed + 1
    /\ UNCHANGED <<transport, sent, broken, open, dropPending, readerVars>>

NrfSends == transport = "nrf52" /\ HandingOver

\* make_room() stops at the first chunk that drains.
NrfDrains == NrfSends /\ DrainStep /\ Enqueue(Drained(txq))

NrfQueueEmpty == NrfSends /\ connected /\ txq = <<>> /\ Enqueue(<<>>) /\ UNCHANGED pipe

\* Mutant: a central that is connected is waited for.
WaitEnds_Never == FALSE

\* kDrainWaitMs ran out with nothing drained.
WaitEnds == connected /\ ~PipeHasRoom

NrfStuck == NrfSends /\ WaitEnds /\ txq # <<>> /\ Enqueue(txq) /\ UNCHANGED pipe

\* The central went while make_room() waited: the backlog is dropped.
NrfLost == NrfSends /\ ~connected /\ txq # <<>> /\ Enqueue(<<>>) /\ UNCHANGED pipe

\* There is no central: the frame is dropped.
NrfNobody ==
    /\ NrfSends /\ ~connected /\ handed' = handed + 1
    /\ UNCHANGED <<transport, sent, broken, open, txq, dropPending, readerVars, pipe>>

\* pump(), between two requests
NrfPump ==
    /\ transport = "nrf52" /\ handed > LastFrame
    /\ \/ /\ dropPending /\ dropPending' = FALSE /\ txq' = <<>>
          /\ UNCHANGED pipe
       \/ ~dropPending /\ DrainStep /\ txq' = Drained(txq) /\ UNCHANGED dropPending
    /\ UNCHANGED <<transport, handed, sent, broken, open, readerVars>>

-----------------------------------------------------------------------------
(* The reader *)

Whole(f) == [i \in 1..Chunks |-> Piece(f, i)]

Reads ==
    /\ connected /\ pipe # <<>> /\ pipe' = Tail(pipe)
    /\ LET seen == Append(acc, Head(pipe)) IN
       IF Head(pipe).part < Chunks THEN acc' = seen /\ UNCHANGED received
       ELSE /\ acc' = <<>>
            /\ received' = IF seen = Whole(Head(pipe).of) THEN Append(received, Head(pipe).of) ELSE received
    /\ UNCHANGED <<transport, boardVars, connected>>

HangsUp ==
    /\ connected /\ connected' = FALSE /\ pipe' = <<>>
    /\ dropPending' = (transport = "nrf52")
    /\ UNCHANGED <<transport, handed, sent, broken, open, txq, acc, received>>

-----------------------------------------------------------------------------
BurstInit ==
    /\ transport \in Transports
    /\ handed = 0 /\ sent = 0 /\ broken = FALSE /\ open = TRUE
    /\ txq = <<>> /\ dropPending = FALSE
    /\ connected = TRUE /\ pipe = <<>> /\ acc = <<>> /\ received = <<>>

BoardNext ==
    \/ TcpWrites \/ TcpGivesUp \/ TcpPump \/ EspNotifies \/ EspAbandons
    \/ NrfDrains \/ NrfQueueEmpty \/ NrfStuck \/ NrfLost \/ NrfNobody \/ NrfPump

BurstNext == HandleFetch \/ BoardNext \/ Reads \/ HangsUp

BurstSpec == BurstInit /\ [][BurstNext]_burstVars

-----------------------------------------------------------------------------
\* A burst is handed over to its end, and what it left behind is cleaned up,
\* whatever its reader does: a reader that stops costs frames or its
\* connection, "never a wedged board loop", and a socket that missed a frame
\* is closed.
BurstEnds == (HandingOver ~> handed > LastFrame) /\ (broken ~> ~open)

\* A reader that gets the FetchEnd has every entry of the burst: "a client
\* either sees the whole stream terminated by FetchEnd, or a disconnect".
BurstWhole ==
    (\E i \in DOMAIN received : received[i] = LastFrame) => received = [i \in 1..LastFrame |-> i]

Queued == {txq[i].of : i \in DOMAIN txq}

\* A central that reads loses no frame that was queued for it: a step that
\* gets a chunk out takes at most the frame it completes out of the queue.
\* make_room() is said to "drain for at most kDrainWaitMs, then give up".
ReadersLoseNothing ==
    [][Len(pipe') > Len(pipe) /\ txq # <<>> => Queued \ Queued' \subseteq {Head(txq).of}]_burstVars
=============================================================================
