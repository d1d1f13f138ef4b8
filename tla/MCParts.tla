------------------------------ MODULE MCParts ------------------------------
(* The small parts of the firmware, which share no state: a behaviour is   *)
(* one of the part it starts with, the others stay as they begin.          *)
EXTENDS EnvelopeWire, Crc, FrameLink, UptimeClock, RxFifo, FetchBurst, RecordFiles

CONSTANT Checking    \* the parts of this run

VARIABLE part

partsVars == <<part, wireVars, linkVars, clockVars, fifoVars, burstVars, fileVars>>

MCEnvelopes == {<<7>>, <<1, 0, 0>>, <<2, 2, 2>>}

Moves(p, next) == part = p /\ next /\ UNCHANGED part

PartsInit ==
    /\ part \in Checking
    /\ WireInit /\ ClockInit /\ FilesInit
    /\ IF part = "link" THEN LinkInit ELSE frames = <<>> /\ LinkIdle
    /\ FifoInit /\ (part # "fifo" => indexFirst = {})
    /\ BurstInit /\ (part # "burst" => transport = CHOOSE t \in Transports : TRUE)

WireMoves == Moves("wire", WireNext)
    /\ UNCHANGED <<linkVars, clockVars, fifoVars, burstVars, fileVars>>
LinkMoves == Moves("link", LinkNext)
    /\ UNCHANGED <<wireVars, clockVars, fifoVars, burstVars, fileVars>>
ClockMoves == Moves("clock", ClockNext)
    /\ UNCHANGED <<wireVars, linkVars, fifoVars, burstVars, fileVars>>
FifoMoves == Moves("fifo", FifoNext)
    /\ UNCHANGED <<wireVars, linkVars, clockVars, burstVars, fileVars>>
BurstMoves == Moves("burst", BurstNext)
    /\ UNCHANGED <<wireVars, linkVars, clockVars, fifoVars, fileVars>>
FilesMoves == Moves("files", FilesNext)
    /\ UNCHANGED <<wireVars, linkVars, clockVars, fifoVars, burstVars>>

PartsNext ==
    \/ WireMoves \/ LinkMoves \/ ClockMoves \/ FifoMoves \/ BurstMoves
    \/ FilesMoves

\* The fairness of the part that moves.
PartsFairness ==
    /\ WF_linkVars(part = "link" /\ PumpBegin)
    /\ []<>(budget = 0) \/ []<><<PumpByte \/ PumpEnd>>_linkVars
    /\ WF_burstVars(part = "burst" /\ BoardNext)

PartsSpec == PartsInit /\ [][PartsNext]_partsVars /\ PartsFairness
=============================================================================
