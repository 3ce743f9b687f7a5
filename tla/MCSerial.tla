------------------------------ MODULE MCSerial ------------------------------
(***************************************************************************)
(* Instances of what frames a serial connection: Min, Lines and Series.    *)
(* MCData adds the other parts to them.  The variables of a module have    *)
(* its letter in front.                                                    *)
(***************************************************************************)
EXTENDS Integers, Sequences

CONSTANTS
  MnIds, MnPayloads, MnSums, MnFrameSize,      \* Ids, Payloads, Sums, FrameSize of Min
  MnReqSize, MnQSize, MnChunks,                \* and ReqSize, QSize, Chunks
  MnMaxFrames, MnMaxFaults,                    \* and MaxFrames, MaxFaults
  Linelen, LinQSize, LinLens,                  \* linelen, QSize, Lens of Lines
  LinMaxMsg, LinMaxWire,                       \* and MaxMsg, MaxWire
  SerLEN, SerIds, SerHandled, SerSizes,        \* LEN, Ids, Handled, Sizes of Series
  SerMaxSeries                                 \* and MaxSeries

\* the id has six bits, the length is a byte, and a payload fits into a Frame
ASSUME MinAssumption ==
  /\ MnIds \subseteq 0 .. 63 /\ MnFrameSize \in 0 .. 255
  /\ \A p \in MnPayloads : p \in Seq(0 .. 255) /\ Len(p) <= MnFrameSize
  /\ \A c \in MnSums : c \in Seq(0 .. 255) /\ Len(c) = 4
  /\ MnReqSize \in Nat /\ MnQSize \in Nat /\ MnChunks \subseteq Nat
  /\ MnMaxFrames \in Nat /\ MnMaxFaults \in Nat

ASSUME LinesAssumption ==
  /\ Linelen \in Nat \ {0} /\ LinQSize \in Nat /\ LinLens \subseteq Nat
  /\ LinMaxMsg \in Nat /\ LinMaxWire \in Nat

ASSUME SeriesAssumption ==
  /\ SerLEN \in Nat \ {0} /\ SerHandled \subseteq SerIds /\ SerSizes \subseteq Nat
  /\ SerMaxSeries \in Nat

VARIABLES nCountdown, nSums, nLine, nIn, nSent, nReceived, nDropped, nFaults
VARIABLES lSent, lWire, lSource, lQ, lL, lGot, lLost
VARIABLES rWire, rSent, rUnpacker, rResult

Mn == INSTANCE Min WITH
  Ids <- MnIds, Payloads <- MnPayloads, Sums <- MnSums, FrameSize <- MnFrameSize,
  ReqSize <- MnReqSize, QSize <- MnQSize, Chunks <- MnChunks,
  MaxFrames <- MnMaxFrames, MaxFaults <- MnMaxFaults,
  countdown <- nCountdown, sums <- nSums, line <- nLine, in <- nIn,
  sent <- nSent, received <- nReceived, dropped <- nDropped,
  faults <- nFaults
Lin == INSTANCE Lines WITH
  linelen <- Linelen, QSize <- LinQSize, Lens <- LinLens, MaxMsg <- LinMaxMsg,
  MaxWire <- LinMaxWire,
  sent <- lSent, wire <- lWire, source <- lSource, q <- lQ, l <- lL,
  got <- lGot, lost <- lLost
Ser == INSTANCE Series WITH
  LEN <- SerLEN, Ids <- SerIds, Handled <- SerHandled, Sizes <- SerSizes,
  MaxSeries <- SerMaxSeries,
  wire <- rWire, sent <- rSent, unpacker <- rUnpacker, result <- rResult

nVars == <<nCountdown, nSums, nLine, nIn, nSent, nReceived, nDropped,
           nFaults>>
lVars == <<lSent, lWire, lSource, lQ, lL, lGot, lLost>>
rVars == <<rWire, rSent, rUnpacker, rResult>>

\* Min: what arrives was sent, in order and once, and no frame overflows.
OnlySentFrames == Mn!Sound /\ Mn!OnlySentFrames

\* Min: a damage costs one frame.
OneFrameLost == Mn!OneFrameLost

\* Lines: however the bytes are portioned, the lines that come were sent.
LinesArrive == Lin!LinesArrive

\* Series: every series is returned once and with exactly its values.
SeriesWhole == Ser!SeriesWhole
=============================================================================
