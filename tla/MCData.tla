------------------------------- MODULE MCData -------------------------------
(***************************************************************************)
(* Instances of what keeps, computes or passes on data: Queue, the curves, *)
(* the sums and the sensors, the helpers for streams (Streams) and the     *)
(* ports of Linux (Posix), beside the framing of MCSerial (Min, Lines,     *)
(* Series).  In every behaviour one of them, `part`, is used.  The         *)
(* variables of a module have its letter in front.                         *)
(***************************************************************************)
EXTENDS Queue, MCSerial

CONSTANTS
  CvSize, CvX,                                 \* MaxSize, X of Curves
  AngCircle, AngJump, AngGlitch,               \* Circle, Jump, Glitch of Angles
  AngBound, AngMaxOps,                         \* and Bound, MaxOps
  AvgN, AvgElem, AvgMaxIn,                     \* N, Elem, MaxIn of Average
  AdsRanges, AdsQSize, AdsMaxReq,              \* Ranges, QSize, MaxReq of ADS1115
  RtdFaults, RtdHalf, RtdQSize, RtdMaxReq,     \* Faults, Half, QSize, MaxReq of MAX31865
  PxQSize, PxSize, PxRoom, PxMaxTx, PxMaxRx,   \* QSize, Size, Room, MaxTx, MaxRx of Posix
  StrQSize, StrMaxIn                           \* QSize, MaxIn of Streams

\* AS5048b.h:50-55: a circle of 16384, jumps above 10000, glitches above 1000
ASSUME AnglesAssumption ==
  /\ AngCircle \in Nat \ {0, 1} /\ AngJump \in Nat /\ AngGlitch \in Nat
  /\ AngGlitch < AngCircle - AngJump /\ AngCircle - AngJump <= AngJump + 1
  /\ AngBound \in Nat /\ AngMaxOps \in Nat

ASSUME DataAssumption ==
  /\ CvSize \in Nat /\ CvX \subseteq Int
  /\ AvgN \in Nat \ {0} /\ AvgElem \subseteq Int /\ AvgMaxIn \in Nat
  /\ AdsQSize \in Nat /\ AdsMaxReq \in Nat
  /\ RtdHalf \in Nat /\ RtdQSize \in Nat /\ RtdMaxReq \in Nat
  /\ PxQSize \in Nat \ {0} /\ PxSize \in Nat \ {0} /\ PxRoom \in Nat
  /\ PxMaxTx \in Nat /\ PxMaxRx \in Nat
  /\ StrQSize \in Nat /\ StrMaxIn \in Nat

VARIABLE part
VARIABLES cKind, cSize, cP, cX, cI, cLeft, cRight, cSteps, cPc, cRes
VARIABLES aKind, aTurned, aBase, aBInit, aLast, aAngle, aPc, aOrigin,
          aUpto, aZeros, aOps
VARIABLES vSamples, vTotal, vSeen
VARIABLES dEFullScale, dAdc, dBus, dChip, dPc, dTaken, dPointed, dReqs
VARIABLES mData, mBus, mLatch, mPc, mReg, mRet, mWord, mTold, mTorn,
          mAlone, mOwed, mLost, mReqs
VARIABLES pKind, pTx, pRx, pPushed, pRoom, pPeer, pInbox, pCame, pMay, pPc,
          pOk, pWhole, pPart, pMixed, pRead
VARIABLES sEnv, sFrom, sCame, sEnd, sGot, sOk

\* Positions and values for the configuration
Four == 1 .. 4
Readings == {-2, 1, 5}

\* Min: the bytes that stuffing is about, HEADER_BYTE and STUFF_BYTE
H == 170
SmallPayloads == {<< >>, <<H, H>>, <<H, 85, H, H, H>>}
SmallSums == {<<H, H, H, H>>, <<0, H, H, 0>>, <<1, 2, 3, H>>}

Cv == INSTANCE Curves WITH
  MaxSize <- CvSize, X <- CvX,
  kind <- cKind, size <- cSize, P <- cP, x <- cX, i <- cI, left <- cLeft,
  right <- cRight, steps <- cSteps, pc <- cPc, res <- cRes
Ang == INSTANCE Angles WITH
  Circle <- AngCircle, Jump <- AngJump, Glitch <- AngGlitch,
  Bound <- AngBound, MaxOps <- AngMaxOps,
  kind <- aKind, turned <- aTurned, base <- aBase, bInit <- aBInit,
  last <- aLast, angle <- aAngle, pc <- aPc, origin <- aOrigin,
  upto <- aUpto, zeros <- aZeros, ops <- aOps
Avg == INSTANCE Average WITH
  N <- AvgN, MaxIn <- AvgMaxIn, Elem <- AvgElem, Garbage <- 0,
  samples <- vSamples, total <- vTotal, seen <- vSeen
Ads == INSTANCE ADS1115 WITH
  Ranges <- AdsRanges, QSize <- AdsQSize, MaxReq <- AdsMaxReq,
  eFullScale <- dEFullScale, adc <- dAdc, bus <- dBus, chip <- dChip,
  pc <- dPc, taken <- dTaken, pointed <- dPointed, reqs <- dReqs
Max == INSTANCE MAX31865 WITH
  Faults <- RtdFaults, Half <- RtdHalf, QSize <- RtdQSize, MaxReq <- RtdMaxReq,
  data <- mData, bus <- mBus, latch <- mLatch, pc <- mPc, reg <- mReg,
  ret <- mRet, word <- mWord, told <- mTold, torn <- mTorn,
  alone <- mAlone, owed <- mOwed, lost <- mLost, reqs <- mReqs
Px == INSTANCE Posix WITH
  QSize <- PxQSize, Size <- PxSize, Room <- PxRoom, MaxTx <- PxMaxTx,
  MaxRx <- PxMaxRx,
  kind <- pKind, tx <- pTx, rx <- pRx, pushed <- pPushed, room <- pRoom,
  peer <- pPeer, inbox <- pInbox, came <- pCame, may <- pMay, pc <- pPc,
  ok <- pOk, whole <- pWhole, part <- pPart, mixed <- pMixed, read <- pRead
Str == INSTANCE Streams WITH
  QSize <- StrQSize, MaxIn <- StrMaxIn,
  env <- sEnv, from <- sFrom, came <- sCame, end <- sEnd, got <- sGot,
  ok <- sOk

cVars == <<cKind, cSize, cP, cX, cI, cLeft, cRight, cSteps, cPc, cRes>>
aVars == <<aKind, aTurned, aBase, aBInit, aLast, aAngle, aPc, aOrigin,
           aUpto, aZeros, aOps>>
vVars == <<vSamples, vTotal, vSeen>>
dVars == <<dEFullScale, dAdc, dBus, dChip, dPc, dTaken, dPointed, dReqs>>
mVars == <<mData, mBus, mLatch, mPc, mReg, mRet, mWord, mTold, mTorn,
           mAlone, mOwed, mLost, mReqs>>
pVars == <<pKind, pTx, pRx, pPushed, pRoom, pPeer, pInbox, pCame, pMay,
           pPc, pOk, pWhole, pPart, pMixed, pRead>>
sVars == <<sEnv, sFrom, sCame, sEnd, sGot, sOk>>

dataVars == <<part, vars, cVars, aVars, vVars, dVars, mVars, nVars, pVars, sVars, lVars, rVars>>

\* A part that is not looked at has one initial state.
DataInit ==
  /\ part \in {"Queue", "Curves", "Angles", "Average", "ADS1115",
              "MAX31865", "Min", "Posix", "Streams", "Lines", "Series"}
  /\ Init /\ (part # "Queue" => q = Fresh(Size))
  /\ Cv!Init /\ (part # "Curves" => cKind = "linear" /\ cSize = 0 /\ cX = CHOOSE x \in CvX : TRUE)
  /\ Ang!Init /\ (part # "Angles" => aKind = "Encoder" /\ aTurned = 0)
  /\ Avg!Init
  /\ Ads!Init /\ (part # "ADS1115" => dEFullScale = CHOOSE r \in AdsRanges : TRUE)
  /\ Max!Init /\ (part # "MAX31865" => mLatch = {} /\ mWord.value = 0)
  /\ Mn!Init /\ (part # "Min" => nSums = CHOOSE s \in Mn!Checksums : TRUE)
  /\ Px!Init /\ (part # "Posix" => pKind = "TTY")
  /\ Str!Init /\ (part # "Streams" => sEnv = "Tee")
  /\ Lin!Init /\ Ser!Init

DataNext ==
  \/ part = "Queue" /\ Next /\ UNCHANGED <<part, cVars, aVars, vVars, dVars, mVars, nVars, pVars, sVars, lVars, rVars>>
  \/ part = "Curves" /\ Cv!Next /\ UNCHANGED <<part, vars, aVars, vVars, dVars, mVars, nVars, pVars, sVars, lVars, rVars>>
  \/ part = "Angles" /\ Ang!Next /\ UNCHANGED <<part, vars, cVars, vVars, dVars, mVars, nVars, pVars, sVars, lVars, rVars>>
  \/ part = "Average" /\ Avg!Next /\ UNCHANGED <<part, vars, cVars, aVars, dVars, mVars, nVars, pVars, sVars, lVars, rVars>>
  \/ part = "ADS1115" /\ Ads!Next /\ UNCHANGED <<part, vars, cVars, aVars, vVars, mVars, nVars, pVars, sVars, lVars, rVars>>
  \/ part = "MAX31865" /\ Max!Next /\ UNCHANGED <<part, vars, cVars, aVars, vVars, dVars, nVars, pVars, sVars, lVars, rVars>>
  \/ part = "Min" /\ Mn!Next /\ UNCHANGED <<part, vars, cVars, aVars, vVars, dVars, mVars, pVars, sVars, lVars, rVars>>
  \/ part = "Posix" /\ Px!Next /\ UNCHANGED <<part, vars, cVars, aVars, vVars, dVars, mVars, nVars, sVars, lVars, rVars>>
  \/ part = "Streams" /\ Str!Next /\ UNCHANGED <<part, vars, cVars, aVars, vVars, dVars, mVars, nVars, pVars, lVars, rVars>>
  \/ part = "Lines" /\ Lin!Next /\ UNCHANGED <<part, vars, cVars, aVars, vVars, dVars, mVars, nVars, pVars, sVars, rVars>>
  \/ part = "Series" /\ Ser!Next /\ UNCHANGED <<part, vars, cVars, aVars, vVars, dVars, mVars, nVars, pVars, sVars, lVars>>

DataSpec == DataInit /\ [][DataNext]_dataVars

\* Curves: the search ends, and at a segment that x is in.
CurveFound == Cv!Bounded /\ Cv!Right

\* Moving average and angles: what is added up is what was seen, or moved.
SumsFollow == Avg!Averages /\ Ang!Follows

\* ADS1115 and MAX31865: the driver is right about its chip, and tells the faults
\* of each reading, but of one that comes between the load and the store of
\* clearFaults().
SensorsRead == Ads!Agree /\ Max!Reported

\* Posix: messages are written as wholes in order, and what comes is read in
\* order; only the CAN socket's queue overflows.
PosixInOrder == Px!WholeInOrder /\ Px!ReadInOrder

\* Streams: both ends of a splitter are given the same, and all of it.
SameForBoth == Str!SameForBoth
=============================================================================
