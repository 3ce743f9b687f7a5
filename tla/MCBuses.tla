------------------------------ MODULE MCBuses ------------------------------
(***************************************************************************)
(* Instances of the interrupt driven buses of the STM, I2C, SPI and UART,  *)
(* and of the logger that waits for one of them: in every behaviour one of *)
(* them, `part`, is used, in the environments in which it keeps its        *)
(* promises or, for I2C, in the one where it does not.  The variables of a *)
(* module have its letter in front.                                        *)
(***************************************************************************)
EXTENDS I2C

CONSTANTS
  Parts,                                  \* the modules to look at
  SpiConf, SpiQSize, SpiEnvs, SpiMaxReq,  \* Conf, QSize, Envs, MaxReq of SPI
  UartQSize, UartEnvs, UartHorizon,       \* QSize, Envs, Horizon of UART
  Ms, ByteTime, Lens, RxSize, MaxTx, MaxRx,  \* the others of UART
  LogQSize, LogMAXLEN, LogColor,          \* QSize, MAXLEN, Color of Log
  LogTexts, LogMaxMsg                     \* and Texts, MaxMsg

ASSUME BusesAssumption ==
  /\ SpiQSize \in Nat \ {0} /\ SpiMaxReq \in Nat
  /\ SpiEnvs \subseteq [chain : BOOLEAN, error : BOOLEAN, preempt : BOOLEAN]
  /\ UartQSize \in Nat \ {0} /\ MaxTx \in Nat /\ MaxRx \in Nat /\ UartHorizon \in Nat
  /\ Ms \in 1 .. UartHorizon /\ RxSize \in Nat \ {0} /\ ByteTime \in Nat \ {0} /\ Lens \subseteq Nat \ {0}
  /\ UartEnvs \subseteq [hang : BOOLEAN, receive : BOOLEAN, error : BOOLEAN, preempt : BOOLEAN]
  /\ LogQSize \in Nat /\ LogMAXLEN \in Nat \ {0} /\ LogColor \in Nat
  /\ LogTexts \subseteq Nat /\ LogMaxMsg \in Nat

VARIABLE part
VARIABLES sEnv, sBus, sPc
VARIABLES uEnv, uNow, uTx, uRx, uPc
VARIABLES gEnv, gOut, gBuf, gState, gSaid, gHeard

\* Environments of I2C: chained requests, but every transfer ends in time or
\* not at all; the same with interrupts inside of push, for a bus that is no
\* slave; late ends, but callbacks that do not push.
Chained == {[chain |-> TRUE, late |-> FALSE, slave |-> s, preempt |-> FALSE] : s \in BOOLEAN}
Preempted == {[chain |-> TRUE, late |-> FALSE, slave |-> FALSE, preempt |-> TRUE]}
Unchained == {[chain |-> FALSE, late |-> TRUE, slave |-> TRUE, preempt |-> FALSE]}

Safe == Chained \cup Preempted \cup Unchained
LateAndChained == {[chain |-> TRUE, late |-> TRUE, slave |-> FALSE, preempt |-> FALSE]}

\* Environments of SPI: chained requests without interrupts inside of push, or
\* the opposite.  Two devices in different modes.
SpiSafe == {e \in [chain : BOOLEAN, error : BOOLEAN, preempt : BOOLEAN] : ~(e.chain /\ e.preempt)}
TwoModes == [d \in {"adc", "angle"} |-> IF d = "adc" THEN 1 ELSE 3]

\* A byte takes a third of a millisecond, 28800 baud or so.  What the port is
\* exposed to may happen and need not, so that two exposures are enough:
\* to all but interrupts inside of push, and to these with a line that is silent.
UartExposed(what) == [hang |-> "hang" \in what, receive |-> "receive" \in what,
                      error |-> "error" \in what, preempt |-> "preempt" \in what]
UartSafe == {UartExposed(what) : what \in {{"hang", "receive", "error"}, {"hang", "preempt"}}}
UartQuiet == {UartExposed({})}

Spi == INSTANCE SPI WITH
  Conf <- SpiConf, QSize <- SpiQSize, MaxReq <- SpiMaxReq, Envs <- SpiEnvs,
  env <- sEnv, bus <- sBus, pc <- sPc
Uart == INSTANCE UART WITH
  QSize <- UartQSize, Envs <- UartEnvs, Horizon <- UartHorizon,
  env <- uEnv, now <- uNow, tx <- uTx, rx <- uRx, pc <- uPc
Lg == INSTANCE Log WITH
  QSize <- LogQSize, MAXLEN <- LogMAXLEN, Color <- LogColor, Texts <- LogTexts,
  MaxMsg <- LogMaxMsg,
  env <- gEnv, out <- gOut, buf <- gBuf, state <- gState, said <- gSaid,
  heard <- gHeard

sVars == <<sEnv, sBus, sPc>>
uVars == <<uEnv, uNow, uTx, uRx, uPc>>
gVars == <<gEnv, gOut, gBuf, gState, gSaid, gHeard>>

busVars == <<part, vars, sVars, uVars, gVars>>

BusInit ==
  /\ part \in Parts
  /\ Init /\ Spi!Init /\ Uart!Init /\ Lg!Init
  /\ part # "I2C" => env = CHOOSE e \in Envs : TRUE
  /\ part # "SPI" => sEnv = CHOOSE e \in SpiEnvs : TRUE
  /\ part # "UART" => uEnv = CHOOSE e \in UartEnvs : TRUE
  /\ part # "Log" => gEnv = [buffered |-> FALSE, drained |-> "main"]

BusNext ==
  \/ part = "I2C" /\ Next /\ UNCHANGED <<part, sVars, uVars, gVars>>
  \/ part = "SPI" /\ Spi!Next /\ UNCHANGED <<part, vars, uVars, gVars>>
  \/ part = "UART" /\ Uart!Next /\ UNCHANGED <<part, vars, sVars, gVars>>
  \/ part = "Log" /\ Lg!Next /\ UNCHANGED <<part, vars, sVars, uVars>>

\* The fairness of the modules, each for the time it is used.
BusFairness ==
  /\ WF_sVars(part = "SPI" /\ Spi!TransferDone) /\ WF_sVars(part = "SPI" /\ Spi!Main)
  /\ WF_uVars(part = "UART" /\ Uart!Quantum) /\ WF_uVars(part = "UART" /\ Uart!TxDone)
  /\ WF_uVars(part = "UART" /\ Uart!Main)
  /\ WF_gVars(part = "Log" /\ Lg!Spin) /\ WF_gVars(part = "Log" /\ Lg!Drain)

BusSpec == BusInit /\ [][BusNext]_busVars /\ BusFairness

\* SPI: requests are transferred, called back and removed in order and once,
\* and an error loses none of them; chip and mode are those of the request
\* under way; no assert fails.
SpiServed == Spi!Served /\ Spi!OneChip

\* UART: buffers are transmitted in order and once to their end, and a deadline
\* cuts off less than a millisecond of a transmission that runs.
UartTransmitted == Uart!Transmitted /\ Uart!HardlyCut

\* UART: the receiver listens; its reader gets what came in order and once, but
\* what came while its queue was full, and what an error or the abort of a
\* transmission cut off while it was being received.
UartReceived == Uart!Received

\* Log: what is logged is heard, once and in order.
LogHeard == Lg!Heard

\* The SPI bus comes to rest again and again, UART transmits all that is pushed
\* unless it hangs with no push to come, and a logger over a sink that an interrupt
\* empties leaves its loop.
AllGetsOut == Spi!ComesToRest /\ Uart!ComesToRest /\ Lg!SpinEnds
=============================================================================
