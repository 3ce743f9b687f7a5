----------------------------- MODULE MCDevices -----------------------------
(***************************************************************************)
(* Instances of the devices that answer: CANopen and its process data, the *)
(* ODrive and the BNO085.  In every behaviour one of them, `part`, is      *)
(* used.  The variables of a module have its letter in front.              *)
(***************************************************************************)
EXTENDS CANOpen

CONSTANTS
  Parts,                                    \* the modules to look at
  ODriveSlots, ODriveOut, ODrivePeriod,     \* QSize, OutSize, Period of ODrive
  ODriveEnvs, ODriveMaxReq, ODriveHorizon,  \* and Envs, MaxReq, Horizon
  BnoBus, BnoSlots, BnoOps, BnoLens,        \* BusSize, QSize, Ops, Lens of BNO085
  BnoEnvs, BnoMaxReq, BnoMaxMsg,            \* and Envs, MaxReq, MaxMsg
  PdoNodes, PdoNs, PdoWidth, PdoMap,        \* Nodes, Ns, Width, Map of PDO
  PdoPreset, PdoIntBits, PdoEnvs,           \* Preset, IntBits, Envs
  PdoMaxEnable                              \* and MaxEnable

ASSUME DevicesAssumption ==
  /\ ODriveSlots \in Nat /\ ODriveOut \in Nat /\ ODrivePeriod \in Nat \ {0}
  /\ ODriveMaxReq \in Nat /\ ODriveHorizon \in Nat
  /\ ODriveEnvs \subseteq [loss : BOOLEAN, window : BOOLEAN, twice : BOOLEAN]
  /\ BnoBus \in Nat \ {0} /\ BnoSlots \in Nat \ {0} /\ BnoOps \in Nat \ {0}
  /\ BnoLens \subseteq Nat \ {0} /\ BnoLens # {} /\ BnoMaxReq \in Nat /\ BnoMaxMsg \in Nat
  /\ BnoEnvs \subseteq [overlap : BOOLEAN, equal : BOOLEAN, ready : BOOLEAN]

\* node IDs (canopen.h:236) and the numbers of the four PDOs of each kind
ASSUME PdoAssumption ==
  /\ PdoNodes \subseteq 1 .. 127 /\ PdoNs \subseteq 1 .. 4
  /\ PdoMap \in [{"tx", "rx"} -> Seq(DOMAIN PdoWidth)] /\ PdoPreset \in Seq(DOMAIN PdoWidth)
  /\ PdoEnvs \subseteq [lossy : BOOLEAN, preset : BOOLEAN]

VARIABLE part
VARIABLES oEnv, oTime, oDrive, oPc
VARIABLES bEnv, bDrv, bNode
VARIABLES pEnv, pPdo, pWire, pNode, pSeen

\* CANOpen: every environment with one of the troubles.
Trouble(loss, late, chain, other, preempt) ==
  [loss |-> loss, late |-> late, chain |-> chain, other |-> other, preempt |-> preempt]

AllEnvs == {Trouble(FALSE, FALSE, FALSE, o, FALSE) : o \in BOOLEAN}
           \cup {Trouble(TRUE, FALSE, c, FALSE, FALSE) : c \in BOOLEAN}
           \cup {Trouble(FALSE, TRUE, FALSE, TRUE, FALSE)}
           \cup {Trouble(FALSE, FALSE, FALSE, TRUE, TRUE)}

\* The voltage of the ODrive is asked for every 500 ms and answered by then.
ODriveSafe == [loss : BOOLEAN, window : {FALSE}, twice : {FALSE}]

\* The BNO085 is polled when it is idle, or says messages of one length.
BnoSafe == {e \in [overlap : BOOLEAN, equal : BOOLEAN, ready : BOOLEAN] : e.overlap => e.equal}

\* A device like mcDSA: two objects to measure, one to set; the nodes' own map
\* is another one.
McWidth == [speed |-> 2, current |-> 1, target |-> 2]
McMap == [tx |-> <<"speed", "current">>, rx |-> <<"target">>]
OwnMap == <<"current">>
PdoSafe == [lossy : {FALSE}, preset : BOOLEAN]

Od == INSTANCE ODrive WITH
  QSize <- ODriveSlots, OutSize <- ODriveOut, Period <- ODrivePeriod, Envs <- ODriveEnvs,
  MaxReq <- ODriveMaxReq, Horizon <- ODriveHorizon,
  env <- oEnv, time <- oTime, drive <- oDrive, pc <- oPc
Bno == INSTANCE BNO085 WITH
  BusSize <- BnoBus, QSize <- BnoSlots, Ops <- BnoOps, Lens <- BnoLens, Envs <- BnoEnvs,
  MaxReq <- BnoMaxReq, MaxMsg <- BnoMaxMsg,
  env <- bEnv, drv <- bDrv, node <- bNode
Pdo == INSTANCE PDO WITH
  Nodes <- PdoNodes, Ns <- PdoNs, Width <- PdoWidth, Map <- PdoMap,
  Preset <- PdoPreset, IntBits <- PdoIntBits, Envs <- PdoEnvs, MaxEnable <- PdoMaxEnable,
  env <- pEnv, pdo <- pPdo, wire <- pWire, node <- pNode, seen <- pSeen

oVars == <<oEnv, oTime, oDrive, oPc>>
bVars == <<bEnv, bDrv, bNode>>
pVars == <<pEnv, pPdo, pWire, pNode, pSeen>>

\* What is packed into a PDO comes out of it again (canopen.h:66-96), as it does if
\* each object has at least one bit and at most those of an integer.  This is for
\* TLC to find: the proofs take it from here, as they know nothing of 2 ^ n.
ASSUME PdoPacked ==
  \A d \in {"tx", "rx"} : \A v \in Pdo!Values(PdoMap[d]) :
    Pdo!receive(PdoMap[d], Pdo!toMessage(PdoMap[d], v)) = Pdo!Unsigned(PdoMap[d], v)

devVars == <<part, vars, oVars, bVars, pVars>>

DevInit ==
  /\ part \in Parts
  /\ Init /\ Od!Init /\ Bno!Init /\ Pdo!Init
  /\ part # "CANOpen" => env = CHOOSE e \in Envs : TRUE
  /\ part # "ODrive" => oEnv = CHOOSE e \in ODriveEnvs : TRUE
  /\ part # "BNO085" => bEnv = CHOOSE e \in BnoEnvs : TRUE
  /\ part # "PDO" => pEnv = CHOOSE e \in PdoEnvs : TRUE

DevNext ==
  \/ part = "CANOpen" /\ Next /\ UNCHANGED <<part, oVars, bVars, pVars>>
  \/ part = "ODrive" /\ Od!Next /\ UNCHANGED <<part, vars, bVars, pVars>>
  \/ part = "BNO085" /\ Bno!Next /\ UNCHANGED <<part, vars, oVars, pVars>>
  \/ part = "PDO" /\ Pdo!Next /\ UNCHANGED <<part, vars, oVars, bVars>>

\* The fairness of the modules, each for the time it is used.
DevFairness ==
  /\ WF_vars(part = "CANOpen" /\ Main) /\ WF_vars(part = "CANOpen" /\ Answered)
  /\ WF_vars(part = "CANOpen" /\ \E b \in Boxes : Transmitted(b))
  /\ WF_oVars(part = "ODrive" /\ Od!Main) /\ WF_oVars(part = "ODrive" /\ Od!Transmit)
  /\ WF_bVars(part = "BNO085" /\ Bno!poll) /\ WF_bVars(part = "BNO085" /\ Bno!Wrote)
  /\ WF_bVars(part = "BNO085" /\ Bno!Fetched)

DevSpec == DevInit /\ [][DevNext]_devVars /\ DevFairness

\* ODrive: what comes was asked for, and answers go to their questions.
ODriveMatched == Od!Matched

\* BNO085: the sensor's messages are handled whole and in order, and the
\* transactions go out one by one.
BnoFetched == Bno!Whole /\ Bno!OneByOne

\* BNO085.h:429 and 437: a transaction is over when it was sent.
BnoTransactionSent == Bno!TransactionSent

\* Process data: a node and its device agree on what a PDO says.
PdoUnderstood == Pdo!Understood

\* CANOpen requests end, ODrive's poll() returns, and all that a BNO085 says and
\* is asked for is read.
NothingWaits == EveryRequestEnds /\ Od!Returns /\ Bno!AllRead
=============================================================================
