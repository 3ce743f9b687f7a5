-------------------------------- MODULE CAN --------------------------------
(***************************************************************************)
(* stm/can.cpp: the CAN controller's mailboxes with a queue behind them.   *)
(* The driver is the part of a record that has the fields                  *)
(*   box     the mailboxes: a message, or None                             *)
(*   active  tx.active, the mailboxes the driver believes to be busy       *)
(*   tx      tx.q                                                          *)
(*   ok      no assert failed                                              *)
(* and its functions are operators on such a record, to be used by the     *)
(* module of whoever pushes messages.                                      *)
(***************************************************************************)
EXTENDS Integers, Sequences, FiniteSets

CONSTANTS Boxes,   \* the mailboxes: 0 .. 2
          TxSize   \* slots of tx.q

ASSUME CANAssumption == IsFiniteSet(Boxes) /\ Boxes \subseteq Nat /\ TxSize \in Nat \ {0}

None == -1

Mailboxes == [box |-> [b \in Boxes |-> None], active |-> {}, tx |-> << >>, ok |-> TRUE]

\* HAL_CAN_GetTxMailboxesFreeLevel
FreeBoxes(s) == {b \in Boxes : s.box[b] = None}

\* HW::full
Full(s) == Len(s.tx) = TxSize

\* HAL_CAN_AddTxMessage
Add(s, b, msg) == [s EXCEPT !.box[b] = msg]

Mark(s, b) == [s EXCEPT !.active = @ \cup {b}]

Enqueue(s, msg) == IF Full(s) THEN [s EXCEPT !.ok = FALSE]
                              ELSE [s EXCEPT !.tx = Append(@, msg)]

LowestFree(s) == CHOOSE b \in FreeBoxes(s) : \A c \in FreeBoxes(s) : b <= c

\* HW::push without anybody in between
push(s, msg) ==
  IF FreeBoxes(s) = {} THEN Enqueue(s, msg)
  ELSE LET b == LowestFree(s) IN Mark(Add(s, b, msg), b)

\* mutant: the queue stays where it is
RefilledNot(s) == s

\* tx.q moves on into the mailboxes that are free
Refilled(s) ==
  LET rank(b) == Cardinality({c \in FreeBoxes(s) : c <= b})
      moved == {b \in FreeBoxes(s) : rank(b) <= Len(s.tx)}
  IN  [s EXCEPT !.box = [b \in Boxes |-> IF b \in moved THEN s.tx[rank(b)] ELSE s.box[b]],
                !.active = @ \cup moved,
                !.tx = SubSeq(@, Cardinality(moved) + 1, Len(@))]

\* the interrupt of a mailbox that is empty again
_tx_complete(s, b) ==
  IF b \notin s.active THEN [s EXCEPT !.ok = FALSE]
  ELSE Refilled([s EXCEPT !.active = @ \ {b}])

=============================================================================
