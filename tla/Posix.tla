------------------------------- MODULE Posix -------------------------------
(***************************************************************************)
(* linux/sys/comm.h, linux/sys/can.h: a terminal, a UDP server and a CAN   *)
(* socket as Sink and Source.  push() queues and writes what the kernel    *)
(* takes; empty() reads; nothing else looks at the file descriptor.        *)
(*                                                                         *)
(* The kernel has room for Room units.  A terminal takes part of a buffer  *)
(* when there is no room for all of it, the sockets all or nothing.  The   *)
(* loop of process() is one step per write.                                *)
(***************************************************************************)
EXTENDS Integers, Sequences, SequencesExt

CONSTANTS
  QSize,     \* slots of either queue
  Size,      \* units of a message
  Room,      \* units the kernel holds
  MaxTx,     \* bound: messages pushed
  MaxRx      \* bound: messages that arrive

VARIABLES
  kind,      \* "TTY", "UDP" or "CAN"
  tx, rx,    \* the queues
  pushed,    \* messages pushed
  room,      \* units the kernel still takes
  peer,      \* UDP: somebody to send to is known
  inbox,     \* what the kernel holds for us
  came,      \* messages that came
  may,       \* the last empty() was false, and no pop() has followed
  pc,        \* "out", or in process()
  ok,        \* no assert failed
  whole,     \* history: messages written as a whole
  part,      \* history: the message of which part was written last, or 0
  mixed,     \* history: another message was written after a part
  read       \* history: messages popped

history == <<whole, part, mixed, read>>
vars == <<kind, tx, rx, pushed, room, peer, inbox, came, may, pc, ok, history>>

Init == /\ kind \in {"TTY", "UDP", "CAN"}
        /\ tx = << >> /\ rx = << >> /\ pushed = 0 /\ room = Room
        /\ peer = (kind # "UDP")
        /\ inbox = << >> /\ came = 0 /\ may = FALSE
        /\ pc = "out" /\ ok = TRUE
        /\ whole = << >> /\ part = 0 /\ mixed = FALSE /\ read = << >>

-----------------------------------------------------------------------------
(* The kernel and the other side                                           *)

\* units of message m that write() takes; 0 stands for EAGAIN, and for the
\* error of a server that does not know its peer
Accepted(m) ==
  CASE ~peer                -> 0
    [] peer /\ room >= Size -> Size
    [] peer /\ room < Size  -> IF kind = "TTY" THEN room ELSE 0

Sent == /\ room < Room
        /\ room' = room + 1
        /\ UNCHANGED <<kind, tx, rx, pushed, peer, inbox, came, may, pc, ok, history>>

Arrive == /\ came < MaxRx
          /\ came' = came + 1 /\ inbox' = Append(inbox, came')
          /\ UNCHANGED <<kind, tx, rx, pushed, room, peer, may, pc, ok, history>>

-----------------------------------------------------------------------------
(* Sink: push and process                                                  *)

Push == /\ pc = "out" /\ ok /\ Len(tx) < QSize /\ pushed < MaxTx
        /\ pushed' = pushed + 1 /\ tx' = Append(tx, pushed')
        /\ pc' = "write"
        /\ UNCHANGED <<kind, rx, room, peer, inbox, came, may, ok, history>>

\* mutant: the message leaves the queue when part of it was written
WrittenPart(n) == IF n > 0 THEN Tail(tx) ELSE tx

\* the shifted rest of a partial write is that of a copy: the front stays
Written(n) == IF n = Size THEN Tail(tx) ELSE tx

Write == /\ pc = "write" /\ ok /\ tx # << >>
         /\ LET n == Accepted(Head(tx))
            IN  /\ tx' = Written(n)
                /\ room' = room - n
                /\ whole' = IF n = Size THEN Append(whole, Head(tx)) ELSE whole
                /\ part' = CASE n = 0 -> part [] n = Size -> 0 [] OTHER -> Head(tx)
                /\ mixed' = (mixed \/ (n > 0 /\ part \notin {0, Head(tx)}))
                /\ pc' = IF n = 0 THEN "done" ELSE "write"
         /\ UNCHANGED <<kind, rx, pushed, peer, inbox, came, may, ok, read>>

WroteAll == /\ pc = "write" /\ ok /\ tx = << >> /\ pc' = "done"
            /\ UNCHANGED <<kind, tx, rx, pushed, room, peer, inbox, came, may, ok, history>>

\* empty() reads one message, into a queue it does not look at
Fetched == /\ rx' = IF inbox = << >> THEN rx ELSE Append(rx, Head(inbox))
           /\ inbox' = IF inbox = << >> THEN inbox ELSE Tail(inbox)
           /\ ok' = (inbox = << >> \/ Len(rx) < QSize)

\* the CAN socket reads at the end of process()
Done == /\ pc = "done" /\ ok
        /\ IF kind = "CAN" THEN Fetched ELSE UNCHANGED <<rx, inbox, ok>>
        /\ pc' = "out"
        /\ UNCHANGED <<kind, tx, pushed, room, peer, came, may, history>>

-----------------------------------------------------------------------------
(* Source: empty and pop, by a reader that pops when there is something    *)

empty == /\ pc = "out" /\ ok /\ ~may
         /\ Fetched
         /\ peer' = (peer \/ inbox # << >>)
         /\ may' = (inbox # << >> \/ rx # << >>)
         /\ UNCHANGED <<kind, tx, pushed, room, came, pc, history>>

pop == /\ pc = "out" /\ ok /\ may
       /\ read' = Append(read, Head(rx)) /\ rx' = Tail(rx) /\ may' = FALSE
       /\ UNCHANGED <<kind, tx, pushed, room, peer, inbox, came, pc, ok, whole, part, mixed>>

Next == Sent \/ Arrive \/ Push \/ Write \/ WroteAll \/ Done \/ empty \/ pop

Spec == Init /\ [][Next]_vars

-----------------------------------------------------------------------------
(* Properties                                                              *)

\* Messages are written in the order pushed, each of them as a whole once.  A
\* terminal may have written parts of a message before it, always from the
\* start, and nothing in between; the sockets have not.
WholeInOrder ==
  /\ whole \o tx = [k \in 1 .. pushed |-> k]
  /\ part # 0 => kind = "TTY" /\ tx # << >> /\ part = Head(tx)
  /\ ~mixed

\* What comes is read in order and none of it is lost; the queue of a reader
\* that pops whatever it is told of overflows only at the CAN socket, by what
\* was read in push().
ReadInOrder ==
  /\ ok => read \o rx \o inbox = [k \in 1 .. came |-> k]
  /\ may => rx # << >>
  /\ ~ok => kind = "CAN" /\ Len(rx) = QSize + 1

=============================================================================
