--------------------------- MODULE CANOpenProofs ---------------------------
(***************************************************************************)
(* What is proved of the CANopen device for any number of mailboxes and    *)
(* any size of its queues, in four layers:                                 *)
(*                                                                         *)
(*   AccountInv  every request made is accounted for once, in every        *)
(*               environment, interrupts inside of pushorqueue included    *)
(*   CalmInv     what the driver knows of its mailboxes, and what waits    *)
(*               is waited for, unless interrupts come there               *)
(*   SoloInv     there is one request to answer at a time, unless answers  *)
(*               come late either                                          *)
(*   OrderInv    requests go out in the order made, if besides none is     *)
(*               lost, chained or discarded                                *)
(*                                                                         *)
(* Each condition stands in the property it is needed for. Under           *)
(* preemption a message may wait without a deadline or behind free         *)
(* mailboxes; it is not lost and does not go out twice.                    *)
(***************************************************************************)
EXTENDS CANOpen, Lemmas

Members(s) == {s[k] : k \in DOMAIN s}

\* The fields that the proof looks at are there.
Device(s) ==
  "q" \in DOMAIN s /\ "out" \in DOMAIN s /\ "made" \in DOMAIN s /\ "refused" \in DOMAIN s

\* All requests of s are accounted for, those in `hand` by whoever moves them.
Account(s, hand) ==
  /\ Device(s) /\ s.made \in Nat
  /\ s.q \in Seq(Nat) /\ s.out \in Seq(Nat)
  /\ IsFiniteSet(s.refused) /\ IsFiniteSet(hand) /\ hand \cap s.refused = {}
  /\ hand \cup Members(s.out) \cup Members(s.q) \cup s.refused = 1 .. s.made
  /\ Cardinality(hand) + Len(s.out) + Len(s.q) + Cardinality(s.refused) = s.made

\* The request that pushorqueue has been called with and has not yet moved.
Hand == IF pc \in {"decide", "queue", "trypush", "enqueue", "add"} /\ msg # Other
        THEN {msg} ELSE {}

AccountInv == /\ Account(dev, Hand)
              /\ pc \in {"decide", "queue"} => msg # Other

\* Nothing that is accounted for moves from s to t.
Still(s, t) == Device(s) => /\ Device(t) /\ t.q = s.q /\ t.out = s.out
                            /\ t.made = s.made /\ t.refused = s.refused

-----------------------------------------------------------------------------
(* Sequences                                                               *)

LEMMA MembersAppend ==
  ASSUME NEW s \in Seq(Nat), NEW x \in Nat
  PROVE  Members(Append(s, x)) = Members(s) \cup {x}
<1> DEFINE t == Append(s, x)
<1>1. DOMAIN t = 1 .. Len(s) + 1 /\ DOMAIN s = 1 .. Len(s) /\ Len(s) \in Nat
  OBVIOUS
<1>2. t[Len(s) + 1] = x /\ \A k \in 1 .. Len(s) : t[k] = s[k]
  OBVIOUS
<1> HIDE DEF t
<1>3. \A k \in 1 .. Len(s) + 1 : k \in 1 .. Len(s) \/ k = Len(s) + 1
  BY <1>1
<1>4. 1 .. Len(s) \subseteq 1 .. Len(s) + 1 /\ Len(s) + 1 \in 1 .. Len(s) + 1
  BY <1>1
<1>5. Members(t) = Members(s) \cup {x}
  BY <1>1, <1>2, <1>3, <1>4 DEF Members
<1> QED BY <1>5 DEF t

LEMMA MembersTail ==
  ASSUME NEW s \in Seq(Nat), s # << >>
  PROVE  /\ Head(s) \in Nat /\ Tail(s) \in Seq(Nat) /\ Len(Tail(s)) = Len(s) - 1
         /\ Members(s) = {Head(s)} \cup Members(Tail(s))
<1> DEFINE t == Tail(s)
<1>1. Len(s) \in Nat /\ Len(s) > 0 /\ DOMAIN s = 1 .. Len(s) /\ Head(s) = s[1] /\ Head(s) \in Nat
  OBVIOUS
<1>2. t \in Seq(Nat) /\ Len(t) = Len(s) - 1 /\ DOMAIN t = 1 .. Len(s) - 1
  OBVIOUS
<1>3. \A k \in 1 .. Len(s) - 1 : t[k] = s[k + 1]
  OBVIOUS
<1> HIDE DEF t
<1>4. \A k \in 1 .. Len(s) : k = 1 \/ (k - 1 \in 1 .. Len(s) - 1 /\ (k - 1) + 1 = k)
  BY <1>1
<1>5. \A k \in 1 .. Len(s) - 1 : k + 1 \in 1 .. Len(s)
  BY <1>1
<1>6. 1 \in 1 .. Len(s)
  BY <1>1
<1>7. ASSUME NEW x \in Members(s)
      PROVE  x = Head(s) \/ x \in Members(t)
  <2>1. PICK k \in 1 .. Len(s) : x = s[k]
    BY <1>1, <1>7 DEF Members
  <2>2. CASE k = 1
    BY <1>1, <2>1, <2>2
  <2>3. CASE k # 1
    <3>1. k - 1 \in 1 .. Len(s) - 1 /\ (k - 1) + 1 = k
      BY <1>4, <2>3
    <3>2. t[k - 1] = x
      BY <1>3, <2>1, <3>1
    <3> QED BY <1>2, <3>1, <3>2 DEF Members
  <2> QED BY <2>2, <2>3
<1>8. Head(s) \in Members(s)
  BY <1>1, <1>6 DEF Members
<1>9. ASSUME NEW x \in Members(t)
      PROVE  x \in Members(s)
  <2>1. PICK k \in 1 .. Len(s) - 1 : x = t[k]
    BY <1>2, <1>9 DEF Members
  <2>2. k + 1 \in 1 .. Len(s) /\ x = s[k + 1]
    BY <1>3, <1>5, <2>1
  <2> QED BY <1>1, <2>2 DEF Members
<1>10. Members(s) = {Head(s)} \cup Members(t)
  BY <1>7, <1>8, <1>9
<1> QED BY <1>1, <1>2, <1>10 DEF t

-----------------------------------------------------------------------------
(* What a request may do                                                   *)

\* The sum of Account stays the same when one term passes 1 to another.
LEMMA OneMoves ==
  ASSUME NEW s, NEW hand, NEW left, Account(s, hand),
         Cardinality(left) \in Nat, Cardinality(left) + 1 = Cardinality(hand)
  PROVE  /\ Cardinality(left) + (Len(s.out) + 1) + Len(s.q) + Cardinality(s.refused) = s.made
         /\ Cardinality(left) + Len(s.out) + (Len(s.q) + 1) + Cardinality(s.refused) = s.made
         /\ Cardinality(left) + Len(s.out) + Len(s.q) + (Cardinality(s.refused) + 1) = s.made
<1> DEFINE a == Cardinality(left)
           h == Cardinality(hand)
           o == Len(s.out)
           q == Len(s.q)
           r == Cardinality(s.refused)
           m == s.made
<1>1. a \in Nat /\ h \in Nat /\ o \in Nat /\ q \in Nat /\ r \in Nat /\ m \in Nat
  BY FS_CardinalityType DEF Account
<1>2. a + 1 = h
  OBVIOUS
<1>3. h + o + q + r = m
  BY DEF Account
<1> HIDE DEF a, h, o, q, r, m
<1>4. a + (o + 1) + q + r = m /\ a + o + (q + 1) + r = m /\ a + o + q + (r + 1) = m
  BY <1>1, <1>2, <1>3
<1> QED BY <1>4 DEF a, o, q, r, m

LEMMA StillAccount ==
  ASSUME NEW s, NEW t, NEW hand, Account(s, hand), Still(s, t)
  PROVE  Account(t, hand)
BY DEF Account, Still

\* It is made.
LEMMA MadeAccount ==
  ASSUME NEW s, NEW hand, Account(s, hand)
  PROVE  /\ Account([s EXCEPT !.made = @ + 1], hand \cup {s.made + 1})
         /\ s.made + 1 \in Nat /\ s.made + 1 # Other
<1> DEFINE n == s.made + 1
           t == [s EXCEPT !.made = @ + 1]
<1>1. Device(t) /\ t.made = n /\ t.q = s.q /\ t.out = s.out /\ t.refused = s.refused
  BY DEF Account, Device
<1>2. n \in Nat /\ n # Other /\ n \notin 1 .. s.made /\ 1 .. n = 1 .. s.made \cup {n}
  BY DEF Account, Other
<1> HIDE DEF t, n
<1>3. n \notin hand /\ n \notin s.refused
  BY <1>2 DEF Account
<1>4. IsFiniteSet(hand \cup {n}) /\ Cardinality(hand \cup {n}) = Cardinality(hand) + 1
  BY <1>3, FS_AddElement DEF Account
<1>5. (hand \cup {n}) \cap t.refused = {}
  BY <1>1, <1>3 DEF Account
<1>6. (hand \cup {n}) \cup Members(t.out) \cup Members(t.q) \cup t.refused = 1 .. t.made
  BY <1>1, <1>2 DEF Account
<1>7. /\ Cardinality(hand) \in Nat /\ Len(s.out) \in Nat
      /\ Len(s.q) \in Nat /\ Cardinality(s.refused) \in Nat
  BY FS_CardinalityType DEF Account
<1>8. Cardinality(hand \cup {n}) + Len(t.out) + Len(t.q) + Cardinality(t.refused) = t.made
  <2> DEFINE h == Cardinality(hand)
             o == Len(s.out)
             q == Len(s.q)
             r == Cardinality(s.refused)
             m == s.made
  <2>1. h \in Nat /\ o \in Nat /\ q \in Nat /\ r \in Nat /\ m \in Nat /\ h + o + q + r = m
    BY <1>7 DEF Account
  <2>2. Cardinality(hand \cup {n}) = h + 1 /\ Len(t.out) = o /\ Len(t.q) = q /\ Cardinality(t.refused) = r
    BY <1>1, <1>4
  <2>3. t.made = m + 1
    BY <1>1 DEF n
  <2> HIDE DEF h, o, q, r, m
  <2>4. (h + 1) + o + q + r = m + 1
    BY <2>1
  <2> QED BY <2>2, <2>3, <2>4
<1>9. Account(t, hand \cup {n})
  BY <1>1, <1>2, <1>4, <1>5, <1>6, <1>8 DEF Account
<1> QED BY <1>2, <1>9 DEF t, n

\* It is taken from the hand, to be put elsewhere.
LEMMA HandLess ==
  ASSUME NEW s, NEW hand, NEW n \in hand, Account(s, hand)
  PROVE  /\ IsFiniteSet(hand \ {n}) /\ Cardinality(hand \ {n}) + 1 = Cardinality(hand)
         /\ n \in Nat /\ n \notin s.refused
         /\ Cardinality(hand) \in Nat /\ Cardinality(hand \ {n}) \in Nat
         /\ Cardinality(s.refused) \in Nat /\ Len(s.out) \in Nat /\ Len(s.q) \in Nat
<1>1. IsFiniteSet(hand \ {n}) /\ Cardinality(hand \ {n}) = Cardinality(hand) - 1
  BY FS_RemoveElement DEF Account
<1>2. Cardinality(hand) \in Nat /\ Cardinality(hand \ {n}) \in Nat /\ Cardinality(s.refused) \in Nat
  BY <1>1, FS_CardinalityType DEF Account
<1>3. n \in Nat /\ n \notin s.refused
  BY DEF Account
<1> QED BY <1>1, <1>2, <1>3 DEF Account

\* It goes out.
LEMMA OutAccount ==
  ASSUME NEW s, NEW hand, NEW n \in hand, Account(s, hand)
  PROVE  Account(Out(s, n), hand \ {n})
<1> DEFINE t == Out(s, n)
           o == Append(s.out, n)
<1>h. /\ IsFiniteSet(hand \ {n}) /\ Cardinality(hand \ {n}) + 1 = Cardinality(hand)
      /\ n \in Nat /\ n \notin s.refused
      /\ Cardinality(hand) \in Nat /\ Cardinality(hand \ {n}) \in Nat
      /\ Cardinality(s.refused) \in Nat /\ Len(s.out) \in Nat /\ Len(s.q) \in Nat
  BY HandLess
<1>1. Device(t) /\ t.out = o /\ t.q = s.q /\ t.made = s.made /\ t.refused = s.refused
  BY DEF Account, Device, Out
<1> HIDE DEF t
<1>2. s.out \in Seq(Nat) /\ n \in Nat
  BY <1>h DEF Account
<1>3. o \in Seq(Nat) /\ Len(o) = Len(s.out) + 1 /\ Members(o) = Members(s.out) \cup {n}
  BY <1>2, MembersAppend
<1> HIDE DEF o
<1>4. (hand \ {n}) \cup Members(o) \cup Members(s.q) \cup s.refused = 1 .. s.made
  BY <1>3 DEF Account
<1>5. Cardinality(hand \ {n}) + Len(o) + Len(s.q) + Cardinality(s.refused) = s.made
  BY <1>3, <1>h, OneMoves
<1>6. Account(t, hand \ {n})
  BY <1>1, <1>3, <1>4, <1>5, <1>h DEF Account
<1> QED BY <1>6 DEF t

\* It waits.
LEMMA QueueAccount ==
  ASSUME NEW s, NEW hand, NEW n \in hand, Account(s, hand)
  PROVE  Account([s EXCEPT !.q = Append(@, n)], hand \ {n})
<1> DEFINE t == [s EXCEPT !.q = Append(@, n)]
           q == Append(s.q, n)
<1>h. /\ IsFiniteSet(hand \ {n}) /\ Cardinality(hand \ {n}) + 1 = Cardinality(hand)
      /\ n \in Nat /\ n \notin s.refused
      /\ Cardinality(hand) \in Nat /\ Cardinality(hand \ {n}) \in Nat
      /\ Cardinality(s.refused) \in Nat /\ Len(s.out) \in Nat /\ Len(s.q) \in Nat
  BY HandLess
<1>1. Device(t) /\ t.q = q /\ t.out = s.out /\ t.made = s.made /\ t.refused = s.refused
  BY DEF Account, Device
<1> HIDE DEF t
<1>2. s.q \in Seq(Nat) /\ n \in Nat
  BY <1>h DEF Account
<1>3. q \in Seq(Nat) /\ Len(q) = Len(s.q) + 1 /\ Members(q) = Members(s.q) \cup {n}
  BY <1>2, MembersAppend
<1> HIDE DEF q
<1>4. (hand \ {n}) \cup Members(s.out) \cup Members(q) \cup s.refused = 1 .. s.made
  BY <1>3 DEF Account
<1>5. Cardinality(hand \ {n}) + Len(s.out) + Len(q) + Cardinality(s.refused) = s.made
  BY <1>3, <1>h, OneMoves
<1>6. Account(t, hand \ {n})
  BY <1>1, <1>3, <1>4, <1>5, <1>h DEF Account
<1> QED BY <1>6 DEF t

\* It is discarded.
LEMMA RefusedAccount ==
  ASSUME NEW s, NEW hand, NEW n \in hand, Account(s, hand)
  PROVE  Account(Refused(s, n), hand \ {n})
<1> DEFINE t == Refused(s, n)
           r == s.refused \cup {n}
<1>h. /\ IsFiniteSet(hand \ {n}) /\ Cardinality(hand \ {n}) + 1 = Cardinality(hand)
      /\ n \in Nat /\ n \notin s.refused
      /\ Cardinality(hand) \in Nat /\ Cardinality(hand \ {n}) \in Nat
      /\ Cardinality(s.refused) \in Nat /\ Len(s.out) \in Nat /\ Len(s.q) \in Nat
  BY HandLess
<1>1. Device(t) /\ t.refused = r /\ t.q = s.q /\ t.out = s.out /\ t.made = s.made
  BY DEF Account, Device, Refused
<1> HIDE DEF t
<1>2. IsFiniteSet(s.refused) /\ n \notin s.refused
  BY <1>h DEF Account
<1>3. IsFiniteSet(r) /\ Cardinality(r) = Cardinality(s.refused) + 1
  BY <1>2, FS_AddElement
<1>4. (hand \ {n}) \cap r = {}
  BY DEF Account
<1>5. (hand \ {n}) \cup Members(s.out) \cup Members(s.q) \cup r = 1 .. s.made
  BY DEF Account
<1> HIDE DEF r
<1>6. Cardinality(hand \ {n}) + Len(s.out) + Len(s.q) + Cardinality(r) = s.made
  BY <1>3, <1>h, OneMoves
<1>7. Account(t, hand \ {n})
  BY <1>1, <1>3, <1>4, <1>5, <1>6, <1>h DEF Account
<1> QED BY <1>7 DEF t

-----------------------------------------------------------------------------
(* The controller                                                          *)

\* What CAN does moves none of them.
LEMMA PushStill == ASSUME NEW s, NEW m PROVE Still(s, push(s, m))
<1>1. ASSUME NEW t, NEW b PROVE Still(t, Mark(t, b))
  BY DEF Still, Device, Mark
<1>2. ASSUME NEW t, NEW b PROVE Still(t, Add(t, b, m))
  BY DEF Still, Device, Add
<1>3. Still(s, Enqueue(s, m))
  BY DEF Still, Device, Enqueue
<1>4. ASSUME NEW b PROVE Still(s, Mark(Add(s, b, m), b))
  <2> DEFINE t == Add(s, b, m)
  <2>1. Still(s, t) /\ Still(t, Mark(t, b))
    BY <1>1, <1>2
  <2> QED BY <2>1 DEF Still
<1>5. Still(s, Mark(Add(s, LowestFree(s), m), LowestFree(s)))
  BY <1>4
<1> QED BY <1>3, <1>5 DEF push

LEMMA RefilledStill == ASSUME NEW s PROVE Still(s, Refilled(s))
<1> DEFINE rank(b) == Cardinality({c \in FreeBoxes(s) : c <= b})
           moved == {b \in FreeBoxes(s) : rank(b) <= Len(s.tx)}
           x == [b \in Boxes |-> IF b \in moved THEN s.tx[rank(b)] ELSE s.box[b]]
           y == s.active \cup moved
           z == SubSeq(s.tx, Cardinality(moved) + 1, Len(s.tx))
<1>1. Refilled(s) = [s EXCEPT !.box = x, !.active = y, !.tx = z]
  BY DEF Refilled
<1> HIDE DEF x, y, z
<1> QED BY <1>1 DEF Still, Device

LEMMA CompleteStill == ASSUME NEW s, NEW b PROVE Still(s, _tx_complete(s, b))
<1> DEFINE t == [s EXCEPT !.active = @ \ {b}]
<1>1. Still(s, t) /\ Still(s, [s EXCEPT !.ok = FALSE])
  BY DEF Still, Device
<1>2. Still(t, Refilled(t))
  BY RefilledStill
<1> HIDE DEF t
<1>3. Still(s, Refilled(t))
  BY <1>1, <1>2 DEF Still
<1> QED BY <1>1, <1>3 DEF _tx_complete, t

LEMMA ArmStill == ASSUME NEW s PROVE Still(s, Arm(s))
BY DEF Still, Device, Arm

-----------------------------------------------------------------------------
(* The device                                                              *)

LEMMA QueuedAccount ==
  ASSUME NEW s, NEW hand, NEW n \in hand, Account(s, hand)
  PROVE  Account(Queued(s, n), hand \ {n})
BY QueueAccount, RefusedAccount DEF Queued

LEMMA SentAccount ==
  ASSUME NEW s, NEW hand, NEW n \in hand, Account(s, hand)
  PROVE  Account(pushorqueue(s, n), hand \ {n})
<1> DEFINE sent == IF Full(s) THEN Refused(s, n) ELSE push(Out(s, n), n)
<1>1. Account(push(Out(s, n), n), hand \ {n})
  BY OutAccount, PushStill, StillAccount
<1>2. Account(sent, hand \ {n})
  BY <1>1, RefusedAccount
<1> HIDE DEF sent
<1>3. Account(Arm(sent), hand \ {n})
  BY <1>2, ArmStill, StillAccount
<1> QED BY <1>3, QueuedAccount DEF pushorqueue, sent

\* The first that waits goes out.
LEMMA NextAccount ==
  ASSUME NEW s, NEW hand, Account(s, hand), s.q # << >>
  PROVE  Account(Out([s EXCEPT !.q = Tail(@)], Head(s.q)), hand)
<1> DEFINE n == Head(s.q)
           t == Out([s EXCEPT !.q = Tail(@)], n)
           o == Append(s.out, n)
           q == Tail(s.q)
<1>1. Device(t) /\ t.out = o /\ t.q = q /\ t.made = s.made /\ t.refused = s.refused
  BY DEF Account, Device, Out
<1>2. s.q \in Seq(Nat) /\ s.out \in Seq(Nat)
  BY DEF Account
<1>3. n \in Nat /\ q \in Seq(Nat) /\ Len(q) = Len(s.q) - 1 /\ Members(s.q) = {n} \cup Members(q)
  BY <1>2, MembersTail
<1> HIDE DEF t, n, q
<1>4. o \in Seq(Nat) /\ Len(o) = Len(s.out) + 1 /\ Members(o) = Members(s.out) \cup {n}
  BY <1>2, <1>3, MembersAppend
<1> HIDE DEF o
<1>5. hand \cup Members(o) \cup Members(q) \cup s.refused = 1 .. s.made
  BY <1>3, <1>4 DEF Account
<1>6. Cardinality(hand) + Len(o) + Len(q) + Cardinality(s.refused) = s.made
  <2> DEFINE h == Cardinality(hand)
             a == Len(s.out)
             b == Len(s.q)
             r == Cardinality(s.refused)
             m == s.made
  <2>1. h \in Nat /\ a \in Nat /\ b \in Nat /\ r \in Nat /\ m \in Nat
    BY FS_CardinalityType DEF Account
  <2>2. h + a + b + r = m
    BY DEF Account
  <2>3. Len(o) = a + 1 /\ Len(q) = b - 1
    BY <1>3, <1>4
  <2> HIDE DEF h, a, b, r, m
  <2>4. h + (a + 1) + (b - 1) + r = m
    BY <2>1, <2>2
  <2> QED BY <2>3, <2>4 DEF h, r, m
<1>7. Account(t, hand)
  BY <1>1, <1>3, <1>4, <1>5, <1>6 DEF Account
<1> QED BY <1>7 DEF t, n

LEMMA ProcessAccount ==
  ASSUME NEW s, NEW hand, Account(s, hand)
  PROVE  Account(process(s), hand)
<1> DEFINE n == Head(s.q)
           t == Out([s EXCEPT !.q = Tail(@)], n)
<1>1. process(s) = IF s.q = << >> \/ Armed(s) THEN s ELSE Arm(push(t, n))
  BY DEF process
<1>2. CASE s.q = << >> \/ Armed(s)
  BY <1>1, <1>2
<1>3. CASE s.q # << >> /\ ~Armed(s)
  <2>1. Account(t, hand)
    BY <1>3, NextAccount
  <2> HIDE DEF t
  <2>2. Account(push(t, n), hand)
    BY <2>1, PushStill, StillAccount
  <2>3. Account(Arm(push(t, n)), hand)
    BY <2>2, ArmStill, StillAccount
  <2> QED BY <1>1, <1>3, <2>3
<1> QED BY <1>2, <1>3

LEMMA CallbackAccount ==
  ASSUME NEW s, NEW hand, Account(s, hand), NEW t \in Callback(s)
  PROVE  Account(t, hand)
<1> DEFINE n == s.made + 1
           u == [s EXCEPT !.made = @ + 1]
<1>1. t = s \/ t = pushorqueue(u, n)
  BY DEF Callback
<1>2. Account(u, hand \cup {n})
  BY MadeAccount
<1>6. n \notin hand
  <2>1. s.made \in Nat /\ hand \subseteq 1 .. s.made
    BY DEF Account
  <2> QED BY <2>1
<1> HIDE DEF u, n
<1>3. Account(pushorqueue(u, n), (hand \cup {n}) \ {n})
  BY <1>2, SentAccount
<1>4. (hand \cup {n}) \ {n} = hand
  BY <1>6
<1>5. Account(pushorqueue(u, n), hand)
  BY <1>3, <1>4
<1> QED BY <1>1, <1>5

-----------------------------------------------------------------------------
(* The steps                                                               *)

LEMMA AccountInit == Init => AccountInv
<1> SUFFICES ASSUME Init
             PROVE  AccountInv
  OBVIOUS
<1>1. Device(dev) /\ dev.q = << >> /\ dev.out = << >> /\ dev.made = 0 /\ dev.refused = {}
  BY DEF Init, Device
<1>2. Hand = {} /\ pc = "out"
  BY DEF Init, Hand
<1>3. Members(dev.q) = {} /\ Members(dev.out) = {} /\ Len(dev.q) = 0 /\ Len(dev.out) = 0
  BY <1>1 DEF Members
<1>4. IsFiniteSet({}) /\ Cardinality({}) = 0
  BY FS_EmptySet
<1>5. 1 .. 0 = {}
  OBVIOUS
<1> QED BY <1>1, <1>2, <1>3, <1>4, <1>5 DEF AccountInv, Account

\* Interrupts leave the hand of the main loop as it is.
LEMMA AccountInterrupt ==
  ASSUME AccountInv, Answered \/ Lost \/ PDO \/ Tick \/ \E b \in Boxes : Transmitted(b)
  PROVE  AccountInv'
<1>1. Account(dev, Hand) /\ (pc \in {"decide", "queue"} => msg # Other)
  BY DEF AccountInv
<1>2. pc' = pc /\ msg' = msg
  BY DEF Answered, Lost, PDO, Tick, Transmitted
<1>3. Hand' = Hand
  BY <1>2 DEF Hand
<1>4. ASSUME Account(dev', Hand)
      PROVE  AccountInv'
  BY <1>1, <1>2, <1>3, <1>4 DEF AccountInv, Account, Device, Members
<1>5. CASE Answered
  <2> DEFINE s == [dev EXCEPT !.node = Tail(@), !.when = 0, !.ended = @ \cup {Head(dev.node)}]
  <2>1. dev' \in {process(t) : t \in Callback(s)}
    BY <1>5 DEF Answered
  <2>2. Still(dev, s)
    BY DEF Still, Device
  <2> HIDE DEF s
  <2>3. Account(s, Hand)
    BY <1>1, <2>2, StillAccount
  <2>4. PICK t \in Callback(s) : dev' = process(t)
    BY <2>1
  <2> QED BY <1>4, <2>3, <2>4, CallbackAccount, ProcessAccount
<1>6. CASE Lost
  <2>1. Still(dev, [dev EXCEPT !.node = Tail(@), !.ended = @ \cup {Head(dev.node)}])
    BY DEF Still, Device
  <2>2. Still(dev, dev')
    BY <1>6, <2>1 DEF Lost
  <2> QED BY <1>1, <1>4, <2>2, StillAccount
<1>7. CASE PDO
  <2>1. PICK t \in Callback(dev) : dev' = process(t)
    BY <1>7 DEF PDO
  <2> QED BY <1>1, <1>4, <2>1, CallbackAccount, ProcessAccount
<1>8. CASE Tick
  BY <1>1, <1>4, <1>8 DEF Tick
<1>9. ASSUME NEW b \in Boxes, Transmitted(b)
      PROVE  AccountInv'
  <2> DEFINE x == [dev.box EXCEPT ![b] = None]
             y == IF dev.box[b] = Other THEN dev.node ELSE Append(dev.node, dev.box[b])
             s == [dev EXCEPT !.box = x, !.node = y]
  <2>1. dev' = _tx_complete(s, b)
    BY <1>9 DEF Transmitted
  <2> HIDE DEF x, y
  <2>2. Still(dev, s)
    BY DEF Still, Device
  <2> HIDE DEF s
  <2>3. Account(dev', Hand)
    BY <1>1, <2>1, <2>2, StillAccount, CompleteStill
  <2> QED BY <1>4, <2>3
<1> QED BY <1>5, <1>6, <1>7, <1>8, <1>9

LEMMA AccountMain ==
  ASSUME AccountInv, Request \/ SendOther \/ Main
  PROVE  AccountInv'
<1>1. Account(dev, Hand) /\ (pc \in {"decide", "queue"} => msg # Other)
  BY DEF AccountInv
<1>2. ASSUME NEW hand, Account(dev', hand), hand = Hand', pc' \in {"decide", "queue"} => msg' # Other
      PROVE  AccountInv'
  BY <1>2 DEF AccountInv, Account, Device, Members
<1>3. \A t : Still(dev, t) => Account(t, Hand)
  BY <1>1, StillAccount
<1>4. CASE Request
  <2>1. dev' = [dev EXCEPT !.made = @ + 1] /\ msg' = dev.made + 1 /\ pc' = "decide" /\ pc = "out"
    BY <1>4 DEF Request, Go, Here
  <2>2. Hand = {}
    BY <2>1 DEF Hand
  <2>3. Account(dev', {} \cup {dev.made + 1}) /\ dev.made + 1 # Other
    BY <1>1, <2>1, <2>2, MadeAccount
  <2>4. {} \cup {dev.made + 1} = Hand'
    BY <2>1, <2>3 DEF Hand
  <2> QED BY <1>2, <2>1, <2>3, <2>4
<1>5. CASE SendOther
  <2>1. dev' = [dev EXCEPT !.others = @ + 1] /\ msg' = Other /\ pc' = "trypush" /\ pc = "out"
    BY <1>5 DEF SendOther, Go, Here
  <2>2. Hand = Hand'
    BY <2>1 DEF Hand
  <2>3. Still(dev, [dev EXCEPT !.others = @ + 1])
    BY DEF Still, Device
  <2> QED BY <1>2, <1>3, <2>1, <2>2, <2>3
<1>6. CASE Decide
  <2>1. /\ dev' = IF Armed(dev) THEN dev ELSE [dev EXCEPT !.when = 0]
        /\ msg' = msg /\ pc = "decide" /\ pc' = IF Armed(dev) THEN "queue" ELSE "trypush"
    BY <1>6 DEF Decide, Go, Here
  <2>2. Hand = Hand'
    BY <2>1 DEF Hand
  <2>3. Still(dev, [dev EXCEPT !.when = 0]) /\ Still(dev, dev)
    BY DEF Still, Device
  <2> QED BY <1>1, <1>2, <1>3, <2>1, <2>2, <2>3
<1>7. CASE QueueIt
  <2>1. dev' = Queued(dev, msg) /\ pc = "queue" /\ pc' = "out"
    BY <1>7 DEF QueueIt, Go, Here
  <2>2. Hand = {msg} /\ Hand' = {} /\ {msg} \ {msg} = {}
    BY <1>1, <2>1 DEF Hand
  <2>3. Account(dev', {})
    BY <1>1, <2>1, <2>2, QueuedAccount
  <2> QED BY <1>2, <2>1, <2>2, <2>3
\* A message that is handed over or discarded leaves the hand.
<1>8. /\ Account(Given(dev, msg), Hand \ {msg}) \/ msg \notin Hand
      /\ Account(Discarded(dev, msg), Hand \ {msg}) \/ msg \notin Hand
      /\ msg = Other => Given(dev, msg) = dev /\ Discarded(dev, msg) = dev
  <2>1. CASE msg \in Hand
    <3>1. msg # Other
      BY <2>1 DEF Hand
    <3> QED BY <1>1, <2>1, <3>1, OutAccount, RefusedAccount DEF Given, Discarded
  <2>2. CASE msg \notin Hand
    BY <2>2 DEF Given, Discarded
  <2> QED BY <2>1, <2>2
<1>9. ASSUME pc \in {"trypush", "enqueue", "add"}
      PROVE  Account(Given(dev, msg), {}) /\ Account(Discarded(dev, msg), {})
  <2>1. CASE msg = Other
    <3>1. Hand = {}
      BY <2>1 DEF Hand
    <3> QED BY <1>1, <1>8, <2>1, <3>1
  <2>2. CASE msg # Other
    <3>1. Hand = {msg} /\ Hand \ {msg} = {}
      BY <1>9, <2>2 DEF Hand
    <3> QED BY <1>8, <3>1
  <2> QED BY <2>1, <2>2
<1>10. ASSUME pc' \in {"out", "arm", "mark"}
       PROVE  Hand' = {}
  BY <1>10 DEF Hand
<1>11. ASSUME After
       PROVE  pc' \in {"out", "arm"}
  BY <1>11 DEF After, Go
<1>12. CASE TryPush
  <2>1. pc = "trypush"
    BY <1>12 DEF TryPush, Here
  <2>2. CASE dev' = Discarded(dev, msg) /\ After
    BY <1>2, <1>9, <1>10, <1>11, <2>1, <2>2
  <2>3. CASE dev' = dev /\ msg' = msg /\ pc' = IF FreeBoxes(dev) = {} THEN "enqueue" ELSE "add"
    <3>1. Hand' = Hand
      BY <2>1, <2>3 DEF Hand
    <3> QED BY <1>1, <1>2, <2>3, <3>1
  <2> QED BY <1>12, <2>2, <2>3 DEF TryPush, Go
<1>13. CASE EnqueueIt
  <2> DEFINE s == Given(dev, msg)
  <2>1. pc = "enqueue" /\ dev' = Enqueue(s, msg) /\ After
    BY <1>13 DEF EnqueueIt, Here
  <2>2. Account(s, {})
    BY <1>9, <2>1
  <2> HIDE DEF s
  <2>3. Still(s, Enqueue(s, msg))
    BY DEF Still, Device, Enqueue
  <2>4. Account(dev', {})
    BY <2>1, <2>2, <2>3, StillAccount
  <2> QED BY <1>2, <1>10, <1>11, <2>1, <2>4
<1>14. CASE AddIt
  <2>1. pc = "add"
    BY <1>14 DEF AddIt, Here
  <2>2. CASE dev' = Add(Given(dev, msg), LowestFree(dev), msg) /\ pc' = "mark"
    <3> DEFINE s == Given(dev, msg)
               t == Add(s, LowestFree(dev), msg)
    <3>1. Account(s, {})
      BY <1>9, <2>1
    <3> HIDE DEF s
    <3>2. Still(s, t)
      BY DEF Still, Device, Add
    <3>3. Account(t, {})
      BY <3>1, <3>2, StillAccount
    <3>4. dev' = t
      BY <2>2 DEF s
    <3> QED BY <1>2, <1>10, <2>2, <3>3, <3>4
  <2>3. ASSUME NEW stack \in SUBSET Boxes, After,
               dev' = [Discarded(dev, msg) EXCEPT !.active = @ \cup stack]
        PROVE  AccountInv'
    <3> DEFINE s == Discarded(dev, msg)
               t == [s EXCEPT !.active = @ \cup stack]
    <3>1. Account(s, {})
      BY <1>9, <2>1
    <3>2. dev' = t
      BY <2>3
    <3> HIDE DEF s
    <3>3. Still(s, t)
      BY DEF Still, Device
    <3>4. Account(t, {})
      BY <3>1, <3>3, StillAccount
    <3> QED BY <1>2, <1>10, <1>11, <2>3, <3>2, <3>4
  <2> QED BY <1>14, <2>2, <2>3 DEF AddIt, Go
<1>15. CASE MarkIt
  <2>1. pc = "mark" /\ dev' = Mark(dev, mbox) /\ After
    BY <1>15 DEF MarkIt, Here
  <2>2. Hand = {}
    BY <2>1 DEF Hand
  <2>3. Still(dev, Mark(dev, mbox))
    BY DEF Still, Device, Mark
  <2> QED BY <1>2, <1>3, <1>10, <1>11, <2>1, <2>2, <2>3
<1>16. CASE ArmIt
  <2>1. pc = "arm" /\ dev' = Arm(dev) /\ pc' = "out"
    BY <1>16 DEF ArmIt, Here, Go
  <2>2. Hand = {}
    BY <2>1 DEF Hand
  <2> QED BY <1>2, <1>3, <1>10, <2>1, <2>2, ArmStill
<1> QED BY <1>4, <1>5, <1>6, <1>7, <1>12, <1>13, <1>14, <1>15, <1>16 DEF Main

LEMMA AccountNext == AccountInv /\ [Next]_vars => AccountInv'
<1>1. CASE UNCHANGED vars
  BY <1>1 DEF vars, AccountInv, Account, Device, Members, Hand
<1> QED BY <1>1, AccountInterrupt, AccountMain DEF Next

\* No request vanishes or goes out twice, whatever interrupts pushorqueue and
\* however full the queues are: it waits, was given to the controller or was
\* discarded by a full sink (canopen.h:311-334).
THEOREM CANOpenAccounted == Spec => []Accounted
<1>1. AccountInv => Accounted
  BY DEF AccountInv, Account, Accounted, Hand, Members
<1> QED BY <1>1, AccountInit, AccountNext, PTL DEF Spec

-----------------------------------------------------------------------------
(* The mailboxes, when no interrupt comes inside of pushorqueue            *)

\* What a mailbox may hold.
Mail == Nat \cup {None}

\* The record of the device and its controller.
DEV == [box : [Boxes -> Mail], active : SUBSET Boxes, tx : Seq(Nat), ok : BOOLEAN,
        q : Seq(Nat), when : Int, node : Seq(Nat), made : Nat, others : Nat,
        out : Seq(Nat), at : Seq(Int), refused : SUBSET Nat, ended : SUBSET Nat]

\* The driver knows which mailboxes are busy, and nothing waits behind one
\* that is free.
Boxed(s) == /\ s.active = Boxes \ FreeBoxes(s)
            /\ s.tx # << >> => FreeBoxes(s) = {}

\* An assert fails only when the queue of messages is full.
Tidy(s) == s \in DEV /\ (s.ok => Boxed(s)) /\ (~s.ok => Full(s))

\* What the controller has, and what the device has on its desk.
SameMail(s, t) ==
  t \in DEV /\ t.box = s.box /\ t.active = s.active /\ t.tx = s.tx /\ t.ok = s.ok
SameDesk(s, t) ==
  /\ t \in DEV /\ t.q = s.q /\ t.when = s.when /\ t.node = s.node /\ t.made = s.made
  /\ t.out = s.out /\ t.refused = s.refused /\ t.ended = s.ended

LEMMA SameTidy ==
  ASSUME NEW s, NEW t, Tidy(s), SameMail(s, t)
  PROVE  Tidy(t) /\ FreeBoxes(t) = FreeBoxes(s) /\ (Full(t) <=> Full(s))
<1>1. FreeBoxes(t) = FreeBoxes(s)
  BY DEF FreeBoxes, SameMail
<1>2. Full(t) <=> Full(s)
  BY DEF Full, SameMail
<1> QED BY <1>1, <1>2 DEF Tidy, Boxed, SameMail

\* None is no message: a mailbox that holds one is not free.
LEMMA NoneIsNone == /\ None \in Mail /\ \A m \in Nat : m # None /\ m \in Mail
                    /\ \A m \in Mail : m # None => m \in Nat
BY DEF None, Mail

LEMMA LowestIsFree ==
  ASSUME NEW s, FreeBoxes(s) # {}
  PROVE  LowestFree(s) \in FreeBoxes(s) /\ LowestFree(s) \in Boxes
<1>1. FreeBoxes(s) \subseteq Nat
  BY CANAssumption DEF FreeBoxes
<1>2. \E b \in FreeBoxes(s) : \A c \in FreeBoxes(s) : b <= c
  BY <1>1, LeastNumber
<1>3. LowestFree(s) \in FreeBoxes(s)
  BY <1>2 DEF LowestFree
<1> QED BY <1>3 DEF FreeBoxes

\* A message goes into a mailbox.
LEMMA AddIs ==
  ASSUME NEW s \in DEV, NEW b \in Boxes, NEW m \in Nat
  PROVE  LET t == Add(s, b, m)
         IN  /\ SameDesk(s, t) /\ t.box = [s.box EXCEPT ![b] = m] /\ t.active = s.active
             /\ t.tx = s.tx /\ t.ok = s.ok /\ FreeBoxes(t) = FreeBoxes(s) \ {b}
<1> DEFINE x == [s.box EXCEPT ![b] = m]
           t == Add(s, b, m)
<1>1. s.box \in [Boxes -> Mail] /\ x \in [Boxes -> Mail]
  BY NoneIsNone DEF DEV
<1>2. t = [s EXCEPT !.box = x]
  BY DEF Add
<1>3. x[b] = m /\ \A c \in Boxes : c # b => x[c] = s.box[c]
  BY <1>1
<1> HIDE DEF x, t
<1>4. t \in DEV
  BY <1>1, <1>2 DEF DEV
<1>5. t.box = x /\ t.active = s.active /\ t.tx = s.tx /\ t.ok = s.ok
  BY <1>2 DEF DEV
<1>6. SameDesk(s, t)
  BY <1>2, <1>4 DEF DEV, SameDesk
<1>7. FreeBoxes(t) = FreeBoxes(s) \ {b}
  BY <1>3, <1>5, NoneIsNone DEF FreeBoxes
<1> QED BY <1>5, <1>6, <1>7 DEF x, t

LEMMA MarkIs ==
  ASSUME NEW s \in DEV, NEW b \in Boxes
  PROVE  LET t == Mark(s, b)
         IN  /\ SameDesk(s, t) /\ t.box = s.box /\ t.active = s.active \cup {b}
             /\ t.tx = s.tx /\ t.ok = s.ok /\ FreeBoxes(t) = FreeBoxes(s)
<1> DEFINE a == s.active \cup {b}
           t == Mark(s, b)
<1>1. a \in SUBSET Boxes
  BY DEF DEV
<1>2. t = [s EXCEPT !.active = a]
  BY DEF Mark
<1> HIDE DEF a, t
<1>3. t \in DEV
  BY <1>1, <1>2 DEF DEV
<1>4. t.box = s.box /\ t.active = a /\ t.tx = s.tx /\ t.ok = s.ok
  BY <1>2 DEF DEV
<1>5. SameDesk(s, t)
  BY <1>2, <1>3 DEF DEV, SameDesk
<1>6. FreeBoxes(t) = FreeBoxes(s)
  BY <1>4 DEF FreeBoxes
<1> QED BY <1>4, <1>5, <1>6 DEF a, t

\* A message goes to the queue behind the mailboxes.
LEMMA EnqueueIs ==
  ASSUME NEW s \in DEV, NEW m \in Nat
  PROVE  LET t == Enqueue(s, m)
         IN  /\ SameDesk(s, t) /\ t.box = s.box /\ t.active = s.active
             /\ FreeBoxes(t) = FreeBoxes(s)
             /\ Full(s) => t.tx = s.tx /\ t.ok = FALSE
             /\ ~Full(s) => t.tx = Append(s.tx, m) /\ t.ok = s.ok
<1> DEFINE x == Append(s.tx, m)
           t == Enqueue(s, m)
           g == [s EXCEPT !.ok = FALSE]
           h == [s EXCEPT !.tx = x]
<1>1. x \in Seq(Nat)
  BY DEF DEV
<1>2. t = IF Full(s) THEN g ELSE h
  BY DEF Enqueue
<1> HIDE DEF x, t
<1>3. g \in DEV /\ h \in DEV
  BY <1>1 DEF DEV
<1>4. /\ g.box = s.box /\ g.active = s.active /\ g.tx = s.tx /\ g.ok = FALSE
      /\ h.box = s.box /\ h.active = s.active /\ h.tx = x /\ h.ok = s.ok
  BY DEF DEV
<1>5. SameDesk(s, g)
  BY <1>3 DEF DEV, SameDesk
<1>6. SameDesk(s, h)
  BY <1>3 DEF DEV, SameDesk
<1> HIDE DEF g, h
<1>7. FreeBoxes(t) = FreeBoxes(s)
  BY <1>2, <1>4 DEF FreeBoxes
<1> QED BY <1>2, <1>4, <1>5, <1>6, <1>7 DEF x, t

-----------------------------------------------------------------------------
(* The desk                                                                *)

LEMMA OutIs ==
  ASSUME NEW s \in DEV, NEW n \in Nat, time \in Nat
  PROVE  LET t == Out(s, n)
         IN  /\ SameMail(s, t) /\ t.out = Append(s.out, n) /\ t.q = s.q /\ t.when = s.when
             /\ t.node = s.node /\ t.made = s.made /\ t.refused = s.refused /\ t.ended = s.ended
<1> DEFINE x == Append(s.out, n)
           y == Append(s.at, time)
           t == Out(s, n)
<1>1. x \in Seq(Nat) /\ y \in Seq(Int)
  <2>1. s.out \in Seq(Nat) /\ s.at \in Seq(Int) /\ time \in Int
    BY DEF DEV
  <2> DEFINE o == s.out
             a == s.at
  <2> HIDE DEF o, a
  <2>2. Append(o, n) \in Seq(Nat) /\ Append(a, time) \in Seq(Int)
    BY <2>1 DEF o, a
  <2> QED BY <2>2 DEF o, a
<1>2. t = [s EXCEPT !.out = x, !.at = y]
  BY DEF Out
<1> HIDE DEF x, y, t
<1>3. t \in DEV
  BY <1>1, <1>2 DEF DEV
<1>4. /\ t.out = x /\ t.q = s.q /\ t.when = s.when /\ t.node = s.node /\ t.made = s.made
      /\ t.refused = s.refused /\ t.ended = s.ended
  BY <1>2 DEF DEV
<1>5. SameMail(s, t)
  BY <1>2, <1>3 DEF DEV, SameMail
<1> QED BY <1>4, <1>5 DEF x, t

LEMMA WhenIs ==
  ASSUME NEW s \in DEV, NEW w \in Int, NEW t, t = [s EXCEPT !.when = w]
  PROVE  /\ SameMail(s, t) /\ t.when = w /\ t.q = s.q /\ t.node = s.node /\ t.made = s.made
         /\ t.out = s.out /\ t.refused = s.refused /\ t.ended = s.ended
<1>1. t \in DEV
  BY DEF DEV
<1>2. SameMail(s, t)
  BY <1>1 DEF DEV, SameMail
<1> QED BY <1>2 DEF DEV

LEMMA ArmIs ==
  ASSUME NEW s \in DEV, time \in Nat
  PROVE  LET t == Arm(s)
         IN  /\ SameMail(s, t) /\ t.when = time + 2 /\ t.q = s.q /\ t.node = s.node
             /\ t.made = s.made /\ t.out = s.out /\ t.refused = s.refused /\ t.ended = s.ended
             /\ Armed(t)
<1> DEFINE w == time + 2
           t == Arm(s)
<1>1. w \in Int /\ w # 0 /\ time < w
  OBVIOUS
<1>2. t = [s EXCEPT !.when = w]
  BY DEF Arm
<1> HIDE DEF w, t
<1>3. /\ SameMail(s, t) /\ t.when = w /\ t.q = s.q /\ t.node = s.node /\ t.made = s.made
      /\ t.out = s.out /\ t.refused = s.refused /\ t.ended = s.ended
  BY <1>1, <1>2, WhenIs
<1>4. Armed(t)
  BY <1>1, <1>3 DEF Armed
<1> QED BY <1>3, <1>4 DEF w, t

LEMMA RefusedIs ==
  ASSUME NEW s \in DEV, NEW n \in Nat
  PROVE  LET t == Refused(s, n)
         IN  /\ SameMail(s, t) /\ t.refused = s.refused \cup {n} /\ t.q = s.q /\ t.when = s.when
             /\ t.node = s.node /\ t.made = s.made /\ t.out = s.out /\ t.ended = s.ended
<1> DEFINE x == s.refused \cup {n}
           t == Refused(s, n)
<1>1. x \in SUBSET Nat
  BY DEF DEV
<1>2. t = [s EXCEPT !.refused = x]
  BY DEF Refused
<1> HIDE DEF x, t
<1>3. t \in DEV
  BY <1>1, <1>2 DEF DEV
<1>4. SameMail(s, t)
  BY <1>2, <1>3 DEF DEV, SameMail
<1>5. /\ t.refused = x /\ t.q = s.q /\ t.when = s.when
      /\ t.node = s.node /\ t.made = s.made /\ t.out = s.out /\ t.ended = s.ended
  BY <1>2 DEF DEV
<1> QED BY <1>4, <1>5 DEF x, t

\* The queue of requests changes, and nothing else.
LEMMA RequeuedIs ==
  ASSUME NEW s \in DEV, NEW x \in Seq(Nat), NEW t, t = [s EXCEPT !.q = x]
  PROVE  /\ SameMail(s, t) /\ t.q = x /\ t.when = s.when /\ t.node = s.node /\ t.made = s.made
         /\ t.out = s.out /\ t.refused = s.refused /\ t.ended = s.ended
<1>1. t \in DEV
  BY DEF DEV
<1>2. SameMail(s, t)
  BY <1>1 DEF DEV, SameMail
<1> QED BY <1>2 DEF DEV

LEMMA QueuedIs ==
  ASSUME NEW s \in DEV, NEW n \in Nat
  PROVE  LET t == Queued(s, n)
         IN  /\ SameMail(s, t) /\ t.when = s.when /\ t.node = s.node /\ t.made = s.made
             /\ t.out = s.out /\ t.ended = s.ended
             /\ \/ t.q = Append(s.q, n) /\ t.refused = s.refused
                \/ t.q = s.q /\ t.refused = s.refused \cup {n}
<1> DEFINE x == Append(s.q, n)
           f == [s EXCEPT !.q = x]
           r == Refused(s, n)
<1>1. x \in Seq(Nat)
  BY DEF DEV
<1>2. Queued(s, n) = IF Len(s.q) < QSize THEN f ELSE r
  BY DEF Queued
<1>3. /\ SameMail(s, r) /\ r.when = s.when /\ r.node = s.node /\ r.made = s.made
      /\ r.out = s.out /\ r.ended = s.ended /\ r.q = s.q /\ r.refused = s.refused \cup {n}
  BY RefusedIs
<1> HIDE DEF x
<1>4. /\ SameMail(s, f) /\ f.q = x /\ f.when = s.when /\ f.node = s.node /\ f.made = s.made
      /\ f.out = s.out /\ f.refused = s.refused /\ f.ended = s.ended
  BY <1>1, RequeuedIs
<1> HIDE DEF f, r
<1> QED BY <1>2, <1>3, <1>4 DEF x

-----------------------------------------------------------------------------
(* What the controller does to mailboxes in order                          *)

LEMMA PushTidy ==
  ASSUME NEW s, Tidy(s), s.ok, NEW m \in Nat
  PROVE  LET t == push(s, m)
         IN  Tidy(t) /\ SameDesk(s, t) /\ (~Full(s) => t.ok)
<1> DEFINE b == LowestFree(s)
           a == Add(s, b, m)
           k == Mark(a, b)
           e == Enqueue(s, m)
<1>1. s \in DEV /\ Boxed(s)
  BY DEF Tidy
<1>2. push(s, m) = IF FreeBoxes(s) = {} THEN e ELSE k
  BY DEF push
<1>3. CASE FreeBoxes(s) = {}
  <2>1. /\ SameDesk(s, e) /\ e.active = s.active /\ FreeBoxes(e) = FreeBoxes(s)
        /\ Full(s) => e.tx = s.tx /\ e.ok = FALSE
        /\ ~Full(s) => e.tx = Append(s.tx, m) /\ e.ok = s.ok
    BY <1>1, EnqueueIs
  <2> HIDE DEF e
  <2>2. Boxed(e)
    BY <1>1, <1>3, <2>1 DEF Boxed
  <2>3. ~e.ok => Full(e)
    BY <2>1 DEF Full
  <2> QED BY <1>2, <1>3, <2>1, <2>2, <2>3 DEF Tidy, SameDesk
<1>4. CASE FreeBoxes(s) # {}
  <2>1. b \in FreeBoxes(s) /\ b \in Boxes
    BY <1>4, LowestIsFree
  <2> HIDE DEF b
  <2>2. /\ SameDesk(s, a) /\ a.active = s.active
        /\ a.tx = s.tx /\ a.ok = s.ok /\ FreeBoxes(a) = FreeBoxes(s) \ {b}
    BY <1>1, <2>1, AddIs
  <2>3. a \in DEV
    BY <2>2 DEF SameDesk
  <2> HIDE DEF a
  <2>4. /\ SameDesk(a, k) /\ k.active = a.active \cup {b}
        /\ k.tx = a.tx /\ k.ok = a.ok /\ FreeBoxes(k) = FreeBoxes(a)
    BY <2>1, <2>3, MarkIs
  <2> HIDE DEF k
  <2>5. SameDesk(s, k)
    BY <2>2, <2>4 DEF SameDesk
  <2>6. s.tx = << >> /\ s.active = Boxes \ FreeBoxes(s)
    BY <1>1, <1>4 DEF Boxed
  <2>7. k.active = Boxes \ FreeBoxes(k)
    BY <2>1, <2>2, <2>4, <2>6
  <2>8. Boxed(k)
    BY <2>2, <2>4, <2>6, <2>7 DEF Boxed
  <2> QED BY <1>2, <1>4, <2>2, <2>4, <2>5, <2>8 DEF Tidy, SameDesk
<1> QED BY <1>3, <1>4

\* Nothing waits, or a mailbox is free and takes what waits first.
LEMMA RefilledIs ==
  ASSUME NEW s \in DEV, NEW b \in Boxes, s.tx # << >> => FreeBoxes(s) = {b}
  PROVE  LET t == Refilled(s)
         IN  /\ SameDesk(s, t) /\ t.ok = s.ok
             /\ s.tx = << >> => t.box = s.box /\ t.active = s.active /\ t.tx = << >>
             /\ s.tx # << >> => /\ t.box = [s.box EXCEPT ![b] = Head(s.tx)]
                                /\ t.active = s.active \cup {b} /\ t.tx = Tail(s.tx)
<1> DEFINE rank(c) == Cardinality({d \in FreeBoxes(s) : d <= c})
           moved == {c \in FreeBoxes(s) : rank(c) <= Len(s.tx)}
           x == [c \in Boxes |-> IF c \in moved THEN s.tx[rank(c)] ELSE s.box[c]]
           y == s.active \cup moved
           z == SubSeq(s.tx, Cardinality(moved) + 1, Len(s.tx))
           t == Refilled(s)
<1>1. t = [s EXCEPT !.box = x, !.active = y, !.tx = z]
  BY DEF Refilled
<1>2. /\ s.box \in [Boxes -> Mail] /\ s.tx \in Seq(Nat) /\ s.active \in SUBSET Boxes
      /\ FreeBoxes(s) \subseteq Boxes /\ Len(s.tx) \in Nat
  BY DEF DEV, FreeBoxes
<1>3. ASSUME x \in [Boxes -> Mail], y \in SUBSET Boxes, z \in Seq(Nat)
      PROVE  SameDesk(s, t) /\ t.ok = s.ok /\ t.box = x /\ t.active = y /\ t.tx = z
  <2> HIDE DEF x, y, z, t
  <2>1. t \in DEV
    BY <1>1, <1>3 DEF DEV
  <2>2. t.ok = s.ok /\ t.box = x /\ t.active = y /\ t.tx = z
    BY <1>1 DEF DEV
  <2>3. SameDesk(s, t)
    BY <1>1, <2>1 DEF DEV, SameDesk
  <2> QED BY <2>2, <2>3
<1>4. CASE s.tx = << >>
  <2>1. ASSUME NEW c \in FreeBoxes(s)
        PROVE  ~(rank(c) <= Len(s.tx))
    <3> DEFINE D == {d \in FreeBoxes(s) : d <= c}
    <3>1. FreeBoxes(s) \subseteq Nat /\ IsFiniteSet(Boxes)
      BY <1>2, CANAssumption
    <3>2. c \in D /\ D \subseteq Boxes
      BY <1>2, <3>1
    <3> HIDE DEF D
    <3>3. IsFiniteSet(D)
      BY <3>1, <3>2, FS_Subset
    <3>4. Cardinality(D) \in Nat /\ Cardinality(D) # 0
      BY <3>2, <3>3, FS_CardinalityType, FS_EmptySet
    <3> QED BY <1>4, <3>4 DEF D
  <2>2. moved = {}
    BY <2>1
  <2> HIDE DEF rank, moved
  <2>3. x = s.box /\ y = s.active
    BY <1>2, <2>2
  <2>4. Cardinality(moved) = 0
    BY <2>2, FS_EmptySet
  <2>5. z = << >>
    BY <1>4, <2>4
  <2> HIDE DEF x, y, z, t
  <2> QED BY <1>2, <1>3, <1>4, <2>3, <2>5 DEF t
<1>5. CASE s.tx # << >>
  <2>1. FreeBoxes(s) = {b} /\ b \in Nat
    BY <1>5, CANAssumption
  <2>2. {d \in FreeBoxes(s) : d <= b} = {b}
    BY <2>1
  <2>3. rank(b) = 1
    BY <2>2, FS_Singleton
  <2>4. moved = {b}
    <3>1. Len(s.tx) >= 1
      BY <1>2, <1>5
    <3> HIDE DEF rank
    <3> QED BY <1>2, <2>1, <2>3, <3>1
  <2>5. \A c \in Boxes : x[c] = IF c = b THEN s.tx[1] ELSE s.box[c]
    BY <2>3, <2>4
  <2>6. s.tx[1] \in Nat /\ Head(s.tx) = s.tx[1] /\ Tail(s.tx) \in Seq(Nat)
    BY <1>2, <1>5
  <2>7. x = [s.box EXCEPT ![b] = Head(s.tx)]
    BY <1>2, <2>5, <2>6
  <2>8. y = s.active \cup {b}
    BY <2>4
  <2>9. Cardinality(moved) = 1
    BY <2>4, FS_Singleton
  <2>10. z = Tail(s.tx)
    <3>1. z = SubSeq(s.tx, 2, Len(s.tx))
      BY <2>9, 1 + 1 = 2
    <3> QED BY <1>2, <1>5, <3>1, TailIsSubSeq
  <2>11. x \in [Boxes -> Mail] /\ y \in SUBSET Boxes /\ z \in Seq(Nat)
    <3>1. Head(s.tx) \in Mail
      BY <2>6, NoneIsNone
    <3> HIDE DEF x, y, z
    <3>2. x \in [Boxes -> Mail]
      BY <1>2, <2>7, <3>1
    <3> QED BY <1>2, <2>6, <2>8, <2>10, <3>2
  <2> HIDE DEF x, y, z, t
  <2> QED BY <1>3, <1>5, <2>7, <2>8, <2>10, <2>11 DEF t
<1> QED BY <1>4, <1>5

\* What a mailbox that is empty again leaves.
Emptied(s, b) ==
  [s EXCEPT !.box[b] = None,
            !.node = IF s.box[b] = Other THEN @ ELSE Append(@, s.box[b])]

LEMMA EmptiedIs ==
  ASSUME NEW s \in DEV, NEW b \in Boxes, s.box[b] # None
  PROVE  LET t == Emptied(s, b)
         IN  /\ t \in DEV /\ t.box = [s.box EXCEPT ![b] = None]
             /\ t.active = s.active /\ t.tx = s.tx /\ t.ok = s.ok
             /\ t.q = s.q /\ t.when = s.when /\ t.made = s.made /\ t.out = s.out
             /\ t.refused = s.refused /\ t.ended = s.ended
             /\ t.node = IF s.box[b] = Other THEN s.node ELSE Append(s.node, s.box[b])
             /\ FreeBoxes(t) = FreeBoxes(s) \cup {b}
<1> DEFINE x == [s.box EXCEPT ![b] = None]
           y == IF s.box[b] = Other THEN s.node ELSE Append(s.node, s.box[b])
           t == Emptied(s, b)
<1>1. t = [s EXCEPT !.box = x, !.node = y]
  BY DEF Emptied
<1>2. x \in [Boxes -> Mail] /\ y \in Seq(Nat)
  BY NoneIsNone DEF DEV
<1>3. x[b] = None /\ \A c \in Boxes : c # b => x[c] = s.box[c]
  BY DEF DEV
<1> HIDE DEF x, y, t
<1>4. t \in DEV
  BY <1>1, <1>2 DEF DEV
<1>5. /\ t.box = x /\ t.active = s.active /\ t.tx = s.tx /\ t.ok = s.ok
      /\ t.q = s.q /\ t.when = s.when /\ t.made = s.made /\ t.out = s.out
      /\ t.refused = s.refused /\ t.ended = s.ended /\ t.node = y
  BY <1>1 DEF DEV
<1>6. FreeBoxes(t) = FreeBoxes(s) \cup {b}
  BY <1>3, <1>5 DEF FreeBoxes
<1> QED BY <1>4, <1>5, <1>6 DEF x, y, t

\* A mailbox is empty, and what waits first takes it.
LEMMA CompleteIs ==
  ASSUME NEW s, Tidy(s), s.ok, NEW b \in Boxes, s.box[b] # None
  PROVE  LET u == Emptied(s, b)
             t == _tx_complete(u, b)
         IN  /\ Tidy(t) /\ t.ok /\ SameDesk(u, t)
             /\ s.tx = << >> => t.box = u.box /\ t.tx = << >>
             /\ s.tx # << >> => t.box = [u.box EXCEPT ![b] = Head(s.tx)] /\ t.tx = Tail(s.tx)
<1> DEFINE u == Emptied(s, b)
           a == u.active \ {b}
           v == [u EXCEPT !.active = a]
           t == Refilled(v)
<1>1. s \in DEV /\ s.active = Boxes \ FreeBoxes(s) /\ (s.tx # << >> => FreeBoxes(s) = {})
  BY DEF Tidy, Boxed
<1>2. /\ u \in DEV /\ u.active = s.active /\ u.tx = s.tx /\ u.ok = s.ok
      /\ FreeBoxes(u) = FreeBoxes(s) \cup {b}
  BY <1>1, EmptiedIs
<1>3. b \in s.active
  BY <1>1 DEF FreeBoxes
<1>4. _tx_complete(u, b) = t
  BY <1>2, <1>3 DEF _tx_complete
<1>5. a \in SUBSET Boxes
  BY <1>2 DEF DEV
<1> HIDE DEF u, a
<1>6. /\ SameDesk(u, v) /\ v.active = a /\ v.box = u.box /\ v.tx = u.tx /\ v.ok = u.ok
      /\ FreeBoxes(v) = FreeBoxes(u)
  <2>1. v \in DEV
    BY <1>2, <1>5 DEF DEV
  <2>2. v.active = a /\ v.box = u.box /\ v.tx = u.tx /\ v.ok = u.ok
    BY <1>2 DEF DEV
  <2>3. SameDesk(u, v)
    BY <1>2, <2>1 DEF DEV, SameDesk
  <2>4. FreeBoxes(v) = FreeBoxes(u)
    BY <2>2 DEF FreeBoxes
  <2> QED BY <2>2, <2>3, <2>4
<1>7. v \in DEV
  BY <1>6 DEF SameDesk
<1>8. v.tx # << >> => FreeBoxes(v) = {b}
  BY <1>1, <1>2, <1>6
<1> HIDE DEF v
<1>9. /\ SameDesk(v, t) /\ t.ok = v.ok
      /\ v.tx = << >> => t.box = v.box /\ t.active = v.active /\ t.tx = << >>
      /\ v.tx # << >> => /\ t.box = [v.box EXCEPT ![b] = Head(v.tx)]
                         /\ t.active = v.active \cup {b} /\ t.tx = Tail(v.tx)
  BY <1>7, <1>8, RefilledIs
<1> HIDE DEF t
<1>10. SameDesk(u, t)
  BY <1>6, <1>9 DEF SameDesk
<1>11. Boxed(t)
  <2>1. CASE s.tx = << >>
    <3>1. t.box = u.box /\ t.active = a /\ t.tx = << >>
      BY <1>2, <1>6, <1>9, <2>1
    <3>2. FreeBoxes(t) = FreeBoxes(u)
      BY <3>1 DEF FreeBoxes
    <3> QED BY <1>1, <1>2, <3>1, <3>2 DEF Boxed, a
  <2>2. CASE s.tx # << >>
    <3>1. t.box = [u.box EXCEPT ![b] = Head(s.tx)] /\ t.active = a \cup {b} /\ t.tx = Tail(s.tx)
      BY <1>2, <1>6, <1>9, <2>2
    <3>2. FreeBoxes(u) = {b} /\ u.box \in [Boxes -> Mail]
      BY <1>1, <1>2, <2>2 DEF DEV
    <3>3. Head(s.tx) \in Nat
      BY <1>1, <2>2 DEF DEV
    <3>4. t.box[b] # None /\ \A c \in Boxes : c # b => t.box[c] = u.box[c]
      BY <3>1, <3>2, <3>3, NoneIsNone
    <3>5. FreeBoxes(t) = {}
      BY <3>2, <3>4 DEF FreeBoxes
    <3>6. t.active = Boxes
      BY <1>1, <1>2, <2>2, <3>1 DEF a
    <3> QED BY <3>5, <3>6 DEF Boxed
  <2> QED BY <2>1, <2>2
<1>12. Tidy(t) /\ t.ok
  BY <1>2, <1>6, <1>9, <1>11 DEF Tidy, SameDesk
<1>13. /\ s.tx = << >> => t.box = u.box /\ t.tx = << >>
       /\ s.tx # << >> => t.box = [u.box EXCEPT ![b] = Head(s.tx)] /\ t.tx = Tail(s.tx)
  BY <1>2, <1>6, <1>9
<1> QED BY <1>4, <1>10, <1>12, <1>13 DEF u

-----------------------------------------------------------------------------
(* One request is under way at a time, if answers are in time: the last    *)
(* that went out is in one place, a mailbox, the queue behind them or the  *)
(* node, until it has ended; those before it have.                         *)

Last(s) == s.out[Len(s.out)]

Open(s) == s.out # << >> /\ Last(s) \notin s.ended

NoBox(s) == \A b \in Boxes : s.box[b] \in {None, Other}
NoTx(s) == \A i \in DOMAIN s.tx : s.tx[i] = Other

Idle(s) == NoBox(s) /\ NoTx(s) /\ s.node = << >>

InBox(s) ==
  /\ \E b \in Boxes : s.box[b] = Last(s) /\ \A c \in Boxes \ {b} : s.box[c] \in {None, Other}
  /\ NoTx(s) /\ s.node = << >>
InTx(s) ==
  /\ \E i \in DOMAIN s.tx : s.tx[i] = Last(s) /\ \A j \in DOMAIN s.tx \ {i} : s.tx[j] = Other
  /\ NoBox(s) /\ s.node = << >>
AtNode(s) == NoBox(s) /\ NoTx(s) /\ s.node = <<Last(s)>>

Somewhere(s) == Open(s) /\ Last(s) # Other /\ (InBox(s) \/ InTx(s) \/ AtNode(s))

Solo(s) == Idle(s) \/ Somewhere(s)

Earlier(s) == /\ \A k \in DOMAIN s.out : k < Len(s.out) => s.out[k] \in s.ended
              /\ s.ended \subseteq Members(s.out)

LEMMA LastIsNat ==
  ASSUME NEW s \in DEV, s.out # << >>
  PROVE  Last(s) \in Nat /\ Last(s) # None
<1>1. s.out \in Seq(Nat)
  BY DEF DEV
<1>2. Last(s) \in Nat
  BY <1>1 DEF Last
<1> QED BY <1>2, NoneIsNone

LEMMA AddSolo ==
  ASSUME NEW s \in DEV, NEW b \in FreeBoxes(s), NEW m \in Nat
  PROVE  LET t == Add(s, b, m)
         IN  /\ m = Other /\ Solo(s) => Solo(t)
             /\ Idle(s) /\ Open(s) /\ Last(s) = m /\ m # Other => Solo(t)
<1> DEFINE t == Add(s, b, m)
<1>1. b \in Boxes /\ s.box[b] = None /\ s.box \in [Boxes -> Mail]
  BY DEF FreeBoxes, DEV
<1>2. SameDesk(s, t) /\ t.box = [s.box EXCEPT ![b] = m] /\ t.tx = s.tx
  BY <1>1, AddIs
<1> HIDE DEF t
<1>3. t.box[b] = m /\ \A c \in Boxes : c # b => t.box[c] = s.box[c]
  BY <1>1, <1>2
<1>4. Last(t) = Last(s) /\ (Open(t) <=> Open(s)) /\ t.node = s.node /\ (NoTx(t) <=> NoTx(s))
  BY <1>2 DEF SameDesk, Last, Open, NoTx
<1>5. CASE m = Other
  <2>1. NoBox(s) => NoBox(t)
    BY <1>3, <1>5 DEF NoBox
  <2>2. ASSUME InBox(s), Open(s)
        PROVE  InBox(t)
    <3>1. PICK a \in Boxes : s.box[a] = Last(s) /\ \A c \in Boxes \ {a} : s.box[c] \in {None, Other}
      BY <2>2 DEF InBox
    <3>2. a # b
      BY <1>1, <2>2, <3>1, LastIsNat DEF Open
    <3>3. t.box[a] = Last(t) /\ \A c \in Boxes \ {a} : t.box[c] \in {None, Other}
      BY <1>3, <1>4, <1>5, <3>1, <3>2
    <3> QED BY <1>4, <2>2, <3>3 DEF InBox
  <2>3. InTx(s) => InTx(t)
    BY <1>2, <1>4, <2>1 DEF InTx
  <2>4. AtNode(s) => AtNode(t)
    BY <1>4, <2>1 DEF AtNode
  <2> QED BY <1>4, <1>5, <2>1, <2>2, <2>3, <2>4 DEF Solo, Somewhere, Idle, t
<1>6. ASSUME Idle(s), Open(s), Last(s) = m, m # Other
      PROVE  Solo(t)
  <2>1. t.box[b] = Last(t) /\ \A c \in Boxes \ {b} : t.box[c] \in {None, Other}
    BY <1>3, <1>4, <1>6 DEF Idle, NoBox
  <2>2. InBox(t)
    BY <1>1, <1>4, <1>6, <2>1 DEF InBox, Idle
  <2> QED BY <1>4, <1>6, <2>2 DEF Solo, Somewhere
<1> QED BY <1>5, <1>6 DEF t

LEMMA EnqueueSolo ==
  ASSUME NEW s \in DEV, ~Full(s), NEW m \in Nat
  PROVE  LET t == Enqueue(s, m)
         IN  /\ m = Other /\ Solo(s) => Solo(t)
             /\ Idle(s) /\ Open(s) /\ Last(s) = m /\ m # Other => Solo(t)
<1> DEFINE t == Enqueue(s, m)
           l == Len(s.tx)
<1>1. SameDesk(s, t) /\ t.box = s.box /\ t.tx = Append(s.tx, m)
  BY EnqueueIs
<1>2. l \in Nat /\ DOMAIN s.tx = 1 .. l
  BY DEF DEV
<1> HIDE DEF t
<1>3. DOMAIN t.tx = 1 .. l + 1 /\ t.tx[l + 1] = m /\ \A i \in 1 .. l : t.tx[i] = s.tx[i]
  <2>1. s.tx \in Seq(Nat)
    BY DEF DEV
  <2> QED BY <1>1, <2>1
<1> HIDE DEF l
<1>4. Last(t) = Last(s) /\ (Open(t) <=> Open(s)) /\ t.node = s.node /\ (NoBox(t) <=> NoBox(s))
  BY <1>1 DEF SameDesk, Last, Open, NoBox
<1>5. \A i \in 1 .. l + 1 : i = l + 1 \/ i \in 1 .. l
  BY <1>2
<1>6. l + 1 \in 1 .. l + 1 /\ \A i \in 1 .. l : i \in 1 .. l + 1 /\ i # l + 1
  BY <1>2
<1>7. CASE m = Other
  <2>1. NoTx(s) => NoTx(t)
    BY <1>2, <1>3, <1>5, <1>7 DEF NoTx
  <2>2. InBox(s) => InBox(t)
    BY <1>1, <1>4, <2>1 DEF InBox
  <2>3. ASSUME InTx(s)
        PROVE  InTx(t)
    <3>1. PICK i \in 1 .. l : s.tx[i] = Last(s) /\ \A j \in 1 .. l \ {i} : s.tx[j] = Other
      BY <1>2, <2>3 DEF InTx
    <3>2. t.tx[i] = Last(t) /\ \A j \in 1 .. l + 1 : j # i => t.tx[j] = Other
      BY <1>3, <1>4, <1>5, <1>7, <3>1
    <3>3. i \in DOMAIN t.tx
      BY <1>3, <1>6
    <3> QED BY <1>3, <1>4, <2>3, <3>2, <3>3 DEF InTx
  <2>4. AtNode(s) => AtNode(t)
    BY <1>4, <2>1 DEF AtNode
  <2> QED BY <1>4, <1>7, <2>1, <2>2, <2>3, <2>4 DEF Solo, Somewhere, Idle, t
<1>8. ASSUME Idle(s), Open(s), Last(s) = m, m # Other
      PROVE  Solo(t)
  <2>1. \A j \in 1 .. l + 1 : j # l + 1 => t.tx[j] = Other
    BY <1>2, <1>3, <1>5, <1>8 DEF Idle, NoTx
  <2>2. l + 1 \in DOMAIN t.tx /\ t.tx[l + 1] = Last(t)
    BY <1>3, <1>4, <1>6, <1>8
  <2>3. InTx(t)
    BY <1>3, <1>4, <1>8, <2>1, <2>2 DEF InTx, Idle
  <2> QED BY <1>4, <1>8, <2>3 DEF Solo, Somewhere
<1> QED BY <1>7, <1>8 DEF t

LEMMA StaySolo ==
  ASSUME NEW s, NEW t, t.box = s.box, t.tx = s.tx, t.node = s.node, t.out = s.out, t.ended = s.ended
  PROVE  /\ Solo(s) <=> Solo(t)
         /\ Idle(s) <=> Idle(t)
         /\ Open(s) <=> Open(t)
         /\ Earlier(s) <=> Earlier(t)
         /\ Last(s) = Last(t)
<1>1. Last(s) = Last(t) /\ (Open(s) <=> Open(t)) /\ (Earlier(s) <=> Earlier(t))
  BY DEF Last, Open, Earlier
<1>2. (NoBox(s) <=> NoBox(t)) /\ (NoTx(s) <=> NoTx(t))
  BY DEF NoBox, NoTx
<1>3. (InBox(s) <=> InBox(t)) /\ (InTx(s) <=> InTx(t)) /\ (AtNode(s) <=> AtNode(t))
  BY <1>1, <1>2 DEF InBox, InTx, AtNode
<1> QED BY <1>1, <1>2, <1>3 DEF Solo, Somewhere, Idle

LEMMA PushSolo ==
  ASSUME NEW s, Tidy(s), s.ok, Idle(s), Open(s), Last(s) # Other, ~Full(s)
  PROVE  Solo(push(s, Last(s)))
<1> DEFINE m == Last(s)
           b == LowestFree(s)
           a == Add(s, b, m)
           k == Mark(a, b)
<1>1. s \in DEV
  BY DEF Tidy
<1>2. m \in Nat /\ m = Last(s) /\ m # Other
  BY <1>1, LastIsNat DEF Open
<1> HIDE DEF m
<1>3. push(s, m) = IF FreeBoxes(s) = {} THEN Enqueue(s, m) ELSE k
  BY DEF push
<1>4. CASE FreeBoxes(s) = {}
  BY <1>1, <1>2, <1>3, <1>4, EnqueueSolo
<1>5. CASE FreeBoxes(s) # {}
  <2>1. b \in FreeBoxes(s) /\ b \in Boxes
    BY <1>5, LowestIsFree
  <2> HIDE DEF b
  <2>2. Solo(a)
    BY <1>1, <1>2, <2>1, AddSolo
  <2>3. a \in DEV
    BY <1>1, <1>2, <2>1, AddIs DEF SameDesk
  <2> HIDE DEF a
  <2>4. SameDesk(a, k) /\ k.box = a.box /\ k.tx = a.tx
    BY <2>1, <2>3, MarkIs
  <2>5. Solo(k)
    BY <2>2, <2>4, StaySolo DEF SameDesk
  <2> QED BY <1>2, <1>3, <1>5, <2>5
<1> QED BY <1>4, <1>5

\* A mailbox that is empty again: its request is at the node, or the queue's
\* first message has moved up.
LEMMA CompleteSolo ==
  ASSUME NEW s, Tidy(s), s.ok, Solo(s), NEW b \in Boxes, s.box[b] # None
  PROVE  Solo(_tx_complete(Emptied(s, b), b))
<1> DEFINE u == Emptied(s, b)
           t == _tx_complete(u, b)
           h == Head(s.tx)
<1>1. s \in DEV /\ s.box \in [Boxes -> Mail] /\ s.tx \in Seq(Nat)
  BY DEF Tidy, DEV
<1>2. /\ u.box = [s.box EXCEPT ![b] = None] /\ u.out = s.out /\ u.ended = s.ended
      /\ u.node = IF s.box[b] = Other THEN s.node ELSE Append(s.node, s.box[b])
  BY <1>1, EmptiedIs
<1>3. /\ SameDesk(u, t)
      /\ s.tx = << >> => t.box = u.box /\ t.tx = << >>
      /\ s.tx # << >> => t.box = [u.box EXCEPT ![b] = h] /\ t.tx = Tail(s.tx)
  BY CompleteIs
<1> HIDE DEF u, t
<1>4. t.out = s.out /\ t.ended = s.ended /\ t.node = u.node
  BY <1>2, <1>3 DEF SameDesk
<1>5. Last(t) = Last(s) /\ (Open(t) <=> Open(s))
  BY <1>4 DEF Last, Open
<1>6. /\ \A c \in Boxes : c # b => t.box[c] = s.box[c]
      /\ s.tx = << >> => t.box[b] = None
      /\ s.tx # << >> => t.box[b] = h
  <2>1. CASE s.tx = << >>
    BY <1>1, <1>2, <1>3, <2>1
  <2>2. CASE s.tx # << >>
    <3>1. h \in Int
      BY <1>1, <2>2
    <3>2. t.box = [s.box EXCEPT ![b] = h]
      BY <1>1, <1>2, <1>3, <2>2, <3>1
    <3> HIDE DEF h
    <3> QED BY <1>1, <2>2, <3>2
  <2> QED BY <2>1, <2>2
<1>7. /\ s.tx # << >> => h = s.tx[1] /\ 1 \in DOMAIN s.tx
      /\ s.tx # << >> => \A i \in DOMAIN t.tx : i + 1 \in DOMAIN s.tx /\ i + 1 # 1 /\ t.tx[i] = s.tx[i + 1]
      /\ s.tx # << >> => \A i \in DOMAIN s.tx : i # 1 => i - 1 \in DOMAIN t.tx /\ (i - 1) + 1 = i
      /\ s.tx = << >> => DOMAIN t.tx = {}
  <2>1. CASE s.tx = << >>
    BY <1>3, <2>1
  <2>2. CASE s.tx # << >>
    <3>1. t.tx = Tail(s.tx)
      BY <1>3, <2>2
    <3>2. Len(s.tx) \in Nat /\ Len(s.tx) > 0 /\ DOMAIN s.tx = 1 .. Len(s.tx)
      BY <1>1, <2>2
    <3>3. t.tx \in Seq(Nat) /\ Len(t.tx) = Len(s.tx) - 1 /\ \A i \in 1 .. Len(t.tx) : t.tx[i] = s.tx[i + 1]
      BY <1>1, <2>2, <3>1, HeadTailProperties
    <3>4. DOMAIN t.tx = 1 .. Len(s.tx) - 1
      BY <3>3
    <3>5. h = s.tx[1]
      BY <1>1, <2>2
    <3> HIDE DEF h
    <3> DEFINE l == Len(s.tx)
    <3>6. l \in Nat /\ l > 0 /\ DOMAIN s.tx = 1 .. l /\ DOMAIN t.tx = 1 .. l - 1
      BY <3>2, <3>4
    <3>7. \A i \in 1 .. l - 1 : t.tx[i] = s.tx[i + 1]
      BY <3>3, <3>4
    <3> HIDE DEF l
    <3>8. 1 \in DOMAIN s.tx
      BY <3>6
    <3>9. \A i \in DOMAIN t.tx : i + 1 \in DOMAIN s.tx /\ i + 1 # 1 /\ t.tx[i] = s.tx[i + 1]
      BY <3>6, <3>7
    <3>10. \A i \in DOMAIN s.tx : i # 1 => i - 1 \in DOMAIN t.tx /\ (i - 1) + 1 = i
      BY <3>6
    <3> QED BY <2>2, <3>5, <3>8, <3>9, <3>10
  <2> QED BY <2>1, <2>2
<1> HIDE DEF h
<1>8. ASSUME NoTx(s)
      PROVE  NoTx(t) /\ t.box[b] \in {None, Other}
  BY <1>6, <1>7, <1>8 DEF NoTx
<1>9. CASE s.box[b] = Other
  <2>1. t.node = s.node
    BY <1>2, <1>4, <1>9
  <2>2. ASSUME NoTx(s), NoBox(s)
        PROVE  NoTx(t) /\ NoBox(t)
    BY <1>6, <1>8, <2>2 DEF NoBox
  <2>3. ASSUME InBox(s), Last(s) # Other
        PROVE  InBox(t)
    <3>1. PICK a \in Boxes : s.box[a] = Last(s) /\ \A c \in Boxes \ {a} : s.box[c] \in {None, Other}
      BY <2>3 DEF InBox
    <3>2. a # b
      BY <1>9, <2>3, <3>1
    <3>3. NoTx(t) /\ t.box[b] \in {None, Other}
      BY <1>8, <2>3 DEF InBox
    <3>4. t.box[a] = Last(t) /\ \A c \in Boxes \ {a} : t.box[c] \in {None, Other}
      BY <1>5, <1>6, <3>1, <3>2, <3>3
    <3> QED BY <2>1, <2>3, <3>3, <3>4 DEF InBox
  <2>4. ASSUME InTx(s)
        PROVE  InBox(t) \/ InTx(t)
    <3>1. PICK i \in DOMAIN s.tx : s.tx[i] = Last(s) /\ \A j \in DOMAIN s.tx \ {i} : s.tx[j] = Other
      BY <2>4 DEF InTx
    <3>2. s.tx # << >>
      BY <3>1
    <3>3. CASE i = 1
      <4>1. NoTx(t)
        BY <1>7, <3>1, <3>2, <3>3 DEF NoTx
      <4>2. t.box[b] = Last(t) /\ \A c \in Boxes \ {b} : t.box[c] \in {None, Other}
        BY <1>5, <1>6, <1>7, <2>4, <3>1, <3>2, <3>3 DEF InTx, NoBox
      <4> QED BY <2>1, <2>4, <4>1, <4>2 DEF InBox, InTx
    <3>4. CASE i # 1
      <4>1. i - 1 \in DOMAIN t.tx /\ (i - 1) + 1 = i /\ t.tx[i - 1] = Last(t)
        BY <1>5, <1>7, <3>1, <3>2, <3>4
      <4>2. ASSUME NEW j \in DOMAIN t.tx, j # i - 1
            PROVE  t.tx[j] = Other
        <5>1. j \in Int /\ i \in Int
          <6>1. t.tx \in Seq(Nat) /\ s.tx \in Seq(Nat)
            BY <1>1, <1>3 DEF SameDesk, DEV
          <6> QED BY <4>2, <6>1
        <5>2. j + 1 # i
          BY <4>2, <5>1
        <5> QED BY <1>7, <3>1, <3>2, <5>2
      <4>3. NoBox(t)
        BY <1>6, <1>7, <2>4, <3>1, <3>2, <3>4 DEF InTx, NoBox
      <4> QED BY <2>1, <2>4, <4>1, <4>2, <4>3 DEF InTx
    <3> QED BY <3>3, <3>4
  <2>5. AtNode(s) => AtNode(t)
    BY <1>5, <2>1, <2>2 DEF AtNode
  <2> QED BY <1>5, <2>1, <2>2, <2>3, <2>4, <2>5 DEF Solo, Somewhere, Idle, t, u
<1>10. CASE s.box[b] # Other
  <2>1. ~NoBox(s)
    BY <1>10 DEF NoBox
  <2>2. Open(s) /\ Last(s) # Other /\ InBox(s)
    BY <2>1 DEF Solo, Somewhere, Idle, InTx, AtNode
  <2>3. s.box[b] = Last(s) /\ \A c \in Boxes \ {b} : s.box[c] \in {None, Other}
    BY <1>10, <2>2 DEF InBox
  <2>4. s.node = << >>
    BY <2>2 DEF InBox
  <2>5. t.node = <<Last(t)>>
    BY <1>2, <1>4, <1>5, <1>10, <2>3, <2>4
  <2>6. NoTx(t) /\ t.box[b] \in {None, Other}
    BY <1>8, <2>2 DEF InBox
  <2>7. NoBox(t)
    BY <1>6, <2>3, <2>6 DEF NoBox
  <2> QED BY <1>5, <2>2, <2>5, <2>6, <2>7 DEF Solo, Somewhere, AtNode, t, u
<1> QED BY <1>9, <1>10

-----------------------------------------------------------------------------
(* What the device does when no assert has failed                          *)

\* A request goes out, waits or is discarded.
LEMMA PushOrQueueIs ==
  ASSUME NEW s, Tidy(s), s.ok, NEW n \in Nat, time \in Nat
  PROVE  LET t == pushorqueue(s, n)
         IN  /\ Tidy(t) /\ t.ok /\ t.when # 0 /\ Armed(t)
             /\ t.node = s.node /\ t.ended = s.ended /\ t.made = s.made
             /\ \/ /\ Armed(s) /\ SameMail(s, t) /\ t.out = s.out
                   /\ t.when = s.when
                   /\ \/ t.q = Append(s.q, n) /\ t.refused = s.refused
                      \/ t.q = s.q /\ t.refused = s.refused \cup {n}
                \/ /\ ~Armed(s) /\ SameMail(s, t) /\ t.out = s.out /\ t.q = s.q
                   /\ t.refused = s.refused \cup {n}
                \/ /\ ~Armed(s) /\ ~Full(s) /\ t.out = Append(s.out, n) /\ t.q = s.q
                   /\ t.refused = s.refused
                   /\ SameMail(push(Out(s, n), n), t)
<1> DEFINE t == pushorqueue(s, n)
           r == Refused(s, n)
           o == Out(s, n)
           p == push(o, n)
<1>1. s \in DEV
  BY DEF Tidy
<1>2. t = IF Armed(s) THEN Queued(s, n) ELSE Arm(IF Full(s) THEN r ELSE p)
  BY DEF pushorqueue
<1>3. CASE Armed(s)
  <2> DEFINE u == Queued(s, n)
  <2>1. /\ SameMail(s, u) /\ u.when = s.when /\ u.node = s.node /\ u.made = s.made
        /\ u.out = s.out /\ u.ended = s.ended
        /\ \/ u.q = Append(s.q, n) /\ u.refused = s.refused
           \/ u.q = s.q /\ u.refused = s.refused \cup {n}
    BY <1>1, QueuedIs
  <2>2. t = u
    BY <1>2, <1>3
  <2> HIDE DEF u, t
  <2>3. Tidy(u) /\ u.ok
    BY <2>1, SameTidy DEF SameMail
  <2>4. u.when # 0 /\ Armed(u)
    BY <1>3, <2>1 DEF Armed
  <2> QED BY <1>3, <2>1, <2>2, <2>3, <2>4 DEF t
<1>4. CASE ~Armed(s) /\ Full(s)
  <2> DEFINE u == Arm(r)
  <2>1. /\ SameMail(s, r) /\ r.refused = s.refused \cup {n} /\ r.q = s.q /\ r.when = s.when
        /\ r.node = s.node /\ r.made = s.made /\ r.out = s.out /\ r.ended = s.ended
    BY <1>1, RefusedIs
  <2>2. t = u
    BY <1>2, <1>4
  <2>3. r \in DEV
    BY <2>1 DEF SameMail
  <2> HIDE DEF r, t
  <2>4. /\ SameMail(r, u) /\ u.when = time + 2 /\ u.q = r.q /\ u.node = r.node
        /\ u.made = r.made /\ u.out = r.out /\ u.refused = r.refused /\ u.ended = r.ended
        /\ Armed(u)
    BY <2>3, ArmIs
  <2> HIDE DEF u
  <2>5. SameMail(s, u) /\ u.when # 0
    BY <2>1, <2>4 DEF SameMail, Armed
  <2>6. Tidy(u) /\ u.ok
    BY <2>5, SameTidy DEF SameMail
  <2> QED BY <1>4, <2>1, <2>2, <2>4, <2>5, <2>6 DEF t
<1>5. CASE ~Armed(s) /\ ~Full(s)
  <2> DEFINE u == Arm(p)
  <2>1. /\ SameMail(s, o) /\ o.out = Append(s.out, n) /\ o.q = s.q /\ o.when = s.when
        /\ o.node = s.node /\ o.made = s.made /\ o.refused = s.refused /\ o.ended = s.ended
    BY <1>1, OutIs
  <2>2. t = u
    BY <1>2, <1>5
  <2>3. Tidy(o) /\ o.ok /\ ~Full(o)
    BY <1>5, <2>1, SameTidy DEF SameMail
  <2> HIDE DEF o, t
  <2>4. Tidy(p) /\ SameDesk(o, p) /\ p.ok
    BY <2>3, PushTidy
  <2>5. p \in DEV
    BY <2>4 DEF Tidy
  <2> HIDE DEF p
  <2>6. /\ SameMail(p, u) /\ u.when = time + 2 /\ u.q = p.q /\ u.node = p.node
        /\ u.made = p.made /\ u.out = p.out /\ u.refused = p.refused /\ u.ended = p.ended
        /\ Armed(u)
    BY <2>5, ArmIs
  <2> HIDE DEF u
  <2>7. Tidy(u) /\ u.ok /\ u.when # 0
    BY <2>4, <2>6, SameTidy DEF SameMail, Armed
  <2>8. /\ u.node = s.node /\ u.ended = s.ended /\ u.made = s.made
        /\ u.out = Append(s.out, n) /\ u.q = s.q /\ u.refused = s.refused
    BY <2>1, <2>4, <2>6 DEF SameDesk
  <2> QED BY <1>5, <2>2, <2>6, <2>7, <2>8 DEF t, p, o
<1> QED BY <1>3, <1>4, <1>5

\* The first that waits goes out, unless the deadline lies ahead; an assert
\* fails if there is no room for it.
LEMMA ProcessIs ==
  ASSUME NEW s, Tidy(s), s.ok, time \in Nat
  PROVE  LET t == process(s)
         IN  /\ Tidy(t) /\ (t.q # << >> => t.when # 0)
             /\ t.node = s.node /\ t.ended = s.ended /\ t.made = s.made /\ t.refused = s.refused
             /\ \/ t = s
                \/ /\ s.q # << >> /\ ~Armed(s) /\ Armed(t) /\ (t.ok => ~Full(s))
                   /\ t.q = Tail(s.q) /\ t.out = Append(s.out, Head(s.q))
                   /\ SameMail(push(Out([s EXCEPT !.q = Tail(@)], Head(s.q)), Head(s.q)), t)
<1> DEFINE n == Head(s.q)
           x == Tail(s.q)
           v == [s EXCEPT !.q = x]
           o == Out(v, n)
           p == push(o, n)
           u == Arm(p)
           t == process(s)
<1>1. s \in DEV
  BY DEF Tidy
<1>2. t = IF s.q = << >> \/ Armed(s) THEN s ELSE u
  BY DEF process
<1>3. CASE s.q = << >> \/ Armed(s)
  BY <1>2, <1>3 DEF Armed
<1>4. CASE s.q # << >> /\ ~Armed(s)
  <2>1. n \in Nat /\ x \in Seq(Nat)
    <3>1. s.q \in Seq(Nat)
      BY <1>1 DEF DEV
    <3> QED BY <1>4, <3>1, MembersTail
  <2>2. t = u
    BY <1>2, <1>4
  <2> HIDE DEF n, x, t
  <2>3. /\ SameMail(s, v) /\ v.q = x /\ v.when = s.when /\ v.node = s.node /\ v.made = s.made
        /\ v.out = s.out /\ v.refused = s.refused /\ v.ended = s.ended
    BY <1>1, <2>1, RequeuedIs
  <2>4. v \in DEV
    BY <2>3 DEF SameMail
  <2> HIDE DEF v
  <2>5. /\ SameMail(v, o) /\ o.out = Append(v.out, n) /\ o.q = v.q /\ o.when = v.when
        /\ o.node = v.node /\ o.made = v.made /\ o.refused = v.refused /\ o.ended = v.ended
    BY <2>1, <2>4, OutIs
  <2> HIDE DEF o
  <2>6. Tidy(v) /\ (Full(v) <=> Full(s)) /\ v.ok
    BY <2>3, SameTidy DEF SameMail
  <2>7. Tidy(o) /\ o.ok /\ (Full(o) <=> Full(s))
    BY <2>5, <2>6, SameTidy DEF SameMail
  <2>8. Tidy(p) /\ SameDesk(o, p)
    BY <2>1, <2>7, PushTidy
  <2>9. p.ok => ~Full(s)
    <3>1. SUFFICES ASSUME Full(o) PROVE ~p.ok
      BY <2>7
    <3>2. FreeBoxes(o) = {}
      <4>1. o.tx # << >>
        BY <3>1, CANAssumption DEF Full
      <4> QED BY <2>7, <4>1 DEF Tidy, Boxed
    <3>3. p = Enqueue(o, n)
      BY <3>2 DEF push
    <3>4. o \in DEV
      BY <2>7 DEF Tidy
    <3> QED BY <2>1, <3>1, <3>3, <3>4, EnqueueIs
  <2>10. p \in DEV
    BY <2>8 DEF Tidy
  <2> HIDE DEF p
  <2>11. /\ SameMail(p, u) /\ u.when = time + 2 /\ u.q = p.q /\ u.node = p.node
         /\ u.made = p.made /\ u.out = p.out /\ u.refused = p.refused /\ u.ended = p.ended
         /\ Armed(u)
    BY <2>10, ArmIs
  <2> HIDE DEF u
  <2>12. Tidy(u) /\ u.when # 0 /\ (u.ok => ~Full(s))
    BY <2>8, <2>9, <2>11, SameTidy DEF SameMail, Armed
  <2>13. /\ u.node = s.node /\ u.ended = s.ended /\ u.made = s.made /\ u.refused = s.refused
         /\ u.out = Append(s.out, n) /\ u.q = x
    BY <2>3, <2>5, <2>8, <2>11 DEF SameDesk
  <2>14. SameMail(push(Out([s EXCEPT !.q = x], n), n), u)
    BY <2>11 DEF p, o, v
  <2> QED BY <1>4, <2>2, <2>11, <2>12, <2>13, <2>14 DEF t, n, x
<1> QED BY <1>3, <1>4

LEMMA MadeIs ==
  ASSUME NEW s \in DEV, NEW t, t = [s EXCEPT !.made = @ + 1]
  PROVE  /\ SameMail(s, t) /\ t.when = s.when /\ t.q = s.q /\ t.node = s.node
         /\ t.made = s.made + 1 /\ t.made \in Nat /\ s.made \in Nat
         /\ t.out = s.out /\ t.refused = s.refused /\ t.ended = s.ended
<1> DEFINE m == s.made + 1
<1>1. s.made \in Nat /\ m \in Nat
  BY DEF DEV
<1> HIDE DEF m
<1>2. t = [s EXCEPT !.made = m]
  BY DEF m
<1>3. t \in DEV
  BY <1>1, <1>2 DEF DEV
<1>4. SameMail(s, t)
  BY <1>2, <1>3 DEF DEV, SameMail
<1>5. /\ t.when = s.when /\ t.q = s.q /\ t.node = s.node
      /\ t.made = m /\ t.out = s.out /\ t.refused = s.refused /\ t.ended = s.ended
  BY <1>2 DEF DEV
<1> QED BY <1>1, <1>4, <1>5 DEF m

LEMMA OthersIs ==
  ASSUME NEW s \in DEV, NEW t, t = [s EXCEPT !.others = @ + 1]
  PROVE  /\ SameMail(s, t) /\ t.when = s.when /\ t.q = s.q /\ t.node = s.node
         /\ t.made = s.made /\ t.out = s.out /\ t.refused = s.refused /\ t.ended = s.ended
<1> DEFINE x == s.others + 1
<1>1. x \in Nat
  BY DEF DEV
<1> HIDE DEF x
<1>2. t = [s EXCEPT !.others = x]
  BY DEF x
<1>3. t \in DEV
  BY <1>1, <1>2 DEF DEV
<1>4. SameMail(s, t)
  BY <1>2, <1>3 DEF SameMail, DEV
<1> QED BY <1>2, <1>4 DEF DEV

\* The node has answered, or its answer is lost.
Replied(s, w) == [s EXCEPT !.node = Tail(@), !.when = w, !.ended = @ \cup {Head(s.node)}]

LEMMA RepliedIs ==
  ASSUME NEW s \in DEV, s.node # << >>, NEW w \in Int
  PROVE  LET t == Replied(s, w)
         IN  /\ SameMail(s, t) /\ t.when = w /\ t.q = s.q /\ t.node = Tail(s.node)
             /\ t.made = s.made /\ t.out = s.out /\ t.refused = s.refused
             /\ t.ended = s.ended \cup {Head(s.node)} /\ Head(s.node) \in Nat
<1> DEFINE n == Head(s.node)
           x == Tail(s.node)
           e == s.ended \cup {n}
           t == Replied(s, w)
<1>1. n \in Nat /\ x \in Seq(Nat)
  BY MembersTail DEF DEV
<1> HIDE DEF n, x
<1>2. e \in SUBSET Nat
  BY <1>1 DEF DEV
<1>3. t = [s EXCEPT !.node = x, !.when = w, !.ended = e]
  BY DEF Replied, n, x
<1> HIDE DEF e, t
<1>4. t \in DEV
  BY <1>1, <1>2, <1>3 DEF DEV
<1>5. SameMail(s, t)
  BY <1>3, <1>4 DEF DEV, SameMail
<1>6. /\ t.when = w /\ t.q = s.q /\ t.node = x
      /\ t.made = s.made /\ t.out = s.out /\ t.refused = s.refused /\ t.ended = e
  BY <1>3 DEF DEV
<1> QED BY <1>1, <1>5, <1>6 DEF t, e, n, x

LEMMA CallbackTidy ==
  ASSUME NEW s, Tidy(s), s.ok, NEW t \in Callback(s), time \in Nat
  PROVE  Tidy(t) /\ t.ok
<1> DEFINE u == [s EXCEPT !.made = @ + 1]
           n == s.made + 1
<1>1. t = s \/ t = pushorqueue(u, n)
  BY DEF Callback
<1>2. SameMail(s, u) /\ n \in Nat
  <2>1. s \in DEV
    BY DEF Tidy
  <2>2. SameMail(s, u) /\ u.made = s.made + 1 /\ u.made \in Nat
    BY <2>1, MadeIs
  <2> QED BY <2>2
<1> HIDE DEF u, n
<1>3. Tidy(u) /\ u.ok
  BY <1>2, SameTidy DEF SameMail
<1> QED BY <1>1, <1>2, <1>3, PushOrQueueIs

-----------------------------------------------------------------------------
(* Nothing waits without being waited for: what holds of the controller    *)
(* and the deadline at each statement of pushorqueue.                      *)

\* The mailbox that is taken is marked one statement later.
Settled == IF pc = "mark" THEN Mark(dev, mbox) ELSE dev

TidyInv ==
  /\ time \in Nat /\ dev \in DEV
  /\ pc \in {"decide", "queue", "trypush", "enqueue", "add", "mark"} => msg \in Nat
  /\ pc \in {"decide", "queue"} => msg # Other
  /\ pc = "mark" => mbox \in Boxes /\ dev.ok
  /\ Tidy(Settled)
  /\ pc = "enqueue" => FreeBoxes(dev) = {} /\ ~Full(dev)
  /\ pc = "add" => FreeBoxes(dev) # {} /\ ~Full(dev)

WaitInv ==
  /\ pc = "queue" => dev.when # 0
  /\ pc \in {"out", "trypush", "enqueue", "add", "mark"} /\ (pc # "out" => msg = Other) =>
       (dev.q # << >> => dev.when # 0)

\* Unless interrupts come inside of pushorqueue.
CalmInv == ~env.preempt => TidyInv /\ WaitInv

LEMMA TidyInit == Init => CalmInv
<1> SUFFICES ASSUME Init
             PROVE  TidyInv /\ WaitInv
  BY DEF CalmInv
<1> DEFINE x == [b \in Boxes |-> None]
<1>1. /\ dev = [box |-> x, active |-> {}, tx |-> << >>, ok |-> TRUE, q |-> << >>,
                when |-> 0, node |-> << >>, made |-> 0, others |-> 0, out |-> << >>,
                at |-> << >>, refused |-> {}, ended |-> {}]
      /\ pc = "out" /\ time = 0
  BY DEF Init, Mailboxes
<1>2. x \in [Boxes -> Mail] /\ \A b \in Boxes : x[b] = None
  BY NoneIsNone
<1> HIDE DEF x
<1>3. dev \in DEV
  BY <1>1, <1>2 DEF DEV
<1>4. /\ dev.box = x /\ dev.active = {} /\ dev.tx = << >> /\ dev.ok = TRUE
      /\ dev.q = << >> /\ Settled = dev
  BY <1>1 DEF Settled
<1>5. FreeBoxes(dev) = Boxes
  BY <1>2, <1>4 DEF FreeBoxes
<1>6. Boxed(dev)
  BY <1>4, <1>5 DEF Boxed
<1> QED BY <1>1, <1>3, <1>4, <1>6 DEF TidyInv, WaitInv, Tidy

\* Between calls of pushorqueue nothing else has to be shown.
LEMMA TidyOut ==
  ASSUME time' \in Nat, pc' = "out", Tidy(dev'), dev'.q # << >> => dev'.when # 0
  PROVE  TidyInv' /\ WaitInv'
<1>1. Settled' = dev'
  BY DEF Settled
<1>2. dev' \in DEV
  BY DEF Tidy
<1>3. Tidy(Settled)'
  BY <1>1 DEF Tidy, DEV, Mail, Boxed, FreeBoxes, Full
<1>4. (dev \in DEV)'
  BY <1>2 DEF DEV, Mail
<1> QED BY <1>3, <1>4 DEF TidyInv, WaitInv

LEMMA TidyInterrupt ==
  ASSUME CalmInv, ~env.preempt, Answered \/ PDO \/ \E b \in Boxes : Transmitted(b)
  PROVE  TidyInv' /\ WaitInv'
<1>1. TidyInv /\ WaitInv
  BY DEF CalmInv
<1>2. pc = "out" /\ pc' = "out" /\ dev.ok /\ time' = time
  BY DEF Answered, PDO, Transmitted, Interruptible
<1>3. Tidy(dev) /\ dev \in DEV /\ time \in Nat /\ (dev.q # << >> => dev.when # 0)
  BY <1>1, <1>2 DEF TidyInv, WaitInv, Settled
<1>4. ASSUME NEW s, Tidy(s), s.ok, NEW t \in Callback(s), dev' = process(t)
      PROVE  TidyInv' /\ WaitInv'
  <2>1. Tidy(t) /\ t.ok
    BY <1>3, <1>4, CallbackTidy
  <2>2. Tidy(process(t)) /\ (process(t).q # << >> => process(t).when # 0)
    BY <1>3, <2>1, ProcessIs
  <2> QED BY <1>2, <1>3, <1>4, <2>2, TidyOut
<1>5. CASE Answered
  <2> DEFINE s == Replied(dev, 0)
  <2>1. dev.node # << >> /\ dev' \in {process(t) : t \in Callback(s)}
    BY <1>5 DEF Answered, Replied
  <2>2. SameMail(dev, s)
    BY <1>3, <2>1, RepliedIs
  <2> HIDE DEF s
  <2>3. Tidy(s) /\ s.ok
    BY <1>2, <1>3, <2>2, SameTidy DEF SameMail
  <2>4. PICK t \in Callback(s) : dev' = process(t)
    BY <2>1
  <2> QED BY <1>4, <2>3, <2>4
<1>6. CASE PDO
  <2>1. PICK t \in Callback(dev) : dev' = process(t)
    BY <1>6 DEF PDO
  <2> QED BY <1>2, <1>3, <1>4, <2>1
<1>7. ASSUME NEW b \in Boxes, Transmitted(b)
      PROVE  TidyInv' /\ WaitInv'
  <2> DEFINE u == Emptied(dev, b)
             t == _tx_complete(u, b)
  <2>1. dev' = t /\ dev.box[b] # None
    BY <1>7 DEF Transmitted, Emptied
  <2>2. Tidy(t) /\ SameDesk(u, t)
    BY <1>2, <1>3, <2>1, CompleteIs
  <2>3. u.q = dev.q /\ u.when = dev.when
    BY <1>3, <2>1, EmptiedIs
  <2> HIDE DEF t, u
  <2>4. t.q = dev.q /\ t.when = dev.when
    BY <2>2, <2>3 DEF SameDesk
  <2> QED BY <1>2, <1>3, <2>1, <2>2, <2>4, TidyOut
<1> QED BY <1>5, <1>6, <1>7

\* The main loop stays where it is, and so do the messages.
LEMMA TidyStay ==
  ASSUME TidyInv, WaitInv, UNCHANGED <<pc, msg, mbox>>, time' \in Nat,
         SameMail(dev, dev'), dev'.q = dev.q, dev'.when = dev.when
  PROVE  TidyInv' /\ WaitInv'
<1> DEFINE t == dev'
<1>1. t \in DEV /\ dev \in DEV
  BY DEF TidyInv, SameMail
<1>2. (dev \in DEV)'
  BY <1>1 DEF DEV, Mail
<1>3. FreeBoxes(t) = FreeBoxes(dev) /\ (Full(t) <=> Full(dev))
  BY DEF FreeBoxes, Full, SameMail
<1>4. FreeBoxes(dev)' = FreeBoxes(t) /\ (Full(dev)' <=> Full(t))
  BY DEF FreeBoxes, Full
<1>5. ASSUME pc = "mark"
      PROVE  SameMail(Mark(dev, mbox), Mark(t, mbox))
  <2>1. mbox \in Boxes
    BY <1>5 DEF TidyInv
  <2> DEFINE a == Mark(dev, mbox)
             b == Mark(t, mbox)
  <2>2. a.box = dev.box /\ a.active = dev.active \cup {mbox} /\ a.tx = dev.tx /\ a.ok = dev.ok
    BY <1>1, <2>1, MarkIs
  <2> HIDE DEF t
  <2>3. b.box = t.box /\ b.active = t.active \cup {mbox} /\ b.tx = t.tx /\ b.ok = t.ok /\ b \in DEV
    BY <1>1, <2>1, MarkIs DEF SameDesk
  <2>4. t.box = dev.box /\ t.active = dev.active /\ t.tx = dev.tx /\ t.ok = dev.ok
    BY DEF SameMail, t
  <2> HIDE DEF a, b
  <2>5. SameMail(a, b)
    BY <2>2, <2>3, <2>4 DEF SameMail
  <2> QED BY <2>5 DEF a, b
<1>6. Tidy(Settled)'
  <2> DEFINE u == IF pc = "mark" THEN Mark(t, mbox) ELSE t
  <2>1. Tidy(u)
    <3>1. Tidy(Settled) /\ (pc = "mark" => SameMail(Settled, u))
      BY <1>5 DEF TidyInv, Settled
    <3>2. pc # "mark" => SameMail(Settled, u)
      BY DEF Settled
    <3> QED BY <3>1, <3>2, SameTidy
  <2>2. Settled' = u
    BY DEF Settled, Mark
  <2> HIDE DEF u
  <2> QED BY <2>1, <2>2 DEF Tidy, DEV, Mail, Boxed, FreeBoxes, Full
<1>7. TidyInv'
  BY <1>2, <1>3, <1>4, <1>6 DEF TidyInv, SameMail
<1> QED BY <1>7 DEF WaitInv

LEMMA TidyElse ==
  ASSUME CalmInv, ~env.preempt, Lost \/ Tick \/ UNCHANGED vars
  PROVE  TidyInv' /\ WaitInv'
<1>1. TidyInv /\ WaitInv /\ dev \in DEV /\ time \in Nat
  BY DEF CalmInv, TidyInv
<1>2. SameMail(dev, dev)
  BY <1>1 DEF SameMail
<1>3. CASE Lost
  <2> DEFINE t == Replied(dev, dev.when)
  <2>1. dev' = t /\ dev.node # << >> /\ dev.when \in Int
    BY <1>1, <1>3 DEF Lost, Replied, DEV
  <2>2. SameMail(dev, t) /\ t.q = dev.q /\ t.when = dev.when
    BY <1>1, <2>1, RepliedIs
  <2> HIDE DEF t
  <2> QED BY <1>1, <1>3, <2>1, <2>2, TidyStay DEF Lost
<1>4. CASE Tick
  BY <1>1, <1>2, <1>4, TidyStay DEF Tick
<1>5. CASE UNCHANGED vars
  BY <1>1, <1>2, <1>5, TidyStay DEF vars
<1> QED BY <1>3, <1>4, <1>5

\* What the main loop gives to the controller, or discards, first.
LEMMA GivenIs ==
  ASSUME NEW s \in DEV, NEW m \in Nat, time \in Nat
  PROVE  /\ SameMail(s, Given(s, m)) /\ SameMail(s, Discarded(s, m))
         /\ Given(s, m).q = s.q /\ Given(s, m).when = s.when
         /\ Given(s, m).node = s.node /\ Given(s, m).made = s.made
         /\ Given(s, m).refused = s.refused /\ Given(s, m).ended = s.ended
         /\ m = Other => Given(s, m).out = s.out
         /\ m # Other => Given(s, m).out = Append(s.out, m)
         /\ Discarded(s, m).q = s.q /\ Discarded(s, m).when = s.when
         /\ Discarded(s, m).node = s.node /\ Discarded(s, m).made = s.made
         /\ Discarded(s, m).out = s.out /\ Discarded(s, m).ended = s.ended
         /\ m = Other => Discarded(s, m).refused = s.refused
         /\ m # Other => Discarded(s, m).refused = s.refused \cup {m}
<1>1. CASE m = Other
  BY <1>1 DEF Given, Discarded, SameMail
<1>2. CASE m # Other
  <2> DEFINE o == Out(s, m)
             r == Refused(s, m)
  <2>1. Given(s, m) = o /\ Discarded(s, m) = r
    BY <1>2 DEF Given, Discarded
  <2>2. /\ SameMail(s, o) /\ o.out = Append(s.out, m) /\ o.q = s.q /\ o.when = s.when
        /\ o.node = s.node /\ o.made = s.made /\ o.refused = s.refused /\ o.ended = s.ended
    BY OutIs
  <2>3. /\ SameMail(s, r) /\ r.refused = s.refused \cup {m} /\ r.q = s.q /\ r.when = s.when
        /\ r.node = s.node /\ r.made = s.made /\ r.out = s.out /\ r.ended = s.ended
    BY RefusedIs
  <2> HIDE DEF o, r
  <2> QED BY <1>2, <2>1, <2>2, <2>3
<1> QED BY <1>1, <1>2

\* Inside of pushorqueue, but where a mailbox is to be marked.
LEMMA TidyInside ==
  ASSUME time' \in Nat, pc' # "mark", Tidy(dev'),
         pc' \in {"decide", "queue", "trypush", "enqueue", "add"} => msg' \in Nat,
         pc' \in {"decide", "queue"} => msg' # Other,
         pc' = "enqueue" => FreeBoxes(dev') = {} /\ ~Full(dev'),
         pc' = "add" => FreeBoxes(dev') # {} /\ ~Full(dev'), WaitInv'
  PROVE  TidyInv' /\ WaitInv'
<1>1. Settled' = dev'
  BY DEF Settled
<1>2. dev' \in DEV
  BY DEF Tidy
<1>3. Tidy(Settled)'
  BY <1>1 DEF Tidy, DEV, Mail, Boxed, FreeBoxes, Full
<1>4. (dev \in DEV)'
  BY <1>2 DEF DEV, Mail
<1>5. FreeBoxes(dev)' = FreeBoxes(dev') /\ (Full(dev)' <=> Full(dev'))
  BY DEF FreeBoxes, Full
<1>6. /\ pc' \in {"decide", "queue", "trypush", "enqueue", "add", "mark"} => msg' \in Nat
      /\ pc' \in {"decide", "queue"} => (msg # Other)'
  BY DEF Other
<1> QED BY <1>3, <1>4, <1>5, <1>6 DEF TidyInv

LEMMA TidyMain ==
  ASSUME CalmInv, ~env.preempt, Request \/ SendOther \/ Main
  PROVE  TidyInv' /\ WaitInv'
<1>1. TidyInv /\ WaitInv /\ dev \in DEV /\ time \in Nat
  BY DEF CalmInv, TidyInv
<1>2. dev.ok /\ time' = time
  BY DEF Request, SendOther, Main, Decide, QueueIt, TryPush, EnqueueIt, AddIt, MarkIt, ArmIt,
         Here, Go, After
<1>3. time' \in Nat
  BY <1>1, <1>2
<1>4. ASSUME pc # "mark"
      PROVE  Tidy(dev)
  BY <1>1, <1>4 DEF TidyInv, Settled
<1>5. CASE Request
  <2>1. dev' = [dev EXCEPT !.made = @ + 1] /\ msg' = dev.made + 1 /\ pc' = "decide" /\ pc = "out"
    BY <1>5 DEF Request, Go, Here
  <2>2. SameMail(dev, dev') /\ msg' \in Nat /\ msg' # Other
    BY <1>1, <2>1, MadeIs DEF Other
  <2>3. Tidy(dev')
    BY <1>4, <2>1, <2>2, SameTidy
  <2>4. WaitInv'
    BY <2>1 DEF WaitInv
  <2> QED BY <1>3, <2>1, <2>2, <2>3, <2>4, TidyInside
<1>6. CASE SendOther
  <2>1. /\ dev' = [dev EXCEPT !.others = @ + 1] /\ msg' = Other
        /\ pc' = "trypush" /\ pc = "out"
    BY <1>6 DEF SendOther, Go, Here
  <2>2. SameMail(dev, dev') /\ dev'.q = dev.q /\ dev'.when = dev.when
    BY <1>1, <2>1, OthersIs
  <2>3. Tidy(dev')
    BY <1>4, <2>1, <2>2, SameTidy
  <2>4. WaitInv'
    BY <1>1, <2>1, <2>2 DEF WaitInv
  <2> QED BY <1>3, <2>1, <2>3, <2>4, TidyInside DEF Other
<1>7. CASE Decide
  <2> DEFINE w == [dev EXCEPT !.when = 0]
  <2>1. /\ dev' = IF Armed(dev) THEN dev ELSE w
        /\ msg' = msg /\ pc = "decide" /\ pc' = IF Armed(dev) THEN "queue" ELSE "trypush"
    BY <1>7 DEF Decide, Go, Here
  <2>2. SameMail(dev, dev')
    <3>1. SameMail(dev, w)
      BY <1>1, WhenIs
    <3> QED BY <1>1, <2>1, <3>1 DEF SameMail
  <2>3. Tidy(dev')
    BY <1>4, <2>1, <2>2, SameTidy
  <2>4. msg' \in Nat /\ msg' # Other
    BY <1>1, <2>1 DEF TidyInv
  <2>5. CASE Armed(dev)
    <3>1. dev' = dev /\ pc' = "queue" /\ dev.when # 0
      BY <2>1, <2>5 DEF Armed
    <3>2. WaitInv'
      BY <3>1 DEF WaitInv
    <3> QED BY <1>3, <2>3, <2>4, <3>1, <3>2, TidyInside
  <2>6. CASE ~Armed(dev)
    <3>1. pc' = "trypush" /\ dev'.when = 0 /\ dev' = w
      BY <1>1, <2>1, <2>6 DEF DEV
    <3>2. msg' \in Nat /\ msg' = msg /\ msg # Other
      BY <2>1, <2>4
    <3>3. WaitInv'
      BY <3>1, <3>2 DEF WaitInv
    <3> QED BY <1>3, <2>3, <2>4, <3>1, <3>3, TidyInside
  <2> QED BY <2>5, <2>6
<1>8. CASE QueueIt
  <2>1. dev' = Queued(dev, msg) /\ pc = "queue" /\ pc' = "out"
    BY <1>8 DEF QueueIt, Go, Here
  <2>2. msg \in Nat /\ dev.when # 0
    BY <1>1, <2>1 DEF TidyInv, WaitInv
  <2>3. SameMail(dev, dev') /\ dev'.when = dev.when
    BY <1>1, <2>1, <2>2, QueuedIs
  <2>4. Tidy(dev')
    BY <1>4, <2>1, <2>3, SameTidy
  <2> QED BY <1>3, <2>1, <2>2, <2>3, <2>4, TidyOut
\* The message is handed over or discarded: only other messages leave for good.
<1>9. ASSUME After, Tidy(dev'), dev'.q = dev.q, dev'.when = dev.when,
             pc \in {"trypush", "enqueue", "add", "mark"}
      PROVE  TidyInv' /\ WaitInv'
  <2>1. CASE msg = Other
    <3>1. pc' = "out"
      BY <1>9, <2>1 DEF After, Go
    <3>2. dev'.q # << >> => dev'.when # 0
      BY <1>1, <1>9, <2>1 DEF WaitInv
    <3> QED BY <1>3, <1>9, <3>1, <3>2, TidyOut
  <2>2. CASE msg # Other
    <3>1. pc' = "arm"
      BY <1>9, <2>2 DEF After, Go
    <3>2. WaitInv'
      BY <3>1 DEF WaitInv
    <3> QED BY <1>3, <1>9, <3>1, <3>2, TidyInside
  <2> QED BY <2>1, <2>2
<1>10. ASSUME pc \in {"trypush", "enqueue", "add"}
       PROVE  /\ msg \in Nat /\ Tidy(dev)
              /\ SameMail(dev, Given(dev, msg)) /\ SameMail(dev, Discarded(dev, msg))
              /\ Given(dev, msg).q = dev.q /\ Given(dev, msg).when = dev.when
              /\ Discarded(dev, msg).q = dev.q /\ Discarded(dev, msg).when = dev.when
  <2>1. msg \in Nat
    BY <1>1, <1>10 DEF TidyInv
  <2> QED BY <1>1, <1>4, <1>10, <2>1, GivenIs
<1>11. CASE TryPush
  <2>1. pc = "trypush"
    BY <1>11 DEF TryPush, Here
  <2>2. CASE dev' = Discarded(dev, msg) /\ After
    BY <1>9, <1>10, <2>1, <2>2, SameTidy
  <2>3. CASE /\ ~Full(dev) /\ dev' = dev /\ msg' = msg
             /\ pc' = IF FreeBoxes(dev) = {} THEN "enqueue" ELSE "add"
    <3>1. WaitInv'
      BY <1>1, <2>1, <2>3 DEF WaitInv
    <3> QED BY <1>3, <1>10, <2>1, <2>3, <3>1, TidyInside
  <2> QED BY <1>11, <2>2, <2>3 DEF TryPush, Go
<1>12. CASE EnqueueIt
  <2> DEFINE s == Given(dev, msg)
             t == Enqueue(s, msg)
  <2>1. pc = "enqueue" /\ dev' = t /\ After
    BY <1>12 DEF EnqueueIt, Here
  <2>2. FreeBoxes(dev) = {} /\ ~Full(dev)
    BY <1>1, <2>1 DEF TidyInv
  <2>3. msg \in Nat /\ SameMail(dev, s) /\ s.q = dev.q /\ s.when = dev.when
    BY <1>10, <2>1
  <2>4. Tidy(s) /\ s.ok /\ FreeBoxes(s) = {} /\ s \in DEV
    BY <1>2, <1>10, <2>1, <2>2, <2>3, SameTidy DEF SameMail
  <2> HIDE DEF s
  <2>5. push(s, msg) = t
    BY <2>4 DEF push
  <2>6. Tidy(t) /\ SameDesk(s, t)
    BY <2>3, <2>4, <2>5, PushTidy
  <2> HIDE DEF t
  <2>7. t.q = dev.q /\ t.when = dev.when
    BY <2>3, <2>6 DEF SameDesk
  <2> QED BY <1>9, <2>1, <2>6, <2>7
<1>13. CASE AddIt
  <2>1. pc = "add" /\ FreeBoxes(dev) # {}
    BY <1>1, <1>13 DEF AddIt, Here, TidyInv
  <2> DEFINE s == Given(dev, msg)
             b == LowestFree(dev)
             t == Add(s, b, msg)
  <2>2. dev' = t /\ mbox' = b /\ msg' = msg /\ pc' = "mark"
    BY <1>13, <2>1 DEF AddIt, Go
  <2>3. msg \in Nat /\ SameMail(dev, s) /\ s.q = dev.q /\ s.when = dev.when
    BY <1>10, <2>1
  <2>4. Tidy(s) /\ s.ok /\ FreeBoxes(s) = FreeBoxes(dev) /\ s \in DEV
    BY <1>2, <1>10, <2>1, <2>3, SameTidy DEF SameMail
  <2>5. b = LowestFree(s) /\ b \in Boxes
    BY <2>1, <2>4, LowestIsFree DEF LowestFree
  <2> HIDE DEF s, b
  <2>6. push(s, msg) = Mark(t, b)
    BY <2>1, <2>4, <2>5 DEF push
  <2>7. Tidy(Mark(t, b))
    BY <2>3, <2>4, <2>6, PushTidy
  <2>8. t \in DEV /\ t.q = dev.q /\ t.when = dev.when /\ t.ok
    BY <2>3, <2>4, <2>5, AddIs DEF SameDesk
  <2> HIDE DEF t
  <2>9. Settled' = Mark(t, b)
    BY <2>2 DEF Settled, Mark
  <2>10. Tidy(Settled)'
    BY <2>7, <2>9 DEF Tidy, DEV, Mail, Boxed, FreeBoxes, Full
  <2>11. (dev \in DEV)'
    BY <2>2, <2>8 DEF DEV, Mail
  <2>12. TidyInv'
    BY <1>3, <2>2, <2>3, <2>5, <2>8, <2>10, <2>11 DEF TidyInv
  <2>13. WaitInv'
    BY <1>1, <2>1, <2>2, <2>8 DEF WaitInv
  <2> QED BY <2>12, <2>13
<1>14. CASE MarkIt
  <2> DEFINE t == Mark(dev, mbox)
  <2>1. pc = "mark" /\ dev' = t /\ After
    BY <1>14 DEF MarkIt, Here
  <2>2. Tidy(t) /\ mbox \in Boxes
    BY <1>1, <2>1 DEF TidyInv, Settled
  <2>3. t.q = dev.q /\ t.when = dev.when
    BY <1>1, <2>2, MarkIs DEF SameDesk
  <2> HIDE DEF t
  <2> QED BY <1>9, <2>1, <2>2, <2>3
<1>15. CASE ArmIt
  <2>1. pc = "arm" /\ dev' = Arm(dev) /\ pc' = "out"
    BY <1>15 DEF ArmIt, Here, Go
  <2>2. SameMail(dev, dev') /\ dev'.when = time + 2
    BY <1>1, <2>1, ArmIs
  <2>3. Tidy(dev')
    BY <1>4, <2>1, <2>2, SameTidy
  <2> QED BY <1>1, <1>3, <2>1, <2>2, <2>3, TidyOut
<1> QED BY <1>5, <1>6, <1>7, <1>8, <1>11, <1>12, <1>13, <1>14, <1>15 DEF Main

LEMMA CalmNext == CalmInv /\ [Next]_vars => CalmInv'
<1> SUFFICES ASSUME CalmInv, [Next]_vars, ~env'.preempt
             PROVE  TidyInv' /\ WaitInv'
  BY DEF CalmInv
<1>1. ~env.preempt
  BY DEF Next, vars, Answered, Lost, PDO, Tick, Transmitted, Request, SendOther, Main,
         Decide, QueueIt, TryPush, EnqueueIt, AddIt, MarkIt, ArmIt, Go, After
<1> QED BY <1>1, TidyInterrupt, TidyElse, TidyMain DEF Next

LEMMA CalmInvariant == Spec => []CalmInv
BY TidyInit, CalmNext, PTL DEF Spec

\* What waits is waited for: a request for a deadline, a message for the
\* interrupt of a mailbox (canopen.h:311-334, can.cpp:17-26, 128-134), as long as no
\* interrupt comes inside of pushorqueue.
THEOREM CANOpenWaits == Spec => []Waits
<1>1. CalmInv => Waits
  <2> SUFFICES ASSUME CalmInv, ~env.preempt, pc = "out"
               PROVE  /\ dev.q # << >> => dev.when # 0
                      /\ dev.ok => /\ dev.active = Boxes \ FreeBoxes(dev)
                                   /\ dev.tx # << >> => FreeBoxes(dev) = {}
    BY DEF Waits, WaitsArmed, WaitsBusy
  <2>1. Tidy(dev) /\ WaitInv
    BY DEF CalmInv, TidyInv, Settled
  <2> QED BY <2>1 DEF WaitInv, Tidy, Boxed
<1> QED BY <1>1, CalmInvariant, PTL

\* An assert fails only for want of space in tx.q (can.cpp:20, queue.h:50), as long as
\* no interrupt comes inside of pushorqueue.
LEMMA CANOpenAsserts == Spec => []AssertsOnlyWhenFull
<1>1. CalmInv => AssertsOnlyWhenFull
  <2> SUFFICES ASSUME CalmInv, ~env.preempt, ~dev.ok
               PROVE  Full(dev)
    BY DEF AssertsOnlyWhenFull
  <2>1. Tidy(dev)
    BY DEF CalmInv, TidyInv, Settled
  <2> QED BY <2>1 DEF Tidy
<1> QED BY <1>1, CalmInvariant, PTL

-----------------------------------------------------------------------------
(* Nothing that is accounted for is in two places.                         *)

LEMMA MembersCount ==
  ASSUME NEW s \in Seq(Nat)
  PROVE  /\ IsFiniteSet(Members(s)) /\ Cardinality(Members(s)) \in Nat
         /\ Cardinality(Members(s)) <= Len(s)
<1> DEFINE f == [k \in 1 .. Len(s) |-> s[k]]
           M == Members(s)
<1>1. Len(s) \in Nat /\ DOMAIN s = 1 .. Len(s)
  OBVIOUS
<1>2. IsFiniteSet(1 .. Len(s)) /\ Cardinality(1 .. Len(s)) = Len(s)
  <2>1. /\ IsFiniteSet(1 .. Len(s))
        /\ Cardinality(1 .. Len(s)) = IF 1 > Len(s) THEN 0 ELSE Len(s) - 1 + 1
    BY <1>1, FS_Interval
  <2> QED BY <1>1, <2>1
<1>3. f \in Surjection(1 .. Len(s), M)
  <2>1. \A k \in 1 .. Len(s) : f[k] \in M
    BY <1>1 DEF Members
  <2>2. \A x \in M : \E k \in 1 .. Len(s) : f[k] = x
    BY <1>1 DEF Members
  <2>3. f \in [1 .. Len(s) -> M]
    BY <2>1
  <2> HIDE DEF f, M
  <2> QED BY <2>2, <2>3 DEF Surjection
<1> HIDE DEF f, M
<1>4. IsFiniteSet(M) /\ Cardinality(M) <= Len(s)
  BY <1>2, <1>3, FS_Surjection
<1> QED BY <1>4, FS_CardinalityType DEF M

\* Sets that make up 1 .. m have m elements at least.
LEMMA Cover ==
  ASSUME NEW A, NEW B, NEW C, NEW D, NEW m \in Nat,
         IsFiniteSet(A), IsFiniteSet(B), IsFiniteSet(C), IsFiniteSet(D),
         A \cup B \cup C \cup D = 1 .. m
  PROVE  m <= Cardinality(A) + Cardinality(B) + Cardinality(C) + Cardinality(D)
<1> DEFINE AB == A \cup B
           ABC == AB \cup C
           All == ABC \cup D
<1>1. \A S, T : IsFiniteSet(S) /\ IsFiniteSet(T) =>
                 /\ IsFiniteSet(S \cup T)
                 /\ Cardinality(S \cup T) <= Cardinality(S) + Cardinality(T)
  <2> SUFFICES ASSUME NEW S, NEW T, IsFiniteSet(S), IsFiniteSet(T)
               PROVE  /\ IsFiniteSet(S \cup T)
                      /\ Cardinality(S \cup T) <= Cardinality(S) + Cardinality(T)
    OBVIOUS
  <2>1. IsFiniteSet(S \cap T)
    BY FS_Subset
  <2>2. Cardinality(S) \in Nat /\ Cardinality(T) \in Nat /\ Cardinality(S \cap T) \in Nat
    BY <2>1, FS_CardinalityType
  <2>3. /\ IsFiniteSet(S \cup T)
        /\ Cardinality(S \cup T) = Cardinality(S) + Cardinality(T) - Cardinality(S \cap T)
    BY FS_Union
  <2> QED BY <2>2, <2>3
<1>2. IsFiniteSet(AB) /\ Cardinality(AB) <= Cardinality(A) + Cardinality(B)
  BY <1>1
<1> HIDE DEF AB
<1>3. IsFiniteSet(ABC) /\ Cardinality(ABC) <= Cardinality(AB) + Cardinality(C)
  BY <1>1, <1>2
<1> HIDE DEF ABC
<1>4. IsFiniteSet(All) /\ Cardinality(All) <= Cardinality(ABC) + Cardinality(D)
  BY <1>1, <1>3
<1>5. Cardinality(1 .. m) = m
  BY FS_Interval
<1>6. All = 1 .. m
  BY DEF ABC, AB
<1> HIDE DEF All
<1>7. /\ Cardinality(A) \in Nat /\ Cardinality(B) \in Nat /\ Cardinality(C) \in Nat
      /\ Cardinality(D) \in Nat /\ Cardinality(AB) \in Nat /\ Cardinality(ABC) \in Nat
  BY <1>2, <1>3, FS_CardinalityType
<1> QED BY <1>2, <1>3, <1>4, <1>5, <1>6, <1>7

LEMMA HandNotOut ==
  ASSUME NEW s, NEW hand, NEW n \in hand, Account(s, hand)
  PROVE  /\ n \notin Members(s.out) /\ n \notin Members(s.q)
         /\ n \in 1 .. s.made
<1> DEFINE A == hand \ {n}
           B == Members(s.out)
           C == Members(s.q)
           D == s.refused
           m == s.made
<1>1. IsFiniteSet(A) /\ Cardinality(A) + 1 = Cardinality(hand) /\ Cardinality(A) \in Nat
  BY HandLess
<1>2. /\ IsFiniteSet(B) /\ IsFiniteSet(C) /\ Cardinality(B) \in Nat /\ Cardinality(C) \in Nat
      /\ Cardinality(B) <= Len(s.out) /\ Cardinality(C) <= Len(s.q)
      /\ Len(s.out) \in Nat /\ Len(s.q) \in Nat
  BY MembersCount DEF Account
<1>3. IsFiniteSet(D) /\ Cardinality(D) \in Nat /\ m \in Nat
  BY FS_CardinalityType DEF Account
<1>4. /\ hand \cup B \cup C \cup D = 1 .. m
      /\ Cardinality(hand) + Len(s.out) + Len(s.q) + Cardinality(D) = m
  BY DEF Account
<1> HIDE DEF B, C, D, m
<1>5. ASSUME n \in B \/ n \in C
      PROVE  FALSE
  <2>1. A \cup B \cup C \cup D = 1 .. m
    BY <1>4, <1>5
  <2> HIDE DEF A
  <2>2. m <= Cardinality(A) + Cardinality(B) + Cardinality(C) + Cardinality(D)
    BY <1>1, <1>2, <1>3, <2>1, Cover
  <2> DEFINE a == Cardinality(A)
             b == Cardinality(B)
             c == Cardinality(C)
             d == Cardinality(D)
             h == Cardinality(hand)
             o == Len(s.out)
             q == Len(s.q)
  <2>3. /\ a \in Nat /\ b \in Nat /\ c \in Nat /\ d \in Nat /\ o \in Nat /\ q \in Nat /\ m \in Nat
        /\ a + 1 = h /\ b <= o /\ c <= q /\ h + o + q + d = m /\ m <= a + b + c + d
    BY <1>1, <1>2, <1>3, <1>4, <2>2
  <2> HIDE DEF a, b, c, d, h, o, q
  <2> QED BY <2>3
<1> QED BY <1>4, <1>5 DEF B, C, m

LEMMA HeadNotOut ==
  ASSUME NEW s, NEW hand, Account(s, hand), s.q # << >>
  PROVE  Head(s.q) \notin Members(s.out) /\ Head(s.q) \in 1 .. s.made
<1> DEFINE n == Head(s.q)
           A == hand
           B == Members(s.out)
           C == Members(Tail(s.q))
           D == s.refused
           m == s.made
<1>1. /\ n \in Nat /\ Tail(s.q) \in Seq(Nat) /\ Len(Tail(s.q)) = Len(s.q) - 1
      /\ Members(s.q) = {n} \cup C /\ Len(s.q) \in Nat /\ Len(s.out) \in Nat
  BY MembersTail DEF Account
<1>2. /\ IsFiniteSet(B) /\ IsFiniteSet(C) /\ Cardinality(B) \in Nat /\ Cardinality(C) \in Nat
      /\ Cardinality(B) <= Len(s.out) /\ Cardinality(C) <= Len(Tail(s.q))
  BY <1>1, MembersCount DEF Account
<1>3. /\ IsFiniteSet(A) /\ Cardinality(A) \in Nat
      /\ IsFiniteSet(D) /\ Cardinality(D) \in Nat /\ m \in Nat
  BY FS_CardinalityType DEF Account
<1>4. /\ A \cup B \cup ({n} \cup C) \cup D = 1 .. m
      /\ Cardinality(A) + Len(s.out) + Len(s.q) + Cardinality(D) = m
  BY <1>1 DEF Account
<1> HIDE DEF A, B, C, D, m, n
<1>5. ASSUME n \in B
      PROVE  FALSE
  <2>1. A \cup B \cup C \cup D = 1 .. m
    BY <1>4, <1>5
  <2>2. m <= Cardinality(A) + Cardinality(B) + Cardinality(C) + Cardinality(D)
    BY <1>2, <1>3, <2>1, Cover
  <2> DEFINE a == Cardinality(A)
             b == Cardinality(B)
             c == Cardinality(C)
             d == Cardinality(D)
             o == Len(s.out)
             q == Len(s.q)
  <2>3. /\ a \in Nat /\ b \in Nat /\ c \in Nat /\ d \in Nat /\ o \in Nat /\ q \in Nat /\ m \in Nat
        /\ b <= o /\ c <= q - 1 /\ a + o + q + d = m /\ m <= a + b + c + d
    BY <1>1, <1>2, <1>3, <1>4, <2>2
  <2> HIDE DEF a, b, c, d, o, q
  <2> QED BY <2>3
<1> QED BY <1>4, <1>5 DEF B, m, n

-----------------------------------------------------------------------------
(* One at a time between calls of pushorqueue                              *)

One(s) == Earlier(s) /\ (s.ok => Solo(s)) /\ (s.ok /\ Open(s) => Armed(s))

\* A request that goes out when those before it have ended is the last.
LEMMA OutOne ==
  ASSUME NEW s \in DEV, NEW t, NEW n \in Nat, Earlier(s), ~Open(s), n \notin Members(s.out),
         t.out = Append(s.out, n), t.ended = s.ended
  PROVE  Last(t) = n /\ Open(t) /\ Earlier(t)
<1> DEFINE o == s.out
           l == Len(o)
           x == Append(o, n)
<1>1. o \in Seq(Nat) /\ l \in Nat /\ DOMAIN o = 1 .. l
  BY DEF DEV
<1>2. s.ended \subseteq Members(o)
  BY DEF Earlier
<1>3. Members(x) = Members(o) \cup {n}
  BY <1>1, MembersAppend
<1>4. \A k \in 1 .. l : k < l => o[k] \in s.ended
  BY <1>1 DEF Earlier
<1>5. l > 0 => o[l] \in s.ended
  <2>1. l > 0 => s.out # << >>
    BY <1>1
  <2> QED BY <2>1 DEF Open, Last
<1>6. n \notin s.ended
  BY <1>2
<1>7. Len(x) = l + 1 /\ x[l + 1] = n /\ DOMAIN x = 1 .. l + 1 /\ \A k \in 1 .. l : x[k] = o[k]
  <2> HIDE DEF o
  <2> QED BY <1>1
<1>8. t.out = x
  OBVIOUS
<1> HIDE DEF x, l
<1>9. Last(t) = n
  BY <1>7, <1>8 DEF Last
<1>10. Open(t)
  <2>1. x # << >>
    BY <1>1, <1>7
  <2> QED BY <1>6, <1>8, <1>9, <2>1 DEF Open
<1>11. ASSUME NEW k \in 1 .. l + 1, k < l + 1
       PROVE  x[k] \in s.ended
  <2>1. k \in 1 .. l /\ (k < l \/ k = l)
    BY <1>1, <1>11
  <2> QED BY <1>1, <1>4, <1>5, <1>7, <2>1
<1>12. Earlier(t)
  BY <1>2, <1>3, <1>7, <1>8, <1>11 DEF Earlier
<1> QED BY <1>9, <1>10, <1>12

LEMMA SentSolo ==
  ASSUME NEW s, Tidy(s), s.ok, Solo(s), Earlier(s), ~Open(s), time \in Nat,
         NEW n \in Nat, n # Other, n \notin Members(s.out),
         NEW t, SameMail(push(Out(s, n), n), t),
         t.node = s.node, t.ended = s.ended, t.out = Append(s.out, n)
  PROVE  Earlier(t) /\ Open(t) /\ (~Full(s) => Solo(t))
<1> DEFINE o == Out(s, n)
           p == push(o, n)
<1>1. s \in DEV
  BY DEF Tidy
<1>2. Earlier(t) /\ Open(t)
  BY <1>1, OutOne
<1>3. SUFFICES ASSUME ~Full(s)
               PROVE  Solo(t)
  BY <1>2
<1>4. /\ SameMail(s, o) /\ o.out = Append(s.out, n) /\ o.node = s.node /\ o.ended = s.ended
  BY <1>1, OutIs
<1>5. SameMail(p, t)
  OBVIOUS
<1> HIDE DEF o
<1>6. Last(o) = n /\ Open(o)
  BY <1>1, <1>4, OutOne
<1>7. Tidy(o) /\ o.ok /\ ~Full(o)
  BY <1>3, <1>4, SameTidy DEF SameMail
<1>8. Idle(o)
  <2>1. Idle(s)
    BY DEF Solo, Somewhere
  <2> QED BY <1>4, <2>1 DEF Idle, NoBox, NoTx, SameMail
<1>9. Solo(p)
  BY <1>6, <1>7, <1>8, PushSolo
<1>10. SameDesk(o, p)
  BY <1>7, PushTidy
<1> HIDE DEF p
<1>11. t.box = p.box /\ t.tx = p.tx /\ t.node = p.node /\ t.out = p.out /\ t.ended = p.ended
  BY <1>4, <1>5, <1>10 DEF SameMail, SameDesk
<1> QED BY <1>9, <1>11, StaySolo

LEMMA PushOrQueueOne ==
  ASSUME NEW s, Tidy(s), s.ok, One(s), time \in Nat,
         NEW n \in Nat, n # Other, n \notin Members(s.out)
  PROVE  One(pushorqueue(s, n))
<1> DEFINE t == pushorqueue(s, n)
<1>1. /\ Tidy(t) /\ t.ok /\ Armed(t) /\ t.node = s.node /\ t.ended = s.ended
      /\ \/ SameMail(s, t) /\ t.out = s.out
         \/ /\ ~Armed(s) /\ ~Full(s) /\ t.out = Append(s.out, n)
            /\ SameMail(push(Out(s, n), n), t)
  BY PushOrQueueIs
<1> HIDE DEF t
<1>2. CASE SameMail(s, t) /\ t.out = s.out
  <2>1. t.box = s.box /\ t.tx = s.tx /\ t.node = s.node /\ t.ended = s.ended
    BY <1>1, <1>2 DEF SameMail
  <2> QED BY <1>1, <1>2, <2>1, StaySolo DEF One, t
<1>3. CASE /\ ~Armed(s) /\ ~Full(s) /\ t.out = Append(s.out, n)
           /\ SameMail(push(Out(s, n), n), t)
  <2>1. ~Open(s) /\ Solo(s) /\ Earlier(s)
    BY <1>3 DEF One
  <2>2. Earlier(t) /\ Open(t) /\ Solo(t)
    BY <1>1, <1>3, <2>1, SentSolo
  <2> QED BY <1>1, <2>2 DEF One, t
<1> QED BY <1>1, <1>2, <1>3

LEMMA ProcessOne ==
  ASSUME NEW s, Tidy(s), s.ok, One(s), time \in Nat,
         s.q # << >> => /\ Head(s.q) \in Nat /\ Head(s.q) # Other
                        /\ Head(s.q) \notin Members(s.out)
  PROVE  One(process(s))
<1> DEFINE t == process(s)
           n == Head(s.q)
           v == [s EXCEPT !.q = Tail(@)]
<1>1. /\ Tidy(t) /\ t.node = s.node /\ t.ended = s.ended
      /\ \/ t = s
         \/ /\ s.q # << >> /\ ~Armed(s) /\ Armed(t) /\ (t.ok => ~Full(s))
            /\ t.out = Append(s.out, n) /\ SameMail(push(Out(v, n), n), t)
  BY ProcessIs
<1> HIDE DEF t
<1>2. CASE t = s
  BY <1>2 DEF t
<1>3. CASE /\ s.q # << >> /\ ~Armed(s) /\ Armed(t) /\ (t.ok => ~Full(s))
           /\ t.out = Append(s.out, n) /\ SameMail(push(Out(v, n), n), t)
  <2>1. ~Open(s) /\ Solo(s) /\ Earlier(s)
    BY <1>3 DEF One
  <2>2. n \in Nat /\ n # Other /\ n \notin Members(s.out)
    BY <1>3
  <2>3. s \in DEV /\ Tail(s.q) \in Seq(Nat)
    BY <1>3, MembersTail DEF Tidy, DEV
  <2>4. SameMail(s, v) /\ v.node = s.node /\ v.out = s.out /\ v.ended = s.ended
    <3> DEFINE x == Tail(s.q)
    <3>1. x \in Seq(Nat) /\ v = [s EXCEPT !.q = x]
      BY <2>3
    <3> HIDE DEF x, v
    <3> QED BY <2>3, <3>1, RequeuedIs
  <2> HIDE DEF v, n
  <2>5. Tidy(v) /\ v.ok /\ (Full(v) <=> Full(s))
    BY <2>4, SameTidy DEF SameMail
  <2>6. Solo(v) /\ Earlier(v) /\ ~Open(v)
    <3>1. v.box = s.box /\ v.tx = s.tx
      BY <2>4 DEF SameMail
    <3> QED BY <2>1, <2>4, <3>1, StaySolo
  <2>7. Earlier(t) /\ Open(t) /\ (~Full(v) => Solo(t))
    BY <1>1, <1>3, <2>2, <2>4, <2>5, <2>6, SentSolo
  <2> QED BY <1>3, <2>5, <2>7 DEF One, t
<1> QED BY <1>1, <1>2, <1>3

\* Only the last request can be answered or lost, and then all have ended.
LEMMA RepliedOne ==
  ASSUME NEW s \in DEV, s.node # << >>, Solo(s), Earlier(s), NEW w \in Int
  PROVE  LET t == Replied(s, w) IN Idle(t) /\ ~Open(t) /\ Earlier(t) /\ One(t)
<1> DEFINE t == Replied(s, w)
           n == Last(s)
<1>1. AtNode(s) /\ Open(s)
  BY DEF Solo, Somewhere, Idle, InBox, InTx
<1>2. s.node = <<n>> /\ Head(s.node) = n /\ Tail(s.node) = << >>
  BY <1>1 DEF AtNode
<1>3. /\ SameMail(s, t) /\ t.node = << >> /\ t.out = s.out /\ t.ended = s.ended \cup {n}
  BY <1>2, RepliedIs
<1> HIDE DEF t, n
<1>4. Idle(t)
  BY <1>1, <1>3 DEF Idle, AtNode, NoBox, NoTx, SameMail
<1>5. ~Open(t)
  BY <1>3 DEF Open, Last, n
<1>6. Earlier(t)
  <2>1. n \in Members(s.out)
    <3>1. s.out \in Seq(Nat) /\ s.out # << >>
      BY <1>1 DEF DEV, Open
    <3>2. Len(s.out) \in DOMAIN s.out
      BY <3>1
    <3> QED BY <3>2 DEF n, Last, Members
  <2> QED BY <1>3, <2>1 DEF Earlier
<1> QED BY <1>4, <1>5, <1>6 DEF t, One, Solo

-----------------------------------------------------------------------------
(* One at a time at each statement of pushorqueue.  The request that it    *)
(* hands over arms the deadline one or two statements later.               *)

OneInv ==
  /\ dev.made <= MaxReq
  /\ Earlier(dev) /\ (dev.ok => Solo(dev))
  /\ dev.ok /\ Open(dev) => time < dev.when \/ pc = "arm" \/ (pc = "mark" /\ msg # Other)
  /\ pc \in {"trypush", "enqueue", "add"} /\ msg # Other => ~Open(dev)

SoloInv == ~env.preempt /\ ~env.late => OneInv

LEMMA SoloInit == Init => SoloInv
<1> SUFFICES ASSUME Init
             PROVE  OneInv
  BY DEF SoloInv
<1> DEFINE x == [b \in Boxes |-> None]
<1>1. /\ dev = [box |-> x, active |-> {}, tx |-> << >>, ok |-> TRUE, q |-> << >>,
                when |-> 0, node |-> << >>, made |-> 0, others |-> 0, out |-> << >>,
                at |-> << >>, refused |-> {}, ended |-> {}]
      /\ pc = "out"
  BY DEF Init, Mailboxes
<1>2. \A b \in Boxes : x[b] = None
  OBVIOUS
<1> HIDE DEF x
<1>3. /\ dev.box = x /\ dev.tx = << >> /\ dev.node = << >> /\ dev.out = << >>
      /\ dev.ended = {} /\ dev.made = 0
  BY <1>1
<1>4. Idle(dev)
  BY <1>2, <1>3 DEF Idle, NoBox, NoTx
<1>5. ~Open(dev) /\ Earlier(dev)
  BY <1>3 DEF Open, Earlier
<1> QED BY <1>1, <1>3, <1>4, <1>5, CANOpenAssumption DEF OneInv, Solo

\* Between calls of pushorqueue it is what One says.
LEMMA OneOut ==
  ASSUME pc' = "out", time' = time, One(dev'), dev'.made <= MaxReq
  PROVE  OneInv'
<1> DEFINE t == dev'
<1>1. Earlier(t) /\ (t.ok => Solo(t)) /\ (t.ok /\ Open(t) => time < t.when)
  BY DEF One, Armed
<1>2. (Earlier(dev)' <=> Earlier(t)) /\ (Solo(dev)' <=> Solo(t)) /\ (Open(dev)' <=> Open(t))
  BY DEF Earlier, Members, Solo, Somewhere, Idle, InBox, InTx, AtNode, NoBox, NoTx, Open, Last
<1> QED BY <1>1, <1>2 DEF OneInv

LEMMA OneIsOut == ASSUME OneInv, pc = "out", time \in Nat PROVE One(dev)
<1>1. dev.ok /\ Open(dev) => Armed(dev)
  <2>1. time < 0 => FALSE
    OBVIOUS
  <2> QED BY <2>1 DEF OneInv, Armed
<1> QED BY <1>1 DEF OneInv, One

LEMMA CallbackMade ==
  ASSUME NEW s, Tidy(s), s.ok, s.made <= MaxReq, NEW t \in Callback(s), time \in Nat
  PROVE  t.made <= MaxReq /\ process(t).made <= MaxReq
<1> DEFINE u == [s EXCEPT !.made = @ + 1]
           n == s.made + 1
<1>1. t = s \/ (s.made < MaxReq /\ t = pushorqueue(u, n))
  BY DEF Callback
<1>2. /\ SameMail(s, u) /\ u.made = n /\ n \in Nat /\ s.made \in Nat
  <2>1. s \in DEV
    BY DEF Tidy
  <2> QED BY <2>1, MadeIs
<1>3. s.made < MaxReq => n <= MaxReq
  BY <1>2, CANOpenAssumption
<1> HIDE DEF u, n
<1>4. Tidy(u) /\ u.ok
  BY <1>2, SameTidy DEF SameMail
<1>5. t.made <= MaxReq
  <2>1. pushorqueue(u, n).made = u.made
    BY <1>2, <1>4, PushOrQueueIs
  <2> QED BY <1>1, <1>2, <1>3, <2>1
<1>6. process(t).made = t.made
  BY CallbackTidy, ProcessIs
<1> QED BY <1>5, <1>6

\* A callback, and what waits.
LEMMA CallbackOne ==
  ASSUME NEW s, Tidy(s), s.ok, One(s), Account(s, {}), NEW t \in Callback(s), time \in Nat
  PROVE  One(process(t))
<1> DEFINE u == [s EXCEPT !.made = @ + 1]
           n == s.made + 1
<1>1. t = s \/ t = pushorqueue(u, n)
  BY DEF Callback
<1>2. /\ SameMail(s, u) /\ u.out = s.out /\ u.ended = s.ended /\ u.node = s.node
      /\ u.when = s.when /\ s.made \in Nat /\ n \in Nat
  <2>1. s \in DEV
    BY DEF Tidy
  <2> QED BY <2>1, MadeIs
<1>3. n # Other /\ n \notin 1 .. s.made
  BY <1>2 DEF Other
<1> HIDE DEF u, n
<1>4. Tidy(u) /\ u.ok
  BY <1>2, SameTidy DEF SameMail
<1>5. One(u)
  <2>1. u.box = s.box /\ u.tx = s.tx
    BY <1>2 DEF SameMail
  <2>2. (Solo(s) <=> Solo(u)) /\ (Open(s) <=> Open(u)) /\ (Earlier(s) <=> Earlier(u))
    BY <1>2, <2>1, StaySolo
  <2>3. (u.ok <=> s.ok) /\ (Armed(u) <=> Armed(s))
    BY <1>2 DEF Armed, SameMail
  <2> QED BY <2>2, <2>3 DEF One
<1>6. n \notin Members(u.out)
  BY <1>2, <1>3 DEF Account
<1>7. One(t)
  BY <1>1, <1>2, <1>3, <1>4, <1>5, <1>6, PushOrQueueOne
<1>8. Tidy(t) /\ t.ok
  BY CallbackTidy
<1>9. Account(t, {})
  BY CallbackAccount
<1>10. t.q # << >> => /\ Head(t.q) \in Nat /\ Head(t.q) # Other
                      /\ Head(t.q) \notin Members(t.out)
  <2>1. t.q # << >> => Head(t.q) \in 1 .. t.made /\ Head(t.q) \notin Members(t.out)
    BY <1>9, HeadNotOut
  <2>2. t.made \in Nat
    BY <1>9 DEF Account
  <2> QED BY <2>1, <2>2 DEF Other
<1> QED BY <1>7, <1>8, <1>10, ProcessOne

LEMMA OneInterrupt ==
  ASSUME CalmInv, AccountInv, ~env.preempt, OneInv,
         Answered \/ PDO \/ \E b \in Boxes : Transmitted(b)
  PROVE  OneInv'
<1>1. pc = "out" /\ pc' = "out" /\ dev.ok /\ time' = time
  BY DEF Answered, PDO, Transmitted, Interruptible
<1>2. Tidy(dev) /\ dev \in DEV /\ time \in Nat
  BY <1>1 DEF CalmInv, TidyInv, Settled
<1>3. One(dev) /\ dev.made <= MaxReq
  BY <1>1, <1>2, OneIsOut DEF OneInv
<1>4. Account(dev, {})
  <2>1. Hand = {}
    BY <1>1 DEF Hand
  <2> QED BY <2>1 DEF AccountInv
<1>5. CASE Answered
  <2> DEFINE s == Replied(dev, 0)
  <2>1. dev.node # << >> /\ dev' \in {process(t) : t \in Callback(s)}
    BY <1>5 DEF Answered, Replied
  <2>2. SameMail(dev, s) /\ s.made = dev.made /\ s.q = dev.q /\ s.out = dev.out /\ s.refused = dev.refused
    BY <1>2, <2>1, RepliedIs
  <2>3. One(s)
    BY <1>1, <1>2, <1>3, <2>1, RepliedOne DEF One
  <2>4. Still(dev, s)
    BY DEF Still, Device, Replied
  <2> HIDE DEF s
  <2>5. Tidy(s) /\ s.ok
    BY <1>1, <1>2, <2>2, SameTidy DEF SameMail
  <2>6. Account(s, {})
    BY <1>4, <2>4, StillAccount
  <2>7. PICK t \in Callback(s) : dev' = process(t)
    BY <2>1
  <2>8. One(dev') /\ dev'.made <= MaxReq
    BY <1>2, <1>3, <2>2, <2>3, <2>5, <2>6, <2>7, CallbackOne, CallbackMade
  <2> QED BY <1>1, <2>8, OneOut
<1>6. CASE PDO
  <2>1. PICK t \in Callback(dev) : dev' = process(t)
    BY <1>6 DEF PDO
  <2>2. One(dev') /\ dev'.made <= MaxReq
    BY <1>1, <1>2, <1>3, <1>4, <2>1, CallbackOne, CallbackMade
  <2> QED BY <1>1, <2>2, OneOut
<1>7. ASSUME NEW b \in Boxes, Transmitted(b)
      PROVE  OneInv'
  <2> DEFINE u == Emptied(dev, b)
             t == _tx_complete(u, b)
  <2>1. dev' = t /\ dev.box[b] # None
    BY <1>7 DEF Transmitted, Emptied
  <2>2. Tidy(t) /\ SameDesk(u, t) /\ t.ok
    BY <1>1, <1>2, <2>1, CompleteIs
  <2>3. u.when = dev.when /\ u.out = dev.out /\ u.ended = dev.ended /\ u.made = dev.made
    BY <1>2, <2>1, EmptiedIs
  <2>4. Solo(t)
    BY <1>1, <1>2, <1>3, <2>1, CompleteSolo DEF One
  <2> HIDE DEF t, u
  <2>5. t.out = dev.out /\ t.ended = dev.ended /\ t.when = dev.when /\ t.made = dev.made
    BY <2>2, <2>3 DEF SameDesk
  <2>6. One(t)
    BY <1>1, <1>3, <2>4, <2>5 DEF One, Earlier, Open, Last, Armed
  <2> QED BY <1>1, <1>3, <2>1, <2>5, <2>6, OneOut
<1> QED BY <1>5, <1>6, <1>7

LEMMA PrimeOne == /\ Earlier(dev)' <=> Earlier(dev')
                  /\ Solo(dev)' <=> Solo(dev')
                  /\ Open(dev)' <=> Open(dev')
BY DEF Earlier, Members, Solo, Somewhere, Idle, InBox, InTx, AtNode, NoBox, NoTx, Open, Last

LEMMA OneElse ==
  ASSUME CalmInv, AccountInv, ~env.preempt, ~env.late, OneInv, Lost \/ Tick \/ UNCHANGED vars
  PROVE  OneInv'
<1>1. dev \in DEV /\ time \in Nat
  BY DEF CalmInv, TidyInv
<1>2. CASE Lost
  <2> DEFINE t == Replied(dev, dev.when)
  <2>1. dev' = t /\ dev.node # << >> /\ dev.when \in Int
    BY <1>1, <1>2 DEF Lost, Replied, DEV
  <2>2. Solo(dev) /\ Earlier(dev) /\ dev.ok
    BY <1>2 DEF OneInv, Lost
  <2>3. t.made = dev.made
    BY <1>1, <2>1, RepliedIs
  <2>4. Idle(t) /\ ~Open(t) /\ Earlier(t)
    BY <1>1, <2>1, <2>2, RepliedOne
  <2> HIDE DEF t
  <2> QED BY <2>1, <2>3, <2>4, PrimeOne DEF OneInv, Solo
<1>3. CASE Tick
  <2>1. /\ dev' = dev /\ pc' = pc /\ msg' = msg /\ time' = time + 1
        /\ Pending = {} \/ time + 1 < dev.when
    BY <1>3 DEF Tick
  <2>2. ASSUME Open(dev)
        PROVE  Pending # {}
    <3> DEFINE k == Len(dev.out)
    <3>1. dev.out # << >> /\ dev.out[k] \notin dev.ended
      BY <2>2 DEF Open, Last
    <3>2. k \in DOMAIN dev.out
      BY <1>1, <3>1 DEF DEV
    <3>3. dev.out[k] \in 1 .. dev.made
      BY <3>2 DEF AccountInv, Account, Members
    <3>4. dev.out[k] \in Requests
      <4>1. dev.made \in Nat /\ dev.made <= MaxReq /\ MaxReq \in Nat
        BY <1>1, CANOpenAssumption DEF DEV, OneInv
      <4> HIDE DEF k
      <4> QED BY <3>3, <4>1 DEF Requests
    <3> QED BY <3>1, <3>2, <3>4 DEF Pending
  <2>3. Open(dev) => time' < dev'.when
    BY <2>1, <2>2
  <2>4. /\ Earlier(dev) /\ (dev.ok => Solo(dev)) /\ dev.made <= MaxReq
        /\ pc \in {"trypush", "enqueue", "add"} /\ msg # Other => ~Open(dev)
    BY DEF OneInv
  <2>5. /\ Earlier(dev)' <=> Earlier(dev)
        /\ Solo(dev)' <=> Solo(dev)
        /\ Open(dev)' <=> Open(dev)
    BY <2>1, PrimeOne
  <2> QED BY <2>1, <2>3, <2>4, <2>5 DEF OneInv
<1>4. CASE UNCHANGED vars
  BY <1>4, PrimeOne DEF vars, OneInv
<1> QED BY <1>2, <1>3, <1>4

LEMMA OneMain ==
  ASSUME CalmInv, AccountInv, ~env.preempt, ~env.late, OneInv, Request \/ SendOther \/ Main
  PROVE  OneInv'
<1> DEFINE mine == pc' \in {"trypush", "enqueue", "add"} /\ msg' # Other
<1>1. TidyInv /\ dev \in DEV /\ time \in Nat
  BY DEF CalmInv, TidyInv
<1>2. dev.ok /\ time' = time
  BY DEF Request, SendOther, Main, Decide, QueueIt, TryPush, EnqueueIt, AddIt, MarkIt, ArmIt,
         Here, Go, After
<1>3. Earlier(dev) /\ Solo(dev) /\ dev.made <= MaxReq
  BY <1>2 DEF OneInv
\* Nothing moves.
<1>4. ASSUME SameMail(dev, dev'), dev'.node = dev.node, dev'.out = dev.out, dev'.ended = dev.ended,
             dev'.made <= MaxReq,
             Open(dev) => time < dev'.when \/ pc' = "arm" \/ (pc' = "mark" /\ msg' # Other),
             mine => ~Open(dev)
      PROVE  OneInv'
  <2>1. dev'.box = dev.box /\ dev'.tx = dev.tx
    BY <1>4 DEF SameMail
  <2>2. (Solo(dev) <=> Solo(dev')) /\ (Open(dev) <=> Open(dev')) /\ (Earlier(dev) <=> Earlier(dev'))
    BY <1>4, <2>1, StaySolo
  <2>3. (Solo(dev)' <=> Solo(dev)) /\ (Open(dev)' <=> Open(dev)) /\ (Earlier(dev)' <=> Earlier(dev))
    BY <2>2, PrimeOne
  <2> QED BY <1>2, <1>3, <1>4, <2>3 DEF OneInv
\* A request goes out, its deadline will follow.
<1>5. ASSUME Solo(dev'), Earlier(dev'), dev'.made <= MaxReq,
             pc' = "arm" \/ (pc' = "mark" /\ msg' # Other)
      PROVE  OneInv'
  BY <1>5, PrimeOne DEF OneInv
<1>6. CASE Request
  <2>1. dev' = [dev EXCEPT !.made = @ + 1] /\ pc' = "decide" /\ pc = "out" /\ dev.made < MaxReq
    BY <1>6 DEF Request, Go, Here
  <2>2. /\ SameMail(dev, dev') /\ dev'.node = dev.node /\ dev'.out = dev.out
        /\ dev'.ended = dev.ended /\ dev'.when = dev.when
        /\ dev'.made = dev.made + 1 /\ dev.made \in Nat
    BY <1>1, <2>1, MadeIs
  <2>3. dev'.made <= MaxReq
    BY <2>1, <2>2, CANOpenAssumption
  <2> QED BY <1>2, <1>4, <2>1, <2>2, <2>3 DEF OneInv
<1>7. CASE SendOther
  <2>1. /\ dev' = [dev EXCEPT !.others = @ + 1] /\ msg' = Other
        /\ pc' = "trypush" /\ pc = "out"
    BY <1>7 DEF SendOther, Go, Here
  <2>2. /\ SameMail(dev, dev') /\ dev'.node = dev.node /\ dev'.out = dev.out
        /\ dev'.ended = dev.ended /\ dev'.when = dev.when /\ dev'.made = dev.made
    BY <1>1, <2>1, OthersIs
  <2> QED BY <1>2, <1>3, <1>4, <2>1, <2>2 DEF OneInv
<1>8. CASE Decide
  <2> DEFINE w == [dev EXCEPT !.when = 0]
  <2>1. /\ dev' = IF Armed(dev) THEN dev ELSE w
        /\ pc = "decide" /\ pc' = IF Armed(dev) THEN "queue" ELSE "trypush"
    BY <1>8 DEF Decide, Go, Here
  <2>2. Open(dev) => Armed(dev)
    <3>1. Open(dev) => time < dev.when
      BY <1>2, <2>1 DEF OneInv
    <3> QED BY <1>1, <3>1 DEF Armed, DEV
  <2>3. CASE Armed(dev)
    <3>1. dev' = dev /\ SameMail(dev, dev) /\ pc' = "queue"
      BY <1>1, <2>1, <2>3 DEF SameMail
    <3> QED BY <1>3, <1>4, <2>3, <3>1 DEF Armed
  <2>4. CASE ~Armed(dev)
    <3>1. dev' = w
      BY <2>1, <2>4
    <3>2. /\ SameMail(dev, w) /\ w.node = dev.node /\ w.out = dev.out
          /\ w.ended = dev.ended /\ w.made = dev.made
      BY <1>1, WhenIs
    <3> HIDE DEF w
    <3> QED BY <1>3, <1>4, <2>2, <2>4, <3>1, <3>2
  <2> QED BY <2>3, <2>4
<1>9. CASE QueueIt
  <2>1. dev' = Queued(dev, msg) /\ pc = "queue" /\ pc' = "out"
    BY <1>9 DEF QueueIt, Go, Here
  <2>2. msg \in Nat
    BY <1>1, <2>1 DEF TidyInv
  <2>3. /\ SameMail(dev, dev') /\ dev'.node = dev.node /\ dev'.out = dev.out
        /\ dev'.ended = dev.ended /\ dev'.when = dev.when /\ dev'.made = dev.made
    BY <1>1, <2>1, <2>2, QueuedIs
  <2> QED BY <1>2, <1>3, <1>4, <2>1, <2>3 DEF OneInv
<1>10. ASSUME pc \in {"trypush", "enqueue", "add"}
       PROVE  /\ msg \in Nat
              /\ msg # Other => ~Open(dev)
              /\ msg # Other => msg \notin Members(dev.out)
              /\ msg = Other => (Open(dev) => time < dev.when)
  <2>1. msg \in Nat
    BY <1>1, <1>10 DEF TidyInv
  <2>2. ASSUME msg # Other
        PROVE  msg \notin Members(dev.out)
    <3>1. msg \in Hand
      BY <1>10, <2>2 DEF Hand
    <3> QED BY <3>1, HandNotOut DEF AccountInv
  <2> QED BY <1>2, <1>10, <2>1, <2>2 DEF OneInv
\* What is given to the controller.
<1>11. ASSUME pc \in {"trypush", "enqueue", "add"}
       PROVE  LET s == Given(dev, msg)
              IN  /\ s \in DEV /\ SameMail(dev, s) /\ Earlier(s)
                  /\ s.made = dev.made /\ s.when = dev.when
                  /\ msg = Other => s = dev
                  /\ msg # Other => Idle(s) /\ Open(s) /\ Last(s) = msg
  <2> DEFINE s == Given(dev, msg)
  <2>1. /\ SameMail(dev, s) /\ s.made = dev.made /\ s.when = dev.when /\ s.ended = dev.ended
        /\ s.node = dev.node /\ (msg # Other => s.out = Append(dev.out, msg))
    BY <1>1, <1>10, <1>11, GivenIs
  <2>2. s \in DEV
    BY <2>1 DEF SameMail
  <2>3. msg = Other => s = dev
    BY DEF Given
  <2> HIDE DEF s
  <2>4. CASE msg = Other
    BY <1>3, <2>1, <2>2, <2>3, <2>4 DEF s
  <2>5. CASE msg # Other
    <3>1. Last(s) = msg /\ Open(s) /\ Earlier(s)
      BY <1>1, <1>3, <1>10, <1>11, <2>1, <2>5, OutOne
    <3>2. Idle(dev)
      BY <1>3, <1>10, <1>11, <2>5 DEF Solo, Somewhere
    <3>3. Idle(s)
      BY <2>1, <3>2 DEF Idle, NoBox, NoTx, SameMail
    <3> QED BY <2>1, <2>2, <2>5, <3>1, <3>3 DEF s
  <2> QED BY <2>4, <2>5
<1>12. CASE TryPush
  <2>1. pc = "trypush"
    BY <1>12 DEF TryPush, Here
  <2>2. CASE dev' = Discarded(dev, msg) /\ After
    <3>1. /\ SameMail(dev, dev') /\ dev'.node = dev.node /\ dev'.out = dev.out
          /\ dev'.ended = dev.ended /\ dev'.when = dev.when /\ dev'.made = dev.made
      BY <1>1, <1>10, <2>1, <2>2, GivenIs
    <3>2. pc' = IF msg = Other THEN "out" ELSE "arm"
      BY <2>2 DEF After, Go
    <3> QED BY <1>3, <1>4, <1>10, <2>1, <3>1, <3>2
  <2>3. CASE dev' = dev /\ msg' = msg /\ pc' = IF FreeBoxes(dev) = {} THEN "enqueue" ELSE "add"
    <3>1. SameMail(dev, dev)
      BY <1>1 DEF SameMail
    <3> QED BY <1>3, <1>4, <1>10, <2>1, <2>3, <3>1
  <2> QED BY <1>12, <2>2, <2>3 DEF TryPush, Go
<1>13. CASE EnqueueIt
  <2> DEFINE s == Given(dev, msg)
             t == Enqueue(s, msg)
  <2>1. pc = "enqueue" /\ dev' = t /\ pc' = (IF msg = Other THEN "out" ELSE "arm") /\ msg' = None
    BY <1>13 DEF EnqueueIt, Here, After, Go
  <2>2. ~Full(dev)
    BY <1>1, <2>1 DEF TidyInv
  <2>3. /\ s \in DEV /\ SameMail(dev, s) /\ Earlier(s)
        /\ s.made = dev.made /\ s.when = dev.when
        /\ msg = Other => s = dev
        /\ msg # Other => Idle(s) /\ Open(s) /\ Last(s) = msg
    BY <1>11, <2>1
  <2>4. msg \in Nat /\ (msg = Other => (Open(dev) => time < dev.when))
    BY <1>10, <2>1
  <2> HIDE DEF s
  <2>5. ~Full(s)
    BY <2>2, <2>3 DEF SameMail, Full
  <2>6. Solo(t)
    BY <1>3, <2>3, <2>4, <2>5, EnqueueSolo
  <2>7. SameDesk(s, t)
    BY <2>3, <2>4, EnqueueIs
  <2> HIDE DEF t
  <2>8. Earlier(t) /\ (Open(t) <=> Open(s)) /\ t.when = dev.when /\ t.made = dev.made
    BY <2>3, <2>7 DEF SameDesk, Earlier, Open, Last
  <2>9. CASE msg = Other
    BY <1>2, <1>3, <2>1, <2>3, <2>4, <2>6, <2>8, <2>9, PrimeOne DEF OneInv
  <2>10. CASE msg # Other
    BY <1>3, <1>5, <2>1, <2>6, <2>8, <2>10
  <2> QED BY <2>9, <2>10
<1>14. CASE AddIt
  <2> DEFINE s == Given(dev, msg)
             b == LowestFree(dev)
             t == Add(s, b, msg)
  <2>1. pc = "add" /\ FreeBoxes(dev) # {}
    BY <1>1, <1>14 DEF AddIt, Here, TidyInv
  <2>2. dev' = t /\ pc' = "mark" /\ msg' = msg
    BY <1>14, <2>1 DEF AddIt, Go
  <2>3. /\ s \in DEV /\ SameMail(dev, s) /\ Earlier(s)
        /\ s.made = dev.made /\ s.when = dev.when
        /\ msg = Other => s = dev
        /\ msg # Other => Idle(s) /\ Open(s) /\ Last(s) = msg
    BY <1>11, <2>1
  <2>4. msg \in Nat /\ (msg = Other => (Open(dev) => time < dev.when))
    BY <1>10, <2>1
  <2>5. b \in FreeBoxes(s) /\ b \in Boxes
    BY <2>1, <2>3, LowestIsFree DEF FreeBoxes, SameMail
  <2> HIDE DEF s, b
  <2>6. Solo(t)
    BY <1>3, <2>3, <2>4, <2>5, AddSolo
  <2>7. SameDesk(s, t)
    BY <2>3, <2>4, <2>5, AddIs
  <2> HIDE DEF t
  <2>8. Earlier(t) /\ (Open(t) <=> Open(s)) /\ t.when = dev.when /\ t.made = dev.made
    BY <2>3, <2>7 DEF SameDesk, Earlier, Open, Last
  <2>9. CASE msg = Other
    BY <1>2, <1>3, <2>2, <2>3, <2>4, <2>6, <2>8, <2>9, PrimeOne DEF OneInv
  <2>10. CASE msg # Other
    BY <1>3, <1>5, <2>2, <2>6, <2>8, <2>10
  <2> QED BY <2>9, <2>10
<1>15. CASE MarkIt
  <2> DEFINE t == Mark(dev, mbox)
  <2>1. pc = "mark" /\ dev' = t /\ pc' = (IF msg = Other THEN "out" ELSE "arm") /\ msg' = None
    BY <1>15 DEF MarkIt, Here, After, Go
  <2>2. mbox \in Boxes
    BY <1>1, <2>1 DEF TidyInv
  <2>3. SameDesk(dev, t) /\ t.box = dev.box /\ t.tx = dev.tx
    BY <1>1, <2>2, MarkIs
  <2> HIDE DEF t
  <2>4. /\ t.when = dev.when /\ t.made = dev.made /\ t.out = dev.out /\ t.node = dev.node
        /\ t.ended = dev.ended
    BY <2>3 DEF SameDesk
  <2>5. (Solo(dev) <=> Solo(t)) /\ (Open(dev) <=> Open(t)) /\ (Earlier(dev) <=> Earlier(t))
    BY <2>3, <2>4, StaySolo
  <2>6. msg = Other => (Open(dev) => time < dev.when)
    BY <1>2, <2>1 DEF OneInv
  <2> QED BY <1>2, <1>3, <2>1, <2>4, <2>5, <2>6, PrimeOne DEF OneInv
<1>16. CASE ArmIt
  <2>1. pc = "arm" /\ dev' = Arm(dev) /\ pc' = "out"
    BY <1>16 DEF ArmIt, Here, Go
  <2>2. /\ SameMail(dev, dev') /\ dev'.when = time + 2 /\ dev'.node = dev.node
        /\ dev'.out = dev.out /\ dev'.ended = dev.ended /\ dev'.made = dev.made
    BY <1>1, <2>1, ArmIs
  <2>3. time < dev'.when
    BY <1>1, <2>2
  <2> QED BY <1>3, <1>4, <2>1, <2>2, <2>3
<1> QED BY <1>6, <1>7, <1>8, <1>9, <1>12, <1>13, <1>14, <1>15, <1>16 DEF Main

LEMMA SoloNext == SoloInv /\ CalmInv /\ AccountInv /\ [Next]_vars => SoloInv'
<1> SUFFICES ASSUME SoloInv, CalmInv, AccountInv, [Next]_vars, ~env'.preempt, ~env'.late
             PROVE  OneInv'
  BY DEF SoloInv
<1>1. env' = env
  BY DEF Next, vars, Answered, Lost, PDO, Tick, Transmitted, Request, SendOther, Main,
         Decide, QueueIt, TryPush, EnqueueIt, AddIt, MarkIt, ArmIt, Go, After
<1>2. OneInv /\ ~env.preempt /\ ~env.late
  BY <1>1 DEF SoloInv
<1> QED BY <1>2, OneInterrupt, OneElse, OneMain DEF Next

LEMMA AccountInvariant == Spec => []AccountInv
BY AccountInit, AccountNext, PTL DEF Spec

LEMMA SoloInvariant == Spec => []SoloInv
BY AccountInvariant, CalmInvariant, SoloInit, SoloNext, PTL DEF Spec

\* A node has one request to answer at a time (canopen.h:321-334).
LEMMA CANOpenOneAtATime == Spec => []OneAtATime
<1>1. SoloInv /\ CalmInv => OneAtATime
  <2> SUFFICES ASSUME SoloInv, CalmInv, ~env.preempt, ~env.late
               PROVE  Cardinality({k \in DOMAIN dev.out :
                        dev.out[k] \notin dev.ended /\ time < dev.at[k] + 2}) <= 1
    BY DEF OneAtATime
  <2> DEFINE open == {k \in DOMAIN dev.out : dev.out[k] \notin dev.ended /\ time < dev.at[k] + 2}
             l == Len(dev.out)
  <2>1. Earlier(dev) /\ dev.out \in Seq(Nat)
    BY DEF SoloInv, OneInv, CalmInv, TidyInv, DEV
  <2>2. l \in Nat /\ DOMAIN dev.out = 1 .. l
    BY <2>1
  <2>3. \A k \in 1 .. l : k < l => dev.out[k] \in dev.ended
    BY <2>1, <2>2 DEF Earlier
  <2> HIDE DEF l
  <2>4. open \in SUBSET {l}
    <3>1. ASSUME NEW k \in open
          PROVE  k = l
      <4>1. k \in 1 .. l /\ dev.out[k] \notin dev.ended
        BY <2>2, <3>1
      <4>2. ~(k < l)
        BY <2>3, <4>1
      <4> QED BY <2>2, <4>1, <4>2
    <3> QED BY <3>1
  <2> HIDE DEF open
  <2>5. IsFiniteSet({l}) /\ Cardinality({l}) = 1
    BY FS_Singleton
  <2>6. Cardinality(open) <= 1
    BY <2>4, <2>5, FS_Subset
  <2> QED BY <2>6 DEF open
<1> QED BY <1>1, SoloInvariant, CalmInvariant, PTL

-----------------------------------------------------------------------------
(* In the order made: what went out and what waits is one line, its end    *)
(* the request that is being made, as long as none is discarded.           *)

Rising(s) == \A j, k \in DOMAIN s : j < k => s[j] < s[k]

Line(s) == s.out \o s.q

LineInv ==
  /\ Rising(Line(dev))
  /\ Hand # {} => msg = dev.made
  /\ dev.when # 0 \/ dev.q # << >> => Open(dev)
  /\ pc = "arm" \/ (pc = "mark" /\ msg # Other) => Open(dev)

OrderInv == Calm /\ dev.refused = {} => LineInv

\* The members of a line are those of its parts.
LEMMA LineIs ==
  ASSUME NEW s \in DEV
  PROVE  /\ Line(s) \in Seq(Nat)
         /\ Members(Line(s)) = Members(s.out) \cup Members(s.q)
<1> DEFINE a == s.out
           b == s.q
           c == a \o b
           m == Len(a)
           n == Len(b)
<1>1. a \in Seq(Nat) /\ b \in Seq(Nat)
  BY DEF DEV
<1> HIDE DEF a, b
<1>2. /\ c \in Seq(Nat) /\ m \in Nat /\ n \in Nat /\ DOMAIN a = 1 .. m /\ DOMAIN b = 1 .. n
      /\ DOMAIN c = 1 .. m + n
      /\ \A k \in 1 .. m + n : c[k] = IF k <= m THEN a[k] ELSE b[k - m]
  <2>1. c \in Seq(Nat) /\ Len(c) = m + n
    BY <1>1, ConcatProperties
  <2>2. \A k \in 1 .. m + n : c[k] = IF k <= m THEN a[k] ELSE b[k - m]
    BY <1>1, ConcatProperties
  <2>3. m \in Nat /\ n \in Nat /\ DOMAIN a = 1 .. m /\ DOMAIN b = 1 .. n
    BY <1>1
  <2>4. DOMAIN c = 1 .. m + n
    BY <2>1
  <2> QED BY <2>1, <2>2, <2>3, <2>4
<1> HIDE DEF c, m, n
<1>3. ASSUME NEW k \in 1 .. m + n
      PROVE  c[k] \in Members(a) \cup Members(b)
  <2>1. CASE k <= m
    <3>1. k \in 1 .. m
      BY <1>2, <2>1
    <3> QED BY <1>2, <2>1, <3>1 DEF Members
  <2>2. CASE ~(k <= m)
    <3>1. k - m \in 1 .. n
      BY <1>2, <2>2
    <3> QED BY <1>2, <2>2, <3>1 DEF Members
  <2> QED BY <2>1, <2>2
<1>4. ASSUME NEW k \in 1 .. m
      PROVE  a[k] \in Members(c)
  <2>1. k \in 1 .. m + n /\ k <= m
    BY <1>2
  <2> QED BY <1>2, <2>1 DEF Members
<1>5. ASSUME NEW k \in 1 .. n
      PROVE  b[k] \in Members(c)
  <2>1. k + m \in 1 .. m + n /\ ~(k + m <= m) /\ (k + m) - m = k
    BY <1>2
  <2> QED BY <1>2, <2>1 DEF Members
<1>6. Members(c) = Members(a) \cup Members(b)
  BY <1>2, <1>3, <1>4, <1>5 DEF Members
<1> QED BY <1>2, <1>6 DEF Line, a, b, c

\* What is greater than all of a line comes behind it.
LEMMA RisingAppend ==
  ASSUME NEW s \in Seq(Nat), Rising(s), NEW n \in Nat, \A x \in Members(s) : x < n
  PROVE  Rising(Append(s, n))
<1> DEFINE l == Len(s)
           t == Append(s, n)
<1>1. /\ l \in Nat /\ DOMAIN s = 1 .. l /\ DOMAIN t = 1 .. l + 1 /\ t[l + 1] = n
      /\ \A k \in 1 .. l : t[k] = s[k]
  OBVIOUS
<1> HIDE DEF l, t
<1>2. ASSUME NEW j \in 1 .. l + 1, NEW k \in 1 .. l + 1, j < k
      PROVE  t[j] < t[k]
  <2>1. j \in 1 .. l
    BY <1>1, <1>2
  <2>2. CASE k \in 1 .. l
    BY <1>1, <1>2, <2>1, <2>2 DEF Rising
  <2>3. CASE k \notin 1 .. l
    <3>1. k = l + 1
      BY <1>1, <2>3
    <3>2. s[j] \in Members(s)
      BY <1>1, <2>1 DEF Members
    <3> QED BY <1>1, <2>1, <3>1, <3>2
  <2> QED BY <2>2, <2>3
<1> QED BY <1>1, <1>2 DEF Rising, t

\* The line grows at its end only, whatever moves inside of it.
LEMMA LineMoves ==
  ASSUME NEW s \in DEV, NEW n \in Nat
  PROVE  /\ s.out \o Append(s.q, n) = Append(Line(s), n)
         /\ s.q = << >> => Append(s.out, n) \o s.q = Append(Line(s), n)
         /\ s.q # << >> => Append(s.out, Head(s.q)) \o Tail(s.q) = Line(s)
<1> DEFINE a == s.out
           b == s.q
<1>1. a \in Seq(Nat) /\ b \in Seq(Nat)
  BY DEF DEV
<1> HIDE DEF a, b
<1>2. a \o Append(b, n) = Append(a \o b, n)
  BY <1>1
<1>3. b = << >> => Append(a, n) \o b = Append(a \o b, n)
  BY <1>1
<1>4. ASSUME b # << >>
      PROVE  Append(a, Head(b)) \o Tail(b) = a \o b
  BY <1>1, <1>4, MovedHead
<1> QED BY <1>2, <1>3, <1>4 DEF Line, a, b

LEMMA OrderInit == Init => OrderInv
<1> SUFFICES ASSUME Init
             PROVE  LineInv
  BY DEF OrderInv
<1>1. dev.out = << >> /\ dev.q = << >> /\ dev.when = 0 /\ pc = "out"
  BY DEF Init
<1>2. Line(dev) = << >>
  BY <1>1 DEF Line
<1>3. Rising(Line(dev))
  BY <1>2 DEF Rising
<1>4. Hand = {}
  BY <1>1 DEF Hand
<1> QED BY <1>1, <1>3, <1>4 DEF LineInv

LEMMA PrimeLine == Rising(Line(dev))' <=> Rising(Line(dev'))
BY DEF Rising, Line

\* The line stays as it is.
LEMMA LineStay ==
  ASSUME LineInv, dev'.out = dev.out, dev'.q = dev.q, dev'.ended = dev.ended,
         Hand' # {} => msg' = dev'.made,
         dev'.when # 0 => Open(dev), pc' = "arm" \/ (pc' = "mark" /\ msg' # Other) => Open(dev)
  PROVE  LineInv'
<1>1. Rising(Line(dev)) /\ (dev.q # << >> => Open(dev))
  BY DEF LineInv
<1>2. Rising(Line(dev))'
  BY <1>1, PrimeLine DEF Line
<1>3. Open(dev)' <=> Open(dev)
  BY DEF Open, Last
<1> QED BY <1>1, <1>2, <1>3 DEF LineInv

\* A new line with a request under way.
LEMMA LineOpen ==
  ASSUME Rising(Line(dev')), Hand' = {}, Open(dev')
  PROVE  LineInv'
<1>1. Rising(Line(dev))' /\ Open(dev)'
  BY PrimeLine, PrimeOne
<1> QED BY <1>1 DEF LineInv

LEMMA LineInterrupt ==
  ASSUME CalmInv, AccountInv, OneInv, LineInv, Calm,
         Answered \/ PDO \/ \E b \in Boxes : Transmitted(b)
  PROVE  LineInv'
<1>1. pc = "out" /\ pc' = "out" /\ msg' = msg /\ dev.ok /\ time' = time
  BY DEF Answered, PDO, Transmitted, Interruptible, Calm
<1>2. Tidy(dev) /\ dev \in DEV /\ time \in Nat
  BY <1>1 DEF CalmInv, TidyInv, Settled, Calm
<1>3. One(dev) /\ Hand' = {} /\ Hand = {}
  BY <1>1, <1>2, OneIsOut DEF Hand
<1>4. \A s : Callback(s) = {s}
  BY DEF Callback, Calm
<1>5. CASE Answered
  <2> DEFINE s == Replied(dev, 0)
             t == process(s)
             n == Head(dev.q)
  <2>1. dev.node # << >> /\ dev' = t
    BY <1>4, <1>5 DEF Answered, Replied
  <2>2. /\ SameMail(dev, s) /\ s.when = 0 /\ s.q = dev.q /\ s.out = dev.out
    BY <1>2, <2>1, RepliedIs
  <2>3. ~Open(s) /\ Earlier(s)
    BY <1>1, <1>2, <1>3, <2>1, RepliedOne DEF One
  <2> HIDE DEF s
  <2>4. Tidy(s) /\ s.ok
    BY <1>1, <1>2, <2>2, SameTidy DEF SameMail
  <2>5. /\ t.ended = s.ended /\ (t.q # << >> => t.when # 0)
        /\ t = s \/ (s.q # << >> /\ t.q = Tail(s.q) /\ t.out = Append(s.out, Head(s.q)))
    BY <1>2, <2>4, ProcessIs
  <2> HIDE DEF t
  <2>6. Rising(Line(dev))
    BY DEF LineInv
  <2>7. CASE t = s
    <3>1. t.q = << >> /\ t.when = 0 /\ t.out = dev.out /\ t.q = dev.q
      BY <2>2, <2>5, <2>7
    <3>2. Rising(Line(t))
      BY <2>6, <3>1 DEF Line
    <3>3. Rising(Line(dev))'
      BY <2>1, <3>2, PrimeLine
    <3> QED BY <1>1, <1>3, <2>1, <3>1, <3>3 DEF LineInv
  <2>8. CASE s.q # << >> /\ t.q = Tail(s.q) /\ t.out = Append(s.out, Head(s.q))
    <3>1. n \notin Members(dev.out) /\ n \in Nat
      <4>1. Account(dev, Hand)
        BY DEF AccountInv
      <4>2. n \notin Members(dev.out)
        BY <2>2, <2>8, <4>1, HeadNotOut
      <4> QED BY <1>2, <2>2, <2>8, <4>2, MembersTail DEF DEV
    <3>2. t.out = Append(dev.out, n) /\ t.q = Tail(dev.q) /\ dev.q # << >>
      BY <2>2, <2>8
    <3>3. Line(t) = Line(dev)
      BY <1>2, <3>1, <3>2, LineMoves DEF Line
    <3> HIDE DEF n
    <3>4. Open(t)
      <4>1. s \in DEV
        BY <2>4 DEF Tidy
      <4> QED BY <2>2, <2>3, <2>5, <3>1, <3>2, <4>1, OutOne
    <3> QED BY <1>3, <2>1, <2>6, <3>3, <3>4, LineOpen
  <2> QED BY <2>5, <2>7, <2>8
<1>6. CASE PDO
  <2> DEFINE t == process(dev)
  <2>1. dev' = t
    BY <1>4, <1>6 DEF PDO
  <2>2. t = dev \/ (dev.q # << >> /\ ~Armed(dev))
    BY <1>1, <1>2, ProcessIs
  <2>3. dev' = dev
    BY <1>1, <1>3, <2>1, <2>2 DEF LineInv, One
  <2> QED BY <1>1, <1>3, <2>3, LineStay DEF LineInv
<1>7. ASSUME NEW b \in Boxes, Transmitted(b)
      PROVE  LineInv'
  <2> DEFINE u == Emptied(dev, b)
             t == _tx_complete(u, b)
  <2>1. dev' = t /\ dev.box[b] # None
    BY <1>7 DEF Transmitted, Emptied
  <2>2. SameDesk(u, t)
    BY <1>1, <1>2, <2>1, CompleteIs
  <2>3. u.when = dev.when /\ u.out = dev.out /\ u.ended = dev.ended /\ u.q = dev.q
    BY <1>2, <2>1, EmptiedIs
  <2> HIDE DEF t, u
  <2>4. t.out = dev.out /\ t.ended = dev.ended /\ t.when = dev.when /\ t.q = dev.q
    BY <2>2, <2>3 DEF SameDesk
  <2> QED BY <1>1, <1>3, <2>1, <2>4, LineStay DEF LineInv
<1> QED BY <1>5, <1>6, <1>7

\* What is in the hand comes after all that has been made before.
LEMMA HandIsLast ==
  ASSUME AccountInv, LineInv, dev \in DEV, Hand # {}
  PROVE  /\ msg \in Nat /\ msg \in Hand
         /\ \A x \in Members(Line(dev)) : x < msg
<1>1. Hand = {msg} /\ msg \in Hand
  BY DEF Hand
<1>2. Account(dev, Hand) /\ msg = dev.made
  BY DEF AccountInv, LineInv
<1>3. msg \notin Members(dev.out) /\ msg \notin Members(dev.q) /\ dev.made \in Nat
  BY <1>1, <1>2, HandNotOut DEF Account
<1>4. Members(dev.out) \cup Members(dev.q) \subseteq 1 .. dev.made
  BY <1>2 DEF Account
<1>5. ASSUME NEW x \in Members(Line(dev))
      PROVE  x < msg
  <2>1. x \in Members(dev.out) \cup Members(dev.q)
    BY <1>5, LineIs
  <2>2. x \in 1 .. dev.made /\ x # dev.made
    BY <1>2, <1>3, <1>4, <2>1
  <2> QED BY <1>2, <1>3, <2>2
<1> QED BY <1>1, <1>2, <1>3, <1>5

LEMMA LineMain ==
  ASSUME CalmInv, AccountInv, OneInv, LineInv, Calm, Request \/ SendOther \/ Main
  PROVE  LineInv' \/ dev'.refused # {}
<1>1. TidyInv /\ WaitInv /\ dev \in DEV /\ time \in Nat
  BY DEF CalmInv, TidyInv, Calm
<1>2. dev.ok
  BY DEF Request, SendOther, Main, Decide, QueueIt, TryPush, EnqueueIt, AddIt, MarkIt, ArmIt, Here
<1>3. Rising(Line(dev)) /\ Line(dev) \in Seq(Nat)
  BY <1>1, LineIs DEF LineInv
<1>4. Earlier(dev)
  BY DEF OneInv
\* Nothing moves.
<1>5. ASSUME dev'.out = dev.out, dev'.q = dev.q, dev'.ended = dev.ended,
             dev'.when = dev.when \/ dev'.when = 0,
             Hand' = {} \/ (Hand' # {} => msg' = dev'.made),
             pc' \notin {"arm", "mark"}
      PROVE  LineInv'
  BY <1>5, LineStay DEF LineInv
<1>6. CASE Request
  <2>1. /\ dev' = [dev EXCEPT !.made = @ + 1] /\ msg' = dev.made + 1 /\ pc' = "decide"
    BY <1>6 DEF Request, Go
  <2>2. /\ dev'.when = dev.when /\ dev'.q = dev.q /\ dev'.made = dev.made + 1
        /\ dev'.out = dev.out /\ dev'.ended = dev.ended
    BY <1>1, <2>1, MadeIs
  <2> QED BY <1>5, <2>1, <2>2
<1>7. CASE SendOther
  <2>1. dev' = [dev EXCEPT !.others = @ + 1] /\ msg' = Other /\ pc' = "trypush"
    BY <1>7 DEF SendOther, Go
  <2>2. /\ dev'.when = dev.when /\ dev'.q = dev.q /\ dev'.out = dev.out /\ dev'.ended = dev.ended
    BY <1>1, <2>1, OthersIs
  <2>3. Hand' = {}
    BY <2>1 DEF Hand
  <2> QED BY <1>5, <2>1, <2>2, <2>3
<1>8. CASE Decide
  <2> DEFINE w == [dev EXCEPT !.when = 0]
  <2>1. /\ dev' = IF Armed(dev) THEN dev ELSE w
        /\ pc = "decide" /\ pc' \in {"queue", "trypush"} /\ msg' = msg
    BY <1>8 DEF Decide, Here, Go
  <2>2. /\ w.when = 0 /\ w.q = dev.q /\ w.out = dev.out
        /\ w.ended = dev.ended /\ w.made = dev.made
    BY <1>1, WhenIs
  <2>3. Hand' = Hand
    BY <2>1 DEF Hand
  <2> HIDE DEF w
  <2>4. /\ dev'.q = dev.q /\ dev'.out = dev.out /\ dev'.ended = dev.ended /\ dev'.made = dev.made
        /\ dev'.when = dev.when \/ dev'.when = 0
    BY <2>1, <2>2
  <2>5. Hand' # {} => msg' = dev'.made
    BY <2>1, <2>3, <2>4 DEF LineInv
  <2> QED BY <1>5, <2>1, <2>4, <2>5
<1>9. CASE QueueIt
  <2>1. dev' = Queued(dev, msg) /\ pc = "queue" /\ pc' = "out"
    BY <1>9 DEF QueueIt, Here, Go
  <2>2. Hand # {} /\ Hand' = {} /\ dev.when # 0
    BY <1>1, <2>1 DEF Hand, TidyInv, WaitInv
  <2>3. msg \in Nat /\ \A x \in Members(Line(dev)) : x < msg
    BY <1>1, <2>2, HandIsLast
  <2>4. /\ dev'.when = dev.when /\ dev'.out = dev.out /\ dev'.ended = dev.ended
        /\ \/ dev'.q = Append(dev.q, msg)
           \/ dev'.refused = dev.refused \cup {msg}
    BY <1>1, <2>1, <2>3, QueuedIs
  <2>5. ASSUME dev'.q = Append(dev.q, msg)
        PROVE  LineInv'
    <3>1. Line(dev') = Append(Line(dev), msg)
      BY <1>1, <2>3, <2>4, <2>5, LineMoves DEF Line
    <3>2. Rising(Line(dev'))
      BY <1>3, <2>3, <3>1, RisingAppend
    <3>3. Open(dev')
      BY <2>2, <2>4 DEF LineInv, Open, Last
    <3> QED BY <2>2, <3>2, <3>3, LineOpen
  <2> QED BY <2>4, <2>5
<1>10. ASSUME pc \in {"trypush", "enqueue", "add"}
       PROVE  msg \in Nat
  BY <1>1, <1>10 DEF TidyInv
\* What is given to the controller.
<1>11. ASSUME pc \in {"enqueue", "add"}, SameDesk(Given(dev, msg), dev'), Hand' = {},
              pc' = (IF msg = Other THEN "out" ELSE "arm") \/ (pc' = "mark" /\ msg' = msg)
       PROVE  LineInv'
  <2> DEFINE s == Given(dev, msg)
  <2>1. /\ s.q = dev.q /\ s.when = dev.when /\ s.ended = dev.ended
        /\ msg = Other => s.out = dev.out
        /\ msg # Other => s.out = Append(dev.out, msg)
    BY <1>1, <1>10, <1>11, GivenIs
  <2>2. dev'.q = s.q /\ dev'.when = s.when /\ dev'.ended = s.ended /\ dev'.out = s.out
    BY <1>11 DEF SameDesk
  <2> HIDE DEF s
  <2>3. CASE msg = Other
    <3>1. pc' # "arm" /\ (pc' = "mark" => msg' = Other)
      BY <1>11, <2>3
    <3>2. dev'.out = dev.out /\ dev'.q = dev.q /\ dev'.ended = dev.ended /\ dev'.when = dev.when
      BY <2>1, <2>2, <2>3
    <3> QED BY <1>11, <3>1, <3>2, LineStay DEF LineInv
  <2>4. CASE msg # Other
    <3>1. Hand # {}
      BY <1>11, <2>4 DEF Hand
    <3>2. msg \in Nat /\ msg \in Hand /\ \A x \in Members(Line(dev)) : x < msg
      BY <1>1, <3>1, HandIsLast
    <3>3. ~Open(dev)
      BY <1>11, <2>4 DEF OneInv
    <3>4. dev.q = << >>
      BY <3>3 DEF LineInv
    <3>5. dev'.out = Append(dev.out, msg) /\ dev'.q = dev.q /\ dev'.ended = dev.ended
      BY <2>1, <2>2, <2>4
    <3>6. Line(dev') = Append(Line(dev), msg)
      BY <1>1, <3>2, <3>4, <3>5, LineMoves DEF Line
    <3>7. Rising(Line(dev'))
      BY <1>3, <3>2, <3>6, RisingAppend
    <3>8. msg \notin Members(dev.out)
      BY <3>2, HandNotOut DEF AccountInv
    <3>9. Open(dev')
      BY <1>1, <1>4, <3>2, <3>3, <3>5, <3>8, OutOne
    <3> QED BY <1>11, <3>7, <3>9, LineOpen
  <2> QED BY <2>3, <2>4
<1>12. CASE TryPush
  <2>1. pc = "trypush"
    BY <1>12 DEF TryPush, Here
  <2>2. CASE dev' = Discarded(dev, msg) /\ After
    <3>1. /\ dev'.out = dev.out /\ dev'.q = dev.q /\ dev'.ended = dev.ended /\ dev'.when = dev.when
          /\ msg # Other => dev'.refused = dev.refused \cup {msg}
      BY <1>1, <1>10, <2>1, <2>2, GivenIs
    <3>2. CASE msg # Other
      BY <3>1, <3>2
    <3>3. CASE msg = Other
      <4>1. pc' = "out"
        BY <2>2, <3>3 DEF After, Go
      <4>2. Hand' = {}
        BY <4>1 DEF Hand
      <4> QED BY <1>5, <3>1, <4>1, <4>2
    <3> QED BY <3>2, <3>3
  <2>3. CASE dev' = dev /\ msg' = msg /\ pc' \in {"enqueue", "add"}
    <3>1. Hand' = Hand
      BY <2>1, <2>3 DEF Hand
    <3>2. Hand' # {} => msg' = dev'.made
      BY <2>3, <3>1 DEF LineInv
    <3> QED BY <1>5, <2>3, <3>2
  <2> QED BY <1>12, <2>2, <2>3 DEF TryPush, Go
<1>13. CASE EnqueueIt
  <2> DEFINE s == Given(dev, msg)
  <2>1. pc = "enqueue" /\ dev' = Enqueue(s, msg) /\ pc' = (IF msg = Other THEN "out" ELSE "arm")
    BY <1>13 DEF EnqueueIt, Here, After, Go
  <2>2. s \in DEV /\ msg \in Nat
    BY <1>1, <1>10, <2>1, GivenIs DEF SameMail
  <2> HIDE DEF s
  <2>3. SameDesk(s, dev')
    BY <2>1, <2>2, EnqueueIs
  <2>4. Hand' = {}
    BY <2>1 DEF Hand
  <2> QED BY <1>11, <2>1, <2>3, <2>4 DEF s
<1>14. CASE AddIt
  <2> DEFINE s == Given(dev, msg)
             b == LowestFree(dev)
  <2>1. pc = "add" /\ FreeBoxes(dev) # {}
    BY <1>1, <1>14 DEF AddIt, Here, TidyInv
  <2>2. dev' = Add(s, b, msg) /\ pc' = "mark" /\ msg' = msg
    BY <1>14, <2>1 DEF AddIt, Go
  <2>3. s \in DEV /\ msg \in Nat /\ b \in Boxes
    BY <1>1, <1>10, <2>1, GivenIs, LowestIsFree DEF SameMail
  <2> HIDE DEF s, b
  <2>4. SameDesk(s, dev')
    BY <2>2, <2>3, AddIs
  <2>5. Hand' = {}
    BY <2>2 DEF Hand
  <2> QED BY <1>11, <2>1, <2>2, <2>4, <2>5 DEF s
<1>15. CASE MarkIt
  <2>1. /\ pc = "mark" /\ dev' = Mark(dev, mbox)
        /\ pc' = (IF msg = Other THEN "out" ELSE "arm") /\ msg' = None
    BY <1>15 DEF MarkIt, Here, After, Go
  <2>2. mbox \in Boxes
    BY <1>1, <2>1 DEF TidyInv
  <2>3. dev'.when = dev.when /\ dev'.q = dev.q /\ dev'.out = dev.out /\ dev'.ended = dev.ended
    BY <1>1, <2>1, <2>2, MarkIs DEF SameDesk
  <2>4. Hand' = {}
    BY <2>1 DEF Hand
  <2>5. pc' = "arm" => Open(dev)
    BY <2>1 DEF LineInv
  <2>6. pc' # "mark"
    BY <2>1
  <2> QED BY <2>3, <2>4, <2>5, <2>6, LineStay DEF LineInv
<1>16. CASE ArmIt
  <2>1. pc = "arm" /\ dev' = Arm(dev) /\ pc' = "out"
    BY <1>16 DEF ArmIt, Here, Go
  <2>2. dev'.q = dev.q /\ dev'.out = dev.out /\ dev'.ended = dev.ended
    BY <1>1, <2>1, ArmIs
  <2>3. Hand' = {} /\ Open(dev)
    BY <2>1 DEF Hand, LineInv
  <2> QED BY <2>1, <2>2, <2>3, LineStay DEF LineInv
<1> QED BY <1>6, <1>7, <1>8, <1>9, <1>12, <1>13, <1>14, <1>15, <1>16 DEF Main

\* What is discarded stays so.
LEMMA RefusedGrows ==
  ASSUME CalmInv, Calm, [Next]_vars
  PROVE  dev.refused \subseteq dev'.refused
<1>1. TidyInv /\ dev \in DEV /\ time \in Nat
  BY DEF CalmInv, TidyInv, Calm
<1>2. CASE Answered \/ PDO \/ \E b \in Boxes : Transmitted(b)
  <2>1. pc = "out" /\ dev.ok
    BY <1>2 DEF Answered, PDO, Transmitted, Interruptible, Calm
  <2>2. Tidy(dev)
    BY <1>1, <2>1 DEF TidyInv, Settled
  <2>3. \A s : Callback(s) = {s}
    BY DEF Callback, Calm
  <2>4. CASE Answered
    <3> DEFINE s == Replied(dev, 0)
    <3>1. dev.node # << >> /\ dev' = process(s)
      BY <2>3, <2>4 DEF Answered, Replied
    <3>2. SameMail(dev, s) /\ s.refused = dev.refused
      BY <1>1, <3>1, RepliedIs
    <3> HIDE DEF s
    <3>3. Tidy(s) /\ s.ok
      BY <2>1, <2>2, <3>2, SameTidy DEF SameMail
    <3> QED BY <1>1, <3>1, <3>2, <3>3, ProcessIs
  <2>5. CASE PDO
    <3>1. dev' = process(dev)
      BY <2>3, <2>5 DEF PDO
    <3> QED BY <1>1, <2>1, <2>2, <3>1, ProcessIs
  <2>6. ASSUME NEW b \in Boxes, Transmitted(b)
        PROVE  dev.refused \subseteq dev'.refused
    <3> DEFINE u == Emptied(dev, b)
    <3>1. dev' = _tx_complete(u, b) /\ dev.box[b] # None
      BY <2>6 DEF Transmitted, Emptied
    <3>2. SameDesk(u, dev')
      BY <2>1, <2>2, <3>1, CompleteIs
    <3>3. u.refused = dev.refused
      BY <1>1, <3>1, EmptiedIs
    <3> QED BY <3>2, <3>3 DEF SameDesk
  <2> QED BY <1>2, <2>4, <2>5, <2>6
<1>3. CASE Tick \/ UNCHANGED vars
  BY <1>3 DEF Tick, vars
<1>4. ~Lost
  BY DEF Lost, Calm
<1>5. CASE Request \/ SendOther \/ Decide \/ ArmIt
  <2>1. CASE Request
    BY <1>1, <2>1, MadeIs DEF Request
  <2>2. CASE SendOther
    BY <1>1, <2>2, OthersIs DEF SendOther
  <2>3. CASE Decide
    <3> DEFINE w == [dev EXCEPT !.when = 0]
    <3>1. w.refused = dev.refused
      BY <1>1, WhenIs
    <3>2. dev' = dev \/ dev' = w
      BY <2>3 DEF Decide
    <3> QED BY <3>1, <3>2
  <2>4. CASE ArmIt
    BY <1>1, <2>4, ArmIs DEF ArmIt
  <2> QED BY <1>5, <2>1, <2>2, <2>3, <2>4
<1>6. CASE QueueIt \/ TryPush \/ EnqueueIt \/ AddIt \/ MarkIt
  <2>1. pc \in {"queue", "trypush", "enqueue", "add", "mark"} /\ msg \in Nat
    BY <1>1, <1>6 DEF QueueIt, TryPush, EnqueueIt, AddIt, MarkIt, Here, TidyInv
  <2> DEFINE s == Given(dev, msg)
             d == Discarded(dev, msg)
             b == LowestFree(dev)
  <2>2. /\ SameMail(dev, s) /\ s.refused = dev.refused
        /\ SameMail(dev, d) /\ (d.refused = dev.refused \/ d.refused = dev.refused \cup {msg})
    BY <1>1, <2>1, GivenIs
  <2>3. s \in DEV
    BY <2>2 DEF SameMail
  <2> HIDE DEF s, d, b
  <2>4. CASE QueueIt
    BY <1>1, <2>1, <2>4, QueuedIs DEF QueueIt
  <2>5. CASE TryPush
    BY <2>2, <2>5 DEF TryPush, d
  <2>6. CASE EnqueueIt
    <3>1. dev' = Enqueue(s, msg)
      BY <2>6 DEF EnqueueIt, s
    <3>2. SameDesk(s, dev')
      BY <2>1, <2>3, <3>1, EnqueueIs
    <3> QED BY <2>2, <3>2 DEF SameDesk
  <2>7. CASE AddIt
    <3>1. FreeBoxes(dev) # {}
      BY <1>1, <2>7 DEF AddIt, Here, TidyInv
    <3>2. dev' = Add(s, b, msg) /\ b \in Boxes
      BY <2>7, <3>1, LowestIsFree DEF AddIt, s, b
    <3>3. SameDesk(s, dev')
      BY <2>1, <2>3, <3>2, AddIs
    <3> QED BY <2>2, <3>3 DEF SameDesk
  <2>8. CASE MarkIt
    <3>1. dev' = Mark(dev, mbox) /\ mbox \in Boxes
      BY <1>1, <2>8 DEF MarkIt, Here, TidyInv
    <3> QED BY <1>1, <3>1, MarkIs DEF SameDesk
  <2> QED BY <1>6, <2>4, <2>5, <2>6, <2>7, <2>8
<1> QED BY <1>2, <1>3, <1>4, <1>5, <1>6 DEF Next, Main

LEMMA OrderNext == OrderInv /\ SoloInv /\ CalmInv /\ AccountInv /\ [Next]_vars => OrderInv'
<1> SUFFICES ASSUME OrderInv, SoloInv, CalmInv, AccountInv, [Next]_vars, Calm', dev'.refused = {}
             PROVE  LineInv'
  BY DEF OrderInv
<1>1. env' = env
  BY DEF Next, vars, Answered, Lost, PDO, Tick, Transmitted, Request, SendOther, Main,
         Decide, QueueIt, TryPush, EnqueueIt, AddIt, MarkIt, ArmIt, Go, After
<1>2. Calm
  BY <1>1 DEF Calm
<1>3. dev.refused = {}
  BY <1>2, RefusedGrows
<1>4. LineInv /\ OneInv
  BY <1>2, <1>3 DEF OrderInv, SoloInv, Calm
<1>5. CASE Answered \/ PDO \/ \E b \in Boxes : Transmitted(b)
  BY <1>2, <1>4, <1>5, LineInterrupt
<1>6. CASE Request \/ SendOther \/ Main
  BY <1>2, <1>4, <1>6, LineMain
<1>7. CASE Tick \/ UNCHANGED vars
  <2>1. UNCHANGED <<dev, pc, msg>>
    BY <1>7 DEF Tick, vars
  <2>2. Hand' = Hand
    BY <2>1 DEF Hand
  <2> QED BY <1>4, <2>1, <2>2, LineStay DEF LineInv
<1>8. ~Lost
  BY <1>2 DEF Lost, Calm
<1> QED BY <1>5, <1>6, <1>7, <1>8 DEF Next

\* Requests go out in the order made, one at a time, and no assert fails unless
\* there is no room (canopen.h:311-334): each under the conditions it states.
THEOREM CANOpenOrderly == Spec => []Orderly
<1>1. OrderInv => InOrder
  BY DEF OrderInv, LineInv, InOrder, Rising, Line
<1>2. Spec => []OrderInv
  BY AccountInvariant, CalmInvariant, SoloInvariant, OrderInit, OrderNext, PTL DEF Spec
<1>3. InOrder /\ OneAtATime /\ AssertsOnlyWhenFull => Orderly
  BY DEF Orderly
<1> QED BY <1>1, <1>2, <1>3, CANOpenOneAtATime, CANOpenAsserts, PTL

=============================================================================
