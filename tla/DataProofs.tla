----------------------------- MODULE DataProofs -----------------------------
(***************************************************************************)
(* What is proved about the modules of MCData, for all constants that      *)
(* satisfy its assumptions: Queue<T> is a FIFO, the search of the curves   *)
(* is right and ends, the sensors' drivers know their chips, the ports of  *)
(* Linux and the helpers for streams pass everything on in order, series   *)
(* come whole, and what is added up is what was seen.                      *)
(***************************************************************************)
EXTENDS MCData, Lemmas

-----------------------------------------------------------------------------
(* Queue: the inductive invariant joins the type, the agreement of the two *)
(* indices with the counter, and the fact that every slot between them is  *)
(* live: without the second a push could overwrite a pending element,      *)
(* without the third the value returned by pop() would not be known to be  *)
(* one.                                                                    *)

\* the type of a queue that was allocated with Size slots
Rings == [slot : [Slots(Size) -> Elem \cup {Garbage}], len : 0 .. Size, size : {Size},
          head : Slots(Size), tail : Slots(Size), wrap : {Size}]

\* the inductive invariant, of any queue r
RingOK(r) == /\ r \in Rings
             /\ r.tail = At(Size, r.head, r.len)
             /\ \A i \in 1 .. r.len : Items(r)[i] \in Elem

QueueInv == RingOK(q) /\ out \in Elem \cup {Garbage}

(***************************************************************************)
(* What each operation does to the elements of a queue.                    *)
(***************************************************************************)

\* The elements of a queue are a sequence of len elements, and a ring of the
\* right type that holds a sequence has its elements.
LEMMA ItemsSeq ==
  ASSUME NEW r, RingOK(r)
  PROVE  /\ Items(r) \in Seq(Elem) /\ Len(Items(r)) = r.len /\ r.len \in 0 .. Size
         /\ Holds(Size, r.slot, r.head, Items(r))
<1>1. r.len \in 0 .. Size /\ r.wrap = Size
  BY DEF RingOK, Rings
<1>2. Items(r) \in [1 .. r.len -> Elem]
  BY DEF RingOK, Items
<1>3. Items(r) \in Seq(Elem) /\ Len(Items(r)) = r.len
  BY <1>1, <1>2, SizeAssumption, SMT
<1> QED BY <1>1, <1>3 DEF Items, GetAt, At, Holds

LEMMA HoldsItems ==
  ASSUME NEW r \in Rings, NEW s \in Seq(Elem), r.len = Len(s),
         r.tail = At(Size, r.head, r.len), Holds(Size, r.slot, r.head, s)
  PROVE  RingOK(r) /\ Items(r) = s
<1>1. r.wrap = Size
  BY DEF Rings
<1>2. \A i \in 1 .. r.len : Items(r)[i] = s[i] /\ s[i] \in Elem
  BY <1>1 DEF Items, GetAt, At, Holds
<1>3. RingOK(r)
  BY <1>2 DEF RingOK
<1> QED BY <1>2, <1>3, ItemsSeq, SeqEqual

\* push() appends one element and leaves all the others in their places.
LEMMA PushAppends ==
  ASSUME NEW r, RingOK(r), NEW v \in Elem, r.len < r.size
  PROVE  RingOK(Pushed(r, v)) /\ Items(Pushed(r, v)) = Append(Items(r), v)
<1> DEFINE p == Pushed(r, v)
<1> USE SizeAssumption DEF Slots
<1>1. /\ r \in Rings /\ r.tail = At(Size, r.head, r.len) /\ r.size = Size /\ r.wrap = Size
      /\ r.slot \in [Slots(Size) -> Elem \cup {Garbage}]
      /\ r.len \in 0 .. Size - 1 /\ r.head \in Slots(Size) /\ r.tail \in Slots(Size)
  BY SMT DEF RingOK, Rings
<1>2. 1 \in 0 .. Size /\ r.len \in 0 .. Size /\ r.len + 1 \in 0 .. Size /\ r.len + 1 <= Size
  BY <1>1, SMT
<1>3. /\ At(Size, r.tail, 1) \in Slots(Size)
      /\ At(Size, r.tail, 1) = At(Size, r.head, r.len + 1)
  <2> DEFINE h == r.head
             l == r.len
  <2>1. h \in 0 .. Size - 1 /\ l \in 0 .. Size /\ 1 \in 0 .. Size /\ l + 1 <= Size
    BY <1>1, <1>2
  <2>2. r.tail = At(Size, h, l) /\ r.tail \in 0 .. Size - 1
    BY <1>1
  <2> HIDE DEF h, l
  <2>3. At(Size, r.tail, 1) \in 0 .. Size - 1 /\ At(Size, At(Size, h, l), 1) = At(Size, h, l + 1)
    BY <2>1, <2>2, AtRange, AtSum, ZenonT(60)
  <2> QED BY <2>2, <2>3 DEF h, l
<1>4. /\ p \in Rings
      /\ p.slot = [r.slot EXCEPT ![r.tail] = v] /\ p.len = r.len + 1
      /\ p.head = r.head /\ p.tail = At(Size, r.tail, 1)
  <2>1. After(r, r.tail) = At(Size, r.tail, 1)
    BY <1>1 DEF After, At
  <2>2. [r.slot EXCEPT ![r.tail] = v] \in [Slots(Size) -> Elem \cup {Garbage}]
    BY <1>1
  <2> QED BY <1>1, <1>2, <1>3, <2>1, <2>2 DEF Pushed, Rings
<1> HIDE DEF p
<1>5. /\ Append(Items(r), v) \in Seq(Elem) /\ Len(Append(Items(r), v)) = r.len + 1
      /\ Holds(Size, p.slot, r.head, Append(Items(r), v))
  <2> DEFINE s == Items(r)
  <2>1. /\ s \in Seq(Elem) /\ Len(s) = r.len /\ Len(s) < Size
        /\ Holds(Size, r.slot, r.head, s) /\ r.tail = At(Size, r.head, Len(s))
    BY <1>1, ItemsSeq
  <2>2. r.head \in 0 .. Size - 1 /\ r.slot \in [0 .. Size - 1 -> Elem \cup {Garbage}]
    BY <1>1
  <2> HIDE DEF s
  <2>3. Holds(Size, [r.slot EXCEPT ![r.tail] = v], r.head, Append(s, v))
    BY <2>1, <2>2, HoldsAppend
  <2> QED BY <1>4, <2>1, <2>3, AppendProperties DEF s
<1> QED BY <1>3, <1>4, <1>5, HoldsItems DEF p

\* pop() and drop() remove the oldest element and leave the others in place.
LEMMA DropRemovesHead ==
  ASSUME NEW r, RingOK(r), r.len # 0, NEW p, p = Dropped(r) \/ p = Popped(r)
  PROVE  /\ RingOK(p) /\ Items(p) = Tail(Items(r))
         /\ Items(r) # << >> /\ Front(r) = Head(Items(r)) /\ Front(r) \in Elem
<1> USE SizeAssumption DEF Slots
<1>1. /\ r \in Rings /\ r.tail = At(Size, r.head, r.len) /\ r.size = Size /\ r.wrap = Size
      /\ r.slot \in [Slots(Size) -> Elem \cup {Garbage}]
      /\ r.len \in 1 .. Size /\ r.head \in Slots(Size) /\ r.tail \in Slots(Size)
  BY SMT DEF RingOK, Rings
<1>2. 1 \in 0 .. Size /\ r.len - 1 \in 0 .. Size /\ 1 + (r.len - 1) = r.len
  BY <1>1, SMT
<1>3. /\ At(Size, r.head, 1) \in Slots(Size)
      /\ At(Size, At(Size, r.head, 1), r.len - 1) = r.tail
  <2> DEFINE h == r.head
             l == r.len - 1
  <2>1. h \in 0 .. Size - 1 /\ l \in 0 .. Size /\ 1 \in 0 .. Size /\ 1 + l <= Size
    BY <1>1, <1>2
  <2>2. r.tail = At(Size, h, 1 + l)
    BY <1>1, <1>2
  <2> HIDE DEF h, l
  <2>3. At(Size, h, 1) \in 0 .. Size - 1 /\ At(Size, At(Size, h, 1), l) = At(Size, h, 1 + l)
    BY <2>1, AtRange, AtSum
  <2> QED BY <2>2, <2>3 DEF h, l
<1>4. /\ p \in Rings /\ \A k \in Slots(Size) : k # r.head => p.slot[k] = r.slot[k]
      /\ p.len = r.len - 1 /\ p.head = At(Size, r.head, 1) /\ p.tail = r.tail
  <2> DEFINE d == Dropped(r)
  <2>1. /\ d \in Rings /\ d.slot = r.slot /\ d.len = r.len - 1
        /\ d.head = At(Size, r.head, 1) /\ d.tail = r.tail /\ d.wrap = Size /\ d.size = Size
    <3>1. After(r, r.head) = At(Size, r.head, 1)
      BY <1>1 DEF After, At
    <3> QED BY <1>1, <1>2, <1>3, <3>1 DEF Dropped, Rings
  <2>2. /\ Popped(r) = [d EXCEPT !.slot = [r.slot EXCEPT ![r.head] = Garbage]]
        /\ [r.slot EXCEPT ![r.head] = Garbage] \in [Slots(Size) -> Elem \cup {Garbage}]
    BY <1>1, <2>1 DEF Popped
  <2> HIDE DEF d
  <2>3. CASE p = d
    BY <2>1, <2>3
  <2>4. CASE p = Popped(r)
    BY <1>1, <2>1, <2>2, <2>4 DEF Rings
  <2> QED BY <2>3, <2>4 DEF d
<1>5. /\ Items(r) \in Seq(Elem) /\ Len(Items(r)) = r.len /\ Items(r) # << >>
      /\ Tail(Items(r)) \in Seq(Elem) /\ Len(Tail(Items(r))) = r.len - 1
      /\ Head(Items(r)) \in Elem
  <2>1. Items(r) \in Seq(Elem) /\ Len(Items(r)) = r.len /\ Items(r) # << >>
    BY <1>1, ItemsSeq, EmptySeq, SMT
  <2> QED BY <1>1, <2>1, HeadTailProperties
<1>6. Front(r) = Head(Items(r)) /\ Holds(Size, p.slot, p.head, Tail(Items(r)))
  <2>1. /\ r.head \in 0 .. Size - 1 /\ Len(Items(r)) <= Size
        /\ \A k \in 0 .. Size - 1 : k # r.head => p.slot[k] = r.slot[k]
    BY <1>1, <1>4, <1>5
  <2> DEFINE s == Items(r)
  <2>2. s \in Seq(Elem) /\ s # << >> /\ Len(s) <= Size /\ Holds(Size, r.slot, r.head, s)
    BY <1>5, <2>1, ItemsSeq
  <2> HIDE DEF s
  <2>3. r.slot[r.head] = Head(s) /\ Holds(Size, p.slot, At(Size, r.head, 1), Tail(s))
    BY <2>1, <2>2, HoldsTail
  <2> QED BY <1>4, <2>3 DEF Front, s
<1> QED BY <1>3, <1>4, <1>5, <1>6, HoldsItems

(***************************************************************************)
(* The theorems.                                                           *)
(***************************************************************************)

\* Both ways to construct a queue establish the invariant.
LEMMA InitInv == Init => QueueInv
<1> USE SizeAssumption
<1>0. 0 \in 0 .. Size /\ 0 \in Slots(Size) /\ Size \in 0 .. Size /\ Size \in Nat
  BY SMT DEF Slots
<1>1. ASSUME q = Fresh(Size) PROVE RingOK(q)
  <2>1. At(Size, 0, 0) = 0
    BY <1>0, AtRange
  <2>2. q \in Rings
    BY <1>0, <1>1 DEF Fresh, Rings
  <2>3. q.head = 0 /\ q.tail = 0 /\ q.len = 0
    BY <1>1 DEF Fresh
  <2>4. \A i \in 1 .. 0 : FALSE
    BY SMT
  <2> QED BY <2>1, <2>2, <2>3, <2>4 DEF RingOK
<1>2. ASSUME NEW s \in [1 .. Size -> Elem], q = FromBuffer(s) PROVE RingOK(q)
  <2>1. Len(s) = Size /\ \A i \in Slots(Size) : i + 1 \in 1 .. Size
    BY <1>0, SMT DEF Slots
  <2>2. q = [slot |-> [i \in Slots(Size) |-> s[i + 1]], len |-> Size, size |-> Size,
             head |-> 0, tail |-> 0, wrap |-> Size]
    BY <1>2, <2>1 DEF FromBuffer
  <2>3. q \in Rings
    BY <1>0, <2>1, <2>2 DEF Rings
  <2>4. At(Size, 0, Size) = 0
    BY <1>0, AtIs, SMT
  <2>5. ASSUME NEW i \in 1 .. Size PROVE Items(q)[i] \in Elem
    <3>1. i - 1 \in Slots(Size) /\ i - 1 \in 0 .. Size /\ 0 + (i - 1) = i - 1 /\ (i - 1) + 1 = i
          /\ 0 + (i - 1) < Size
      BY SMT DEF Slots
    <3>2. At(Size, 0, i - 1) = i - 1
      BY <1>0, <3>1, AtIs
    <3>3. Items(q)[i] = q.slot[At(Size, 0, i - 1)]
      BY <2>2 DEF Items, GetAt, At
    <3> QED BY <2>2, <3>1, <3>2, <3>3
  <2> QED BY <2>2, <2>3, <2>4, <2>5 DEF RingOK
<1> QED BY <1>1, <1>2 DEF Init, QueueInv

\* Every operation preserves it.
LEMMA NextInv == QueueInv /\ [Next]_vars => QueueInv'
<1> SUFFICES ASSUME QueueInv, [Next]_vars PROVE QueueInv'
  OBVIOUS
<1>1. CASE Pop
  BY <1>1, DropRemovesHead DEF Pop, QueueInv
<1>2. CASE Drop
  BY <1>2, DropRemovesHead DEF Drop, QueueInv
<1>3. ASSUME NEW v \in Elem, Push(v) PROVE QueueInv'
  BY <1>3, PushAppends DEF Push, QueueInv
<1>4. CASE UNCHANGED vars
  BY <1>4 DEF vars, QueueInv
<1> QED BY <1>1, <1>2, <1>3, <1>4 DEF Next

\* Whatever sequence of calls is made, the invariant holds.
LEMMA InductiveInvariant == Spec => []QueueInv
<1> QED BY InitInv, NextInv, PTL DEF Spec

\* The invariant gives the three properties TLC checks.
LEMMA InvImplies == QueueInv => TypeOK /\ IndicesAgree /\ OnlyLiveElements
BY DEF QueueInv, RingOK, Rings, At, TypeOK, IndicesAgree, OnlyLiveElements

\* For every size: head, tail and len never leave the allocation ...
THEOREM QueueTypeOK == Spec => []TypeOK
BY InductiveInvariant, InvImplies, PTL

\* ... the two indices always agree with the number of elements ...
THEOREM QueueIndicesAgree == Spec => []IndicesAgree
BY InductiveInvariant, InvImplies, PTL

\* ... and no reader can reach a slot that holds no element.
THEOREM QueueOnlyLiveElements == Spec => []OnlyLiveElements
BY InductiveInvariant, InvImplies, PTL

\* Queue<T> implements the bounded FIFO for every size and element type.
THEOREM QueueImplementsFifo == Spec => Implements
<1>1. ASSUME QueueInv, Init PROVE Abstract!Init
  <2>1. CASE q = Fresh(Size)
    <3>1. q.len = 0
      BY <2>1 DEF Fresh
    <3>2. Items(q) = << >>
      <4>1. Items(q) \in Seq(Elem) /\ Len(Items(q)) = 0
        BY <1>1, <3>1, ItemsSeq DEF QueueInv
      <4> QED BY <4>1, EmptySeq, SMT
    <3> QED BY <1>1, <3>2 DEF Abstract!Init, Init
  <2>2. ASSUME NEW s \in [1 .. Size -> Elem], q = FromBuffer(s)
        PROVE  Items(q) \in [1 .. Size -> Elem]
    <3>1. q.len = Size
      BY <2>2, SizeAssumption, SMT DEF FromBuffer
    <3> QED BY <1>1, <3>1 DEF QueueInv, RingOK, Items
  <2> QED BY <1>1, <2>1, <2>2 DEF Init, Abstract!Init
<1>2. ASSUME QueueInv, [Next]_vars PROVE [Abstract!Next]_(Abstract!vars)
  <2>1. CASE Pop
    BY <1>2, <2>1, DropRemovesHead DEF QueueInv, Pop, Abstract!Pop, Abstract!Next
  <2>2. CASE Drop
    BY <1>2, <2>2, DropRemovesHead DEF QueueInv, Drop, Abstract!Drop, Abstract!Next
  <2>3. ASSUME NEW v \in Elem, Push(v) PROVE Abstract!Push(v)
    <3>1. q.size = Size /\ Len(Items(q)) < Size
      BY <1>2, <2>3, ItemsSeq DEF QueueInv, RingOK, Rings, Push
    <3> QED BY <1>2, <2>3, <3>1, PushAppends DEF QueueInv, Push, Abstract!Push
  <2>4. CASE UNCHANGED vars
    BY <2>4 DEF vars, Abstract!vars
  <2> QED BY <1>2, <2>1, <2>2, <2>3, <2>4 DEF Next, Abstract!Next
<1>3. QueueInv /\ Init => Abstract!Init
  BY <1>1
<1>4. QueueInv /\ [Next]_vars => [Abstract!Next]_(Abstract!vars)
  BY <1>2
<1> QED BY <1>3, <1>4, InductiveInvariant, PTL DEF Spec, Implements, Abstract!Spec


-----------------------------------------------------------------------------
(* Curves                                                                  *)

\* What the loop knows: x is not before the left end, unless that is the first
\* point, and before the right end, unless that is the last one.
CvBracketed ==
  cPc = "loop" => /\ cSize > 0
                  /\ cLeft = 0 \/ cP[cLeft] <= cX
                  /\ cRight = cSize - 1 \/ cX < cP[cRight]
                  /\ cLeft # cRight => cLeft <= cI /\ cI < cRight
                  /\ cLeft <= cRight /\ cRight < cSize

\* The inductive invariant.
CvInv == Cv!TypeOK /\ Cv!Bounded /\ CvBracketed /\ Cv!Right /\ (cPc = "call" => cSteps = 0)

\* The middle of two different numbers is below the greater one.
LEMMA Middle ==
  ASSUME NEW l \in Nat, NEW r \in Nat, l < r
  PROVE  (l + r) \div 2 \in Nat /\ l <= (l + r) \div 2 /\ (l + r) \div 2 < r
  OBVIOUS

\* The points of a curve, and the x that is looked for, are numbers.
LEMMA Points ==
  ASSUME Cv!TypeOK, NEW k \in Nat, k < cSize
  PROVE  cP[k] \in Int /\ cX \in Int
<1>1. k \in 0 .. cSize - 1
  BY DEF Cv!TypeOK
<1> QED BY <1>1, DataAssumption DEF Cv!TypeOK

LEMMA CvStart == Cv!Init => CvInv
  BY DataAssumption, SMTT(60) DEF Cv!Init, CvInv, Cv!TypeOK, Cv!Bounded, CvBracketed, Cv!Right, Cv!Zero

LEMMA CvNext == ASSUME CvInv, [Cv!Next]_(Cv!vars) PROVE CvInv'
<1> USE DEF CvInv, Cv!TypeOK, Cv!Bounded, CvBracketed, Cv!Right
<1>1. CASE Cv!Empty
  BY <1>1 DEF Cv!Empty, Cv!Found, Cv!Zero, Cv!Fixed
<1>2. CASE Cv!Begin
  BY <1>2 DEF Cv!Begin, Cv!Fixed
<1>3. CASE Cv!One
  <2>1. cLeft = cRight /\ cRes' = Cv!At(cRight) /\ cPc' = "done" /\ cRight < cSize /\ cSize \in Nat /\ cRight \in Nat
    BY <1>3 DEF Cv!One, Cv!Found
  <2>2. UNCHANGED <<cKind, cSize, cP, cX, cI, cLeft, cRight, cSteps>>
    BY <1>3 DEF Cv!One, Cv!Found, Cv!Fixed
  <2>3. (cRight = 0 /\ cX < cP[0]) \/ (cRight = cSize - 1 /\ cP[cSize - 1] <= cX)
    <3>1. cX \in Int /\ cP[cRight] \in Int
      BY <2>1, Points
    <3>2. (cRight = 0 \/ cP[cRight] <= cX) /\ (cRight = cSize - 1 \/ cX < cP[cRight])
      BY <1>3, <2>1 DEF Cv!One
    <3> QED BY <3>1, <3>2, <2>1
  <2> QED BY <2>1, <2>2, <2>3 DEF Cv!At
<1>4. CASE Cv!Lower
  <2>1. cLeft < cRight /\ cLeft <= cI /\ cI < cRight /\ cRight < cSize /\ cX < cP[cI]
    BY <1>4 DEF Cv!Lower
  <2>2. cLeft' = cLeft /\ cRight' = cI /\ cI' = (cLeft + cI) \div 2 /\ cSteps' = cSteps + 1
        /\ UNCHANGED <<cKind, cSize, cP, cX, cPc, cRes>>
    BY <1>4 DEF Cv!Lower, Cv!Narrow, Cv!Fixed
  <2>3. cI' \in Nat /\ (cLeft' # cRight' => cLeft' <= cI' /\ cI' < cRight')
    <3>1. CASE cLeft < cI
      BY <3>1, <2>2, Middle
    <3>2. CASE cLeft = cI
      BY <3>2, <2>1, <2>2
    <3> QED BY <2>1, <3>1, <3>2
  <2>4. cSteps' + (cRight' - cLeft') <= cSize' - 1
    BY <1>4, <2>1, <2>2 DEF Cv!Lower
  <2> QED BY <1>4, <2>1, <2>2, <2>3, <2>4 DEF Cv!Lower
<1>5. CASE Cv!Higher
  <2>1. cLeft < cRight /\ cLeft <= cI /\ cI < cRight /\ cRight < cSize /\ cP[cI + 1] <= cX
    <3>1. cLeft # cRight /\ cX >= cP[cI + 1] /\ cLeft <= cI /\ cI < cRight /\ cRight < cSize
      BY <1>5 DEF Cv!Higher
    <3>2. cI + 1 \in Nat /\ cI + 1 < cSize
      BY <3>1
    <3>3. cP[cI + 1] \in Int /\ cX \in Int
      BY <3>2, Points
    <3> QED BY <3>1, <3>3
  <2>2. cLeft' = cI + 1 /\ cRight' = cRight /\ cI' = (cI + 1 + cRight) \div 2 /\ cSteps' = cSteps + 1
        /\ UNCHANGED <<cKind, cSize, cP, cX, cPc, cRes>>
    BY <1>5 DEF Cv!Higher, Cv!Narrow, Cv!Fixed
  <2>3. cI' \in Nat /\ (cLeft' # cRight' => cLeft' <= cI' /\ cI' < cRight')
    <3>1. CASE cI + 1 < cRight
      <4>1. cI + 1 \in Nat /\ cRight \in Nat
        OBVIOUS
      <4> QED BY <3>1, <4>1, <2>2, Middle
    <3>2. CASE cI + 1 = cRight
      BY <3>2, <2>1, <2>2
    <3> QED BY <2>1, <3>1, <3>2
  <2>4. cSteps' + (cRight' - cLeft') <= cSize' - 1
    BY <1>5, <2>1, <2>2 DEF Cv!Higher
  <2> QED BY <1>5, <2>1, <2>2, <2>3, <2>4 DEF Cv!Higher
<1>6. CASE Cv!Inside
  <2>1. cLeft < cRight /\ cLeft <= cI /\ cI < cRight /\ cRight < cSize
    BY <1>6 DEF Cv!Inside
  <2>2. cP[cI] \in Int /\ cP[cI + 1] \in Int /\ cX \in Int
    <3>1. cI + 1 \in Nat /\ cI + 1 < cSize /\ cI < cSize
      BY <2>1
    <3> QED BY <3>1, Points
  <2>3. cP[cI] <= cX /\ cX < cP[cI + 1] /\ cRes' = Cv!Between(cI) /\ cPc' = "done"
    BY <1>6, <2>2 DEF Cv!Inside, Cv!Found
  <2>4. UNCHANGED <<cKind, cSize, cP, cX, cI, cLeft, cRight, cSteps>>
    BY <1>6 DEF Cv!Inside, Cv!Found, Cv!Fixed
  <2> QED BY <2>1, <2>3, <2>4 DEF Cv!Between
<1>7. CASE UNCHANGED Cv!vars
  BY <1>7 DEF Cv!vars
<1> QED BY <1>1, <1>2, <1>3, <1>4, <1>5, <1>6, <1>7 DEF Cv!Next

\* getValue (trajectory.h) stays within the points, ends after less turns than
\* there are points, and finds a segment around x: for curves of every size.
THEOREM CurveAlwaysFound == Cv!Spec => []CurveFound
<1>1. Cv!Init => CvInv
  BY CvStart
<1>2. CvInv /\ [Cv!Next]_(Cv!vars) => CvInv'
  BY CvNext
<1>3. CvInv => CurveFound
  BY DEF CvInv, CurveFound
<1> QED BY <1>1, <1>2, <1>3, PTL DEF Cv!Spec

-----------------------------------------------------------------------------
(* ADS1115                                                                 *)

AdsReq == [op : {"write"}, range : AdsRanges] \cup [op : {"pointer", "read"}]

AdsTypeOK == /\ dBus \in Seq(AdsReq) /\ dEFullScale \in AdsRanges
             /\ dChip \in [ptr : {"CONVERSION", "CONFIG"}, range : AdsRanges]
             /\ dPc \in {"idle", "setPointer"}

\* The last config that waits in the bus b, or else the one that the chip c has,
\* is the one set by the driver.
LastConfig(b, c, e) ==
  /\ \A k \in 1 .. Len(b) :
       b[k].op = "write" /\ (\A j \in k + 1 .. Len(b) : b[j].op # "write") => b[k].range = e
  /\ (\A k \in 1 .. Len(b) : b[k].op # "write") => c.range = e

\* Every config is followed by a pointer, and so is the one that the chip has.
PointerFollows(b, c) ==
  /\ \A k \in 1 .. Len(b) :
       b[k].op = "write" => \E j \in k + 1 .. Len(b) : b[j].op = "pointer"
  /\ c.ptr = "CONFIG" => \E j \in 1 .. Len(b) : b[j].op = "pointer"

\* The inductive invariant: in the order in which they wait, the requests lead to
\* what the driver believes, unless the last one was discarded.
AdsInv == /\ AdsTypeOK
          /\ dTaken => LastConfig(dBus, dChip, dEFullScale)
          /\ dPointed /\ dPc = "idle" => PointerFollows(dBus, dChip)

\* A request that is pushed and is no config changes neither.
LEMMA AdsPushed ==
  ASSUME NEW b \in Seq(AdsReq), NEW r \in [op : {"pointer", "read"}], NEW c, NEW e
  PROVE  /\ Append(b, r) \in Seq(AdsReq)
         /\ LastConfig(b, c, e) => LastConfig(Append(b, r), c, e)
         /\ PointerFollows(b, c) => PointerFollows(Append(b, r), c)
<1> DEFINE a == Append(b, r)
<1>1. /\ Len(b) \in Nat /\ Len(a) = Len(b) + 1 /\ a[Len(b) + 1] = r
      /\ \A k \in 1 .. Len(b) : a[k] = b[k]
  OBVIOUS
<1>2. a \in Seq(AdsReq) /\ r.op # "write"
  BY DEF AdsReq
<1> HIDE DEF a
<1>3. LastConfig(b, c, e) => LastConfig(a, c, e)
  <2> SUFFICES ASSUME LastConfig(b, c, e) PROVE LastConfig(a, c, e)
    OBVIOUS
  <2>1. ASSUME NEW k \in 1 .. Len(a), a[k].op = "write",
               \A j \in k + 1 .. Len(a) : a[j].op # "write"
        PROVE  a[k].range = e
    <3>1. k \in 1 .. Len(b) /\ a[k] = b[k]
      BY <1>1, <1>2, <2>1
    <3>2. \A j \in k + 1 .. Len(b) : b[j].op # "write"
      BY <1>1, <2>1, <3>1
    <3> QED BY <2>1, <3>1, <3>2 DEF LastConfig
  <2>2. ASSUME \A k \in 1 .. Len(a) : a[k].op # "write" PROVE c.range = e
    <3>1. \A k \in 1 .. Len(b) : b[k].op # "write"
      BY <1>1, <2>2
    <3> QED BY <3>1 DEF LastConfig
  <2> QED BY <2>1, <2>2 DEF LastConfig
<1>4. PointerFollows(b, c) => PointerFollows(a, c)
  <2> SUFFICES ASSUME PointerFollows(b, c) PROVE PointerFollows(a, c)
    OBVIOUS
  <2>1. ASSUME NEW k \in 1 .. Len(a), a[k].op = "write"
        PROVE  \E j \in k + 1 .. Len(a) : a[j].op = "pointer"
    <3>1. k \in 1 .. Len(b) /\ b[k].op = "write"
      BY <1>1, <1>2, <2>1
    <3>2. PICK j \in k + 1 .. Len(b) : b[j].op = "pointer"
      BY <3>1 DEF PointerFollows
    <3> QED BY <1>1, <3>1, <3>2
  <2>2. ASSUME c.ptr = "CONFIG" PROVE \E j \in 1 .. Len(a) : a[j].op = "pointer"
    <3>1. PICK j \in 1 .. Len(b) : b[j].op = "pointer"
      BY <2>2 DEF PointerFollows
    <3> QED BY <1>1, <3>1
  <2> QED BY <2>1, <2>2 DEF PointerFollows
<1> QED BY <1>2, <1>3, <1>4 DEF a

\* A pointer that is pushed follows every config.
LEMMA AdsPointerPushed ==
  ASSUME NEW b \in Seq(AdsReq), NEW c
  PROVE  PointerFollows(Append(b, [op |-> "pointer"]), c)
<1> DEFINE r == [op |-> "pointer"]
           a == Append(b, r)
<1>1. /\ Len(b) \in Nat /\ Len(a) = Len(b) + 1 /\ a[Len(b) + 1] = r /\ r.op = "pointer"
      /\ \A k \in 1 .. Len(b) : a[k] = b[k]
  OBVIOUS
<1> HIDE DEF a, r
<1>2. ASSUME NEW k \in 1 .. Len(a), a[k].op = "write"
      PROVE  \E j \in k + 1 .. Len(a) : a[j].op = "pointer"
  <2>1. k # Len(a)
    BY <1>1, <1>2
  <2>2. Len(a) \in k + 1 .. Len(a) /\ a[Len(a)].op = "pointer"
    BY <1>1, <1>2, <2>1
  <2> QED BY <2>2
<1>3. Len(a) \in 1 .. Len(a) /\ a[Len(a)].op = "pointer"
  BY <1>1
<1> QED BY <1>2, <1>3 DEF PointerFollows, a, r

\* A config that is pushed is the last one.
LEMMA AdsConfigPushed ==
  ASSUME NEW b \in Seq(AdsReq), NEW c, NEW e \in AdsRanges
  PROVE  /\ Append(b, [op |-> "write", range |-> e]) \in Seq(AdsReq)
         /\ LastConfig(Append(b, [op |-> "write", range |-> e]), c, e)
<1> DEFINE r == [op |-> "write", range |-> e]
           a == Append(b, r)
<1>1. /\ Len(b) \in Nat /\ Len(a) = Len(b) + 1 /\ a[Len(b) + 1] = r
      /\ \A k \in 1 .. Len(b) : a[k] = b[k]
  OBVIOUS
<1>2. a \in Seq(AdsReq) /\ r.op = "write" /\ r.range = e
  BY DEF AdsReq
<1> HIDE DEF a, r
<1>3. Len(a) \in 1 .. Len(a) /\ a[Len(a)].op = "write" /\ a[Len(a)].range = e
  BY <1>1, <1>2
<1>4. ASSUME NEW k \in 1 .. Len(a), \A j \in k + 1 .. Len(a) : a[j].op # "write"
      PROVE  a[k].range = e
  <2>1. k = Len(a)
    BY <1>1, <1>3, <1>4
  <2> QED BY <1>3, <2>1
<1> QED BY <1>2, <1>3, <1>4 DEF LastConfig, a, r

\* A request that is transferred, and what it makes of the chip.
LEMMA AdsTransferred ==
  ASSUME NEW b \in Seq(AdsReq), b # << >>, NEW c, NEW d, NEW e,
         Head(b).op = "write" => d.ptr = "CONFIG" /\ d.range = Head(b).range,
         Head(b).op = "pointer" => d.ptr = "CONVERSION" /\ d.range = c.range,
         Head(b).op = "read" => d = c
  PROVE  /\ Tail(b) \in Seq(AdsReq)
         /\ LastConfig(b, c, e) => LastConfig(Tail(b), d, e)
         /\ PointerFollows(b, c) => PointerFollows(Tail(b), d)
<1> DEFINE t == Tail(b)
<1>1. /\ t \in Seq(AdsReq) /\ Len(b) \in Nat /\ Len(b) > 0 /\ Len(t) = Len(b) - 1
      /\ b[1] = Head(b)
      /\ \A k \in 1 .. Len(t) : t[k] = b[k + 1]
  BY EmptySeq
<1>2. /\ Head(b) \in AdsReq
      /\ Head(b).op \in {"write", "pointer", "read"}
  BY <1>1 DEF AdsReq
<1> HIDE DEF t
<1>3. LastConfig(b, c, e) => LastConfig(t, d, e)
  <2> SUFFICES ASSUME LastConfig(b, c, e) PROVE LastConfig(t, d, e)
    OBVIOUS
  <2>1. ASSUME NEW k \in 1 .. Len(t), t[k].op = "write",
               \A j \in k + 1 .. Len(t) : t[j].op # "write"
        PROVE  t[k].range = e
    <3>1. k + 1 \in 1 .. Len(b) /\ t[k] = b[k + 1]
      BY <1>1, <2>1
    <3>2. ASSUME NEW j \in k + 2 .. Len(b) PROVE b[j].op # "write"
      <4>1. j - 1 \in k + 1 .. Len(t) /\ j - 1 \in 1 .. Len(t) /\ (j - 1) + 1 = j
        BY <1>1, <2>1, <3>2
      <4>2. t[j - 1] = b[(j - 1) + 1] /\ t[j - 1].op # "write"
        BY <1>1, <2>1, <4>1
      <4> QED BY <4>1, <4>2
    <3>3. (k + 1) + 1 = k + 2
      BY <2>1
    <3>4. \A j \in (k + 1) + 1 .. Len(b) : b[j].op # "write"
      BY <3>2, <3>3
    <3> QED BY <2>1, <3>1, <3>4 DEF LastConfig
  <2>2. ASSUME \A k \in 1 .. Len(t) : t[k].op # "write" PROVE d.range = e
    <3>1. ASSUME NEW j \in 2 .. Len(b) PROVE b[j].op # "write"
      <4>1. j - 1 \in 1 .. Len(t) /\ (j - 1) + 1 = j
        BY <1>1, <3>1
      <4>2. t[j - 1] = b[(j - 1) + 1] /\ t[j - 1].op # "write"
        BY <1>1, <2>2, <4>1
      <4> QED BY <4>1, <4>2
    <3>2. CASE Head(b).op = "write"
      <4>1. 1 \in 1 .. Len(b) /\ b[1].op = "write" /\ \A j \in 1 + 1 .. Len(b) : b[j].op # "write"
        BY <1>1, <3>1, <3>2
      <4>2. b[1].range = e
        BY <4>1 DEF LastConfig
      <4> QED BY <1>1, <3>2, <4>2
    <3>3. CASE Head(b).op # "write"
      <4>1. \A k \in 1 .. Len(b) : b[k].op # "write"
        BY <1>1, <3>1, <3>3
      <4>2. c.range = e
        BY <4>1 DEF LastConfig
      <4> QED BY <1>2, <3>3, <4>2
    <3> QED BY <3>2, <3>3
  <2> QED BY <2>1, <2>2 DEF LastConfig
<1>4. PointerFollows(b, c) => PointerFollows(t, d)
  <2> SUFFICES ASSUME PointerFollows(b, c) PROVE PointerFollows(t, d)
    OBVIOUS
  <2>1. ASSUME NEW k \in 1 .. Len(t), t[k].op = "write"
        PROVE  \E j \in k + 1 .. Len(t) : t[j].op = "pointer"
    <3>1. k + 1 \in 1 .. Len(b) /\ b[k + 1].op = "write"
      BY <1>1, <2>1
    <3>2. PICK j \in (k + 1) + 1 .. Len(b) : b[j].op = "pointer"
      BY <3>1 DEF PointerFollows
    <3>3. j - 1 \in k + 1 .. Len(t) /\ j - 1 \in 1 .. Len(t) /\ (j - 1) + 1 = j
      BY <1>1, <2>1, <3>2
    <3>4. t[j - 1] = b[j]
      BY <1>1, <3>3
    <3> QED BY <3>2, <3>3, <3>4
  <2>2. ASSUME d.ptr = "CONFIG" PROVE \E j \in 1 .. Len(t) : t[j].op = "pointer"
    <3>1. PICK j \in 2 .. Len(b) : b[j].op = "pointer"
      <4>1. CASE Head(b).op = "write"
        <5>1. 1 \in 1 .. Len(b) /\ b[1].op = "write"
          BY <1>1, <4>1
        <5>2. \E j \in 1 + 1 .. Len(b) : b[j].op = "pointer"
          BY <5>1 DEF PointerFollows
        <5> QED BY <5>2
      <4>2. CASE Head(b).op = "read"
        <5>1. \E j \in 1 .. Len(b) : b[j].op = "pointer"
          BY <2>2, <4>2 DEF PointerFollows
        <5> QED BY <1>1, <4>2, <5>1
      <4> QED BY <1>2, <2>2, <4>1, <4>2
    <3>2. j - 1 \in 1 .. Len(t) /\ (j - 1) + 1 = j
      BY <1>1, <3>1
    <3>3. t[j - 1] = b[j]
      BY <1>1, <3>2
    <3> QED BY <3>1, <3>2, <3>3
  <2> QED BY <2>1, <2>2 DEF PointerFollows
<1> QED BY <1>1, <1>3, <1>4 DEF t

LEMMA AdsStart == Ads!Init => AdsInv
  BY DEF Ads!Init, AdsInv, AdsTypeOK, LastConfig, PointerFollows

LEMMA AdsNext == ASSUME AdsInv, [Ads!Next]_(Ads!vars) PROVE AdsInv'
<1> USE DEF AdsInv
<1>1. ASSUME NEW r \in AdsRanges, Ads!updateConfig(r) PROVE AdsInv'
  <2>1. CASE Ads!Fits
    BY <1>1, <2>1, AdsConfigPushed DEF Ads!updateConfig, Ads!trypush, AdsTypeOK
  <2>2. CASE ~Ads!Fits
    BY <1>1, <2>2 DEF Ads!updateConfig, Ads!trypush, AdsTypeOK
  <2> QED BY <2>1, <2>2
<1>2. CASE Ads!setPointer
  <2>1. CASE Ads!Fits
    <3>1. dBus' = Append(dBus, [op |-> "pointer"]) /\ UNCHANGED <<dChip, dEFullScale, dTaken>> /\ dPc' = "idle"
      BY <1>2, <2>1 DEF Ads!setPointer, Ads!trypush
    <3>2. PointerFollows(dBus', dChip)
      BY <3>1, AdsPointerPushed DEF AdsTypeOK
    <3>3. dBus' \in Seq(AdsReq) /\ (LastConfig(dBus, dChip, dEFullScale) => LastConfig(dBus', dChip, dEFullScale))
      BY <3>1, AdsPushed DEF AdsTypeOK
    <3> QED BY <3>1, <3>2, <3>3 DEF AdsTypeOK
  <2>2. CASE ~Ads!Fits
    BY <1>2, <2>2 DEF Ads!setPointer, Ads!trypush, AdsTypeOK
  <2> QED BY <2>1, <2>2
<1>3. CASE Ads!measure
  <2>1. UNCHANGED <<dChip, dEFullScale, dTaken, dPointed, dPc>>
    BY <1>3 DEF Ads!measure
  <2>2. CASE Ads!Fits
    <3>1. dBus' = Append(dBus, [op |-> "read"])
      BY <1>3, <2>2 DEF Ads!measure, Ads!trypush
    <3> QED BY <2>1, <3>1, AdsPushed DEF AdsTypeOK
  <2>3. CASE ~Ads!Fits
    <3>1. dBus' = dBus
      BY <1>3, <2>3 DEF Ads!measure, Ads!trypush
    <3> QED BY <2>1, <3>1 DEF AdsTypeOK
  <2> QED BY <2>2, <2>3
<1>4. CASE Ads!Written \/ Ads!Pointed \/ Ads!callback
  <2>1. /\ dBus # << >> /\ dBus' = Tail(dBus) /\ UNCHANGED <<dEFullScale, dTaken, dPointed, dPc>>
        /\ Head(dBus).op \in {"write", "pointer", "read"}
    BY <1>4 DEF Ads!Written, Ads!Pointed, Ads!callback
  <2>2. /\ Head(dBus).op = "write" => dChip' = [ptr |-> "CONFIG", range |-> Head(dBus).range]
        /\ Head(dBus).op = "pointer" => dChip' = [dChip EXCEPT !.ptr = "CONVERSION"]
        /\ Head(dBus).op = "read" => dChip' = dChip
    BY <1>4 DEF Ads!Written, Ads!Pointed, Ads!callback
  <2>3. /\ Head(dBus).op = "write" => dChip'.ptr = "CONFIG" /\ dChip'.range = Head(dBus).range
        /\ Head(dBus).op = "pointer" => dChip'.ptr = "CONVERSION" /\ dChip'.range = dChip.range
        /\ Head(dBus).op = "read" => dChip' = dChip
    BY <2>1, <2>2 DEF AdsTypeOK
  <2>4. /\ Tail(dBus) \in Seq(AdsReq)
        /\ LastConfig(dBus, dChip, dEFullScale) => LastConfig(Tail(dBus), dChip', dEFullScale)
        /\ PointerFollows(dBus, dChip) => PointerFollows(Tail(dBus), dChip')
    BY <2>1, <2>3, AdsTransferred DEF AdsTypeOK
  <2>5. dChip' \in [ptr : {"CONVERSION", "CONFIG"}, range : AdsRanges]
    <3>1. Head(dBus) \in AdsReq
      BY <2>1, EmptySeq DEF AdsTypeOK
    <3>2. Head(dBus).op = "write" => Head(dBus).range \in AdsRanges
      BY <3>1 DEF AdsReq
    <3> QED BY <2>1, <2>2, <3>2 DEF AdsTypeOK
  <2> QED BY <2>1, <2>4, <2>5 DEF AdsTypeOK
<1>5. CASE UNCHANGED Ads!vars
  BY <1>5 DEF Ads!vars, AdsTypeOK
<1> QED BY <1>1, <1>2, <1>3, <1>4, <1>5 DEF Ads!Next

LEMMA AdsAgrees == ASSUME AdsInv PROVE Ads!Agree
<1>1. /\ Len(dBus) \in Nat /\ DOMAIN dBus = 1 .. Len(dBus)
      /\ dChip.ptr \in {"CONVERSION", "CONFIG"}
  BY DEF AdsInv, AdsTypeOK
<1>2. dTaken /\ ~Ads!Waits("write") => dChip.range = dEFullScale
  BY <1>1 DEF AdsInv, LastConfig, Ads!Waits
<1>3. dPc = "idle" /\ dPointed /\ ~Ads!Waits("pointer") => dChip.ptr = "CONVERSION"
  BY <1>1 DEF AdsInv, PointerFollows, Ads!Waits
<1> QED BY <1>2, <1>3, Zenon DEF Ads!Agree

-----------------------------------------------------------------------------
(* MAX31865                                                                *)

RtdReq == {"rtd", "all", "status", "thr", "config"}

RtdTypeOK == /\ mBus \in Seq(RtdReq)
             /\ mPc \in {"idle", "value", "loaded", "stored", "config", "discarded"}
             /\ mData \in [rtd : Int, bit : BOOLEAN, fault : SUBSET RtdFaults]
             /\ mWord \in [value : Int, faults : SUBSET RtdFaults]
             /\ mLatch \in SUBSET RtdFaults
             /\ mReg \in Int /\ mTold \in BOOLEAN /\ mTorn \in BOOLEAN /\ mAlone \in BOOLEAN

\* A config that waits in the bus b comes right after a read of the faults; when it
\* is the first to wait, no faults are owed.
ConfigAfterStatus(b, owed) ==
  \A k \in 1 .. Len(b) :
    b[k] = "config" => IF k = 1 THEN owed = {} ELSE b[k - 1] = "status"

\* The same of a config that is about to be pushed.
StatusLast(b, owed) == IF b = << >> THEN owed = {} ELSE b[Len(b)] = "status"

\* The inductive invariant: what clearFaults() is about to store is what it has
\* told, unless a reading came since; the faults owed are still those of the chip,
\* and each config waits behind the request that reads them, unless one was pushed
\* alone.
RtdInv ==
  /\ RtdTypeOK
  /\ mTorn \/ /\ mWord.faults # {} => mTold \/ mData.bit
              /\ mWord.value < RtdHalf => mData.rtd = mWord.value
              /\ mPc = "loaded" => mTold /\ mReg = mData.rtd
  /\ ~mAlone => /\ mLost = {} /\ mOwed \subseteq mLatch
                /\ ConfigAfterStatus(mBus, mOwed)
                /\ mPc = "config" => StatusLast(mBus, mOwed)

LEMMA RtdPushed ==
  ASSUME NEW b \in Seq(RtdReq), NEW r \in RtdReq, NEW owed,
         ConfigAfterStatus(b, owed), r = "config" => StatusLast(b, owed)
  PROVE  /\ Append(b, r) \in Seq(RtdReq) /\ ConfigAfterStatus(Append(b, r), owed)
         /\ r = "status" => StatusLast(Append(b, r), owed)
<1> DEFINE a == Append(b, r)
<1>1. /\ Len(b) \in Nat /\ Len(a) = Len(b) + 1 /\ a[Len(a)] = r /\ a \in Seq(RtdReq) /\ a # << >>
      /\ \A k \in 1 .. Len(b) : a[k] = b[k]
      /\ b = << >> <=> Len(b) = 0
  BY EmptySeq
<1> HIDE DEF a
<1>2. ASSUME NEW k \in 1 .. Len(a), a[k] = "config"
      PROVE  IF k = 1 THEN owed = {} ELSE a[k - 1] = "status"
  <2>1. CASE k \in 1 .. Len(b)
    <3>1. a[k] = b[k] /\ (k # 1 => k - 1 \in 1 .. Len(b))
      BY <1>1, <2>1
    <3> QED BY <1>1, <1>2, <2>1, <3>1 DEF ConfigAfterStatus
  <2>2. CASE k = Len(a)
    <3>1. StatusLast(b, owed)
      BY <1>1, <1>2, <2>2
    <3>2. CASE b = << >>
      BY <1>1, <2>2, <3>1, <3>2 DEF StatusLast
    <3>3. CASE b # << >>
      <4>1. k # 1 /\ k - 1 = Len(b) /\ Len(b) \in 1 .. Len(b)
        BY <1>1, <2>2, <3>3
      <4>2. a[Len(b)] = b[Len(b)]
        BY <1>1, <4>1
      <4> QED BY <3>1, <3>3, <4>1, <4>2 DEF StatusLast
    <3> QED BY <3>2, <3>3
  <2> QED BY <1>1, <1>2, <2>1, <2>2
<1> QED BY <1>1, <1>2 DEF ConfigAfterStatus, StatusLast, a

\* The first request is transferred; `more` is what is owed then.
LEMMA RtdTransferred ==
  ASSUME NEW b \in Seq(RtdReq), b # << >>, NEW owed, NEW more,
         ConfigAfterStatus(b, owed), Head(b) = "status" => more = {}
  PROVE  /\ Tail(b) \in Seq(RtdReq) /\ ConfigAfterStatus(Tail(b), more)
         /\ StatusLast(b, owed) => StatusLast(Tail(b), more)
         /\ Head(b) = "config" => owed = {}
<1> DEFINE t == Tail(b)
<1>1. /\ t \in Seq(RtdReq) /\ Len(b) \in Nat /\ Len(b) > 0 /\ Len(t) = Len(b) - 1
      /\ b[1] = Head(b) /\ 1 \in 1 .. Len(b)
      /\ \A k \in 1 .. Len(t) : t[k] = b[k + 1]
      /\ t = << >> <=> Len(t) = 0
  <2>1. /\ t \in Seq(RtdReq) /\ Len(b) \in Nat /\ Len(b) > 0 /\ Len(t) = Len(b) - 1
        /\ b[1] = Head(b) /\ \A k \in 1 .. Len(t) : t[k] = b[k + 1]
    BY EmptySeq
  <2> HIDE DEF t
  <2>2. t = << >> <=> Len(t) = 0
    BY <2>1, EmptySeq
  <2> QED BY <2>1, <2>2
<1> HIDE DEF t
<1>2. ASSUME NEW k \in 1 .. Len(t), t[k] = "config"
      PROVE  IF k = 1 THEN more = {} ELSE t[k - 1] = "status"
  <2>1. k + 1 \in 1 .. Len(b) /\ b[k + 1] = "config" /\ k + 1 # 1 /\ (k + 1) - 1 = k
    BY <1>1, <1>2
  <2>2. b[k] = "status"
    BY <2>1 DEF ConfigAfterStatus
  <2>3. CASE k = 1
    BY <1>1, <2>2, <2>3
  <2>4. CASE k # 1
    <3>1. k - 1 \in 1 .. Len(t) /\ (k - 1) + 1 = k
      BY <1>1, <2>4
    <3>2. t[k - 1] = b[(k - 1) + 1]
      BY <1>1, <3>1
    <3> QED BY <2>2, <2>4, <3>1, <3>2
  <2> QED BY <2>3, <2>4
<1>3. ASSUME StatusLast(b, owed) PROVE StatusLast(t, more)
  <2>1. b[Len(b)] = "status"
    BY <1>3 DEF StatusLast
  <2>2. CASE t = << >>
    <3>1. Len(b) = 1
      BY <1>1, <2>2
    <3>2. Head(b) = "status"
      BY <1>1, <2>1, <3>1
    <3> QED BY <2>2, <3>2 DEF StatusLast
  <2>3. CASE t # << >>
    <3>1. Len(t) \in 1 .. Len(t) /\ Len(t) + 1 = Len(b)
      BY <1>1, <2>3
    <3>2. t[Len(t)] = b[Len(t) + 1]
      BY <1>1, <3>1
    <3> QED BY <2>1, <2>3, <3>1, <3>2 DEF StatusLast
  <2> QED BY <2>2, <2>3
<1>4. Head(b) = "config" => owed = {}
  BY <1>1 DEF ConfigAfterStatus
<1> QED BY <1>1, <1>2, <1>3, <1>4 DEF ConfigAfterStatus, t

\* A resistance below half of the reference resistor has its sign.
LEMMA RtdSigned ==
  ASSUME NEW f \in SUBSET RtdFaults, NEW w \in Max!Words(f)
  PROVE  /\ w \in [value : Int, faults : SUBSET RtdFaults] /\ w.faults = f
         /\ Max!Signed(w.value) \in Int /\ (w.value < RtdHalf => Max!Signed(w.value) = w.value)
<1>1. w.value \in Int /\ w.faults = f /\ w = [value |-> w.value, faults |-> f]
  BY DataAssumption DEF Max!Words
<1> QED BY <1>1, DataAssumption DEF Max!Signed

LEMMA RtdStart == Max!Init => RtdInv
<1> SUFFICES ASSUME Max!Init PROVE RtdInv
  OBVIOUS
<1>1. /\ mLatch \in SUBSET RtdFaults /\ mWord \in Max!Words(mLatch)
      /\ mData = [rtd |-> Max!Signed(mWord.value), bit |-> mLatch # {}, fault |-> mLatch]
      /\ mBus = << >> /\ mPc = "idle" /\ mOwed = {} /\ mLost = {}
      /\ mReg = 0 /\ mTold = FALSE /\ mTorn = FALSE /\ mAlone = FALSE
  BY DEF Max!Init
<1>2. /\ mWord \in [value : Int, faults : SUBSET RtdFaults] /\ mWord.faults = mLatch
      /\ Max!Signed(mWord.value) \in Int
      /\ mWord.value < RtdHalf => Max!Signed(mWord.value) = mWord.value
  BY <1>1, RtdSigned
<1>3. mData.bit = (mLatch # {}) /\ mData.rtd = Max!Signed(mWord.value)
  BY <1>1
<1>4. mBus \in Seq(RtdReq) /\ Len(mBus) = 0
  BY <1>1
<1>5. RtdTypeOK
  <2>1. mData \in [rtd : Int, bit : BOOLEAN, fault : SUBSET RtdFaults]
    <3>1. \A v \in Int, t \in BOOLEAN, f \in SUBSET RtdFaults :
            [rtd |-> v, bit |-> t, fault |-> f]
              \in [rtd : Int, bit : BOOLEAN, fault : SUBSET RtdFaults]
      OBVIOUS
    <3>2. (mLatch # {}) \in BOOLEAN
      OBVIOUS
    <3> QED BY <1>1, <1>2, <3>1, <3>2
  <2>2. mPc \in {"idle", "value", "loaded", "stored", "config", "discarded"}
    BY <1>1
  <2>3. mReg \in Int /\ mTold \in BOOLEAN /\ mTorn \in BOOLEAN /\ mAlone \in BOOLEAN
    <3>1. mReg = 0
      BY <1>1
    <3>2. mReg \in Int
      BY <3>1
    <3>3. mTold = FALSE /\ mTorn = FALSE /\ mAlone = FALSE
      BY <1>1
    <3>4. mTold \in BOOLEAN /\ mTorn \in BOOLEAN /\ mAlone \in BOOLEAN
      BY <3>3
    <3> QED BY <3>2, <3>4
  <2>4. mLatch \in SUBSET RtdFaults
    BY <1>1
  <2> QED BY <1>2, <1>4, <2>1, <2>2, <2>3, <2>4 DEF RtdTypeOK
<1>6. ConfigAfterStatus(mBus, mOwed)
  BY <1>4 DEF ConfigAfterStatus
<1>7. mWord.faults # {} => mTold \/ mData.bit
  BY <1>2, <1>3
<1> QED BY <1>1, <1>2, <1>3, <1>5, <1>6, <1>7 DEF RtdInv

\* An answer changes nothing of the driver's next requests.
LEMMA RtdAnswered ==
  ASSUME RtdInv, NEW r \in RtdReq, Max!Transferred(r), UNCHANGED <<mPc, mAlone>>,
         r = "status" => mOwed' = {} \/ mAlone
  PROVE  /\ mBus' \in Seq(RtdReq)
         /\ ~mAlone => /\ ConfigAfterStatus(mBus', mOwed')
                       /\ mPc' = "config" => StatusLast(mBus', mOwed')
                       /\ r = "config" => mOwed = {}
<1>1. mBus # << >> /\ Head(mBus) = r /\ mBus' = Tail(mBus) /\ mBus \in Seq(RtdReq)
  BY DEF Max!Transferred, RtdInv, RtdTypeOK
<1>2. Tail(mBus) \in Seq(RtdReq)
  BY <1>1, EmptySeq
<1>3. CASE ~mAlone
  <2>1. ConfigAfterStatus(mBus, mOwed) /\ (Head(mBus) = "status" => mOwed' = {})
    BY <1>1, <1>3 DEF RtdInv
  <2>2. /\ ConfigAfterStatus(Tail(mBus), mOwed')
        /\ StatusLast(mBus, mOwed) => StatusLast(Tail(mBus), mOwed')
        /\ Head(mBus) = "config" => mOwed = {}
    BY <1>1, <2>1, RtdTransferred
  <2> QED BY <1>1, <1>2, <1>3, <2>2 DEF RtdInv
<1> QED BY <1>1, <1>2, <1>3

LEMMA RtdNext == ASSUME RtdInv, [Max!Next]_(Max!vars) PROVE RtdInv'
<1>1. ASSUME NEW r \in {"rtd", "all", "status", "thr"}, Max!Ask(r) PROVE RtdInv'
  <2>1. /\ mPc = "idle" /\ mBus' \in {mBus, Append(mBus, r)}
        /\ UNCHANGED <<mData, mLatch, mPc, mReg, mWord, mTold, mTorn, mAlone, mOwed, mLost>>
    BY <1>1 DEF Max!Ask, Max!trypush
  <2>2. mBus' \in Seq(RtdReq) /\ (~mAlone => ConfigAfterStatus(mBus', mOwed))
    <3>1. mBus \in Seq(RtdReq) /\ r \in RtdReq /\ r # "config"
      BY DEF RtdInv, RtdTypeOK, RtdReq
    <3>2. Append(mBus, r) \in Seq(RtdReq)
      BY <3>1
    <3>3. ConfigAfterStatus(mBus, mOwed) => ConfigAfterStatus(Append(mBus, r), mOwed)
      BY <3>1, RtdPushed
    <3> QED BY <2>1, <3>1, <3>2, <3>3 DEF RtdInv
  <2> QED BY <2>1, <2>2 DEF RtdInv, RtdTypeOK
<1>2. CASE Max!temp \/ Max!nonlin
  BY <1>2 DEF Max!temp, Max!nonlin, RtdInv, RtdTypeOK
<1>3. CASE Max!clearFaults
  <2>1. /\ mPc' = "loaded" /\ mReg' = mData.rtd /\ mTold' = TRUE
        /\ UNCHANGED <<mData, mBus, mLatch, mWord, mTorn, mAlone, mOwed, mLost>>
    BY <1>3 DEF Max!clearFaults
  <2>2. mData.rtd \in Int
    BY DEF RtdInv, RtdTypeOK
  <2> QED BY <2>1, <2>2 DEF RtdInv, RtdTypeOK
<1>11. CASE Max!clearBit
  <2>1. /\ mPc = "loaded" /\ mPc' = "stored" /\ mData' = [mData EXCEPT !.rtd = mReg, !.bit = FALSE]
        /\ UNCHANGED <<mBus, mLatch, mReg, mWord, mTold, mTorn, mAlone, mOwed, mLost>>
    BY <1>11 DEF Max!clearBit
  <2>2. mData \in [rtd : Int, bit : BOOLEAN, fault : SUBSET RtdFaults] /\ mReg \in Int
    BY DEF RtdInv, RtdTypeOK
  <2>3. mData' \in [rtd : Int, bit : BOOLEAN, fault : SUBSET RtdFaults] /\ mData'.rtd = mReg
    BY <2>1, <2>2
  <2>4. RtdTypeOK'
    BY <2>1, <2>3 DEF RtdInv, RtdTypeOK
  <2>5. mTorn \/ (mTold /\ mReg = mData.rtd)
    BY <2>1 DEF RtdInv
  <2> QED BY <2>1, <2>3, <2>4, <2>5 DEF RtdInv
<1>12. CASE Max!readStatus
  <2>1. /\ mPc = "stored"
        /\ UNCHANGED <<mData, mLatch, mReg, mWord, mTold, mTorn, mAlone, mOwed, mLost>>
        /\ \/ mBus' = Append(mBus, "status") /\ mPc' = "config"
           \/ mBus' = mBus /\ mPc' = "discarded"
    BY <1>12 DEF Max!readStatus, Max!trypush
  <2>2. RtdTypeOK'
    <3>1. mBus' \in Seq(RtdReq)
      BY <2>1, SMTT(60) DEF RtdInv, RtdTypeOK, RtdReq
    <3> QED BY <2>1, <3>1 DEF RtdInv, RtdTypeOK
  <2>3. ~mAlone => ConfigAfterStatus(mBus', mOwed) /\ (mPc' = "config" => StatusLast(mBus', mOwed))
    BY <2>1, RtdPushed, ZenonT(60) DEF RtdInv, RtdTypeOK, RtdReq
  <2>4. mPc' # "loaded"
    BY <2>1
  <2> QED BY <2>1, <2>2, <2>3, <2>4 DEF RtdInv
<1>4. CASE Max!setConfig
  <2>1. /\ mPc \in {"config", "discarded"} /\ mPc' = "idle"
        /\ UNCHANGED <<mData, mLatch, mReg, mWord, mTold, mTorn, mOwed, mLost>>
        /\ \/ Max!Fits /\ mBus' = Append(mBus, "config")
           \/ ~Max!Fits /\ mBus' = mBus
        /\ mAlone' = (mAlone \/ (mPc = "discarded" /\ Max!Fits))
    BY <1>4 DEF Max!setConfig, Max!trypush
  <2>2. RtdTypeOK'
    <3>1. mBus' \in Seq(RtdReq) /\ mAlone' \in BOOLEAN
      BY <2>1 DEF RtdInv, RtdTypeOK, RtdReq
    <3> QED BY <2>1, <3>1 DEF RtdInv, RtdTypeOK
  <2>3. ASSUME ~mAlone' PROVE ConfigAfterStatus(mBus', mOwed)
    <3>1. ~mAlone /\ ConfigAfterStatus(mBus, mOwed)
      BY <2>1, <2>3 DEF RtdInv
    <3>2. CASE mBus' = mBus
      BY <3>1, <3>2
    <3>3. CASE Max!Fits /\ mBus' = Append(mBus, "config")
      <4>1. mPc = "config" /\ StatusLast(mBus, mOwed)
        BY <2>1, <2>3, <3>1, <3>3 DEF RtdInv, RtdTypeOK
      <4> QED BY <3>1, <3>3, <4>1, RtdPushed DEF RtdInv, RtdTypeOK, RtdReq
    <3> QED BY <2>1, <3>2, <3>3
  <2>4. ~mAlone' => ~mAlone
    BY <2>1
  <2> QED BY <2>1, <2>2, <2>3, <2>4 DEF RtdInv
<1>5. ASSUME NEW f \in RtdFaults, Max!Fault(f) PROVE RtdInv'
  BY <1>5 DEF Max!Fault, RtdInv, RtdTypeOK
<1>6. ASSUME NEW w \in Max!Words(mLatch), Max!gotRtd(w) \/ Max!gotAll(w) PROVE RtdInv'
  <2>1. \E r \in RtdReq : r # "status" /\ Max!Transferred(r)
    BY <1>6 DEF Max!gotRtd, Max!gotAll, RtdReq
  <2>2. /\ UNCHANGED <<mLatch, mPc, mAlone, mLost>> /\ mWord' = w /\ mOwed' \in {w.faults, {}}
        /\ \/ mData' = [mData EXCEPT !.rtd = Max!Signed(w.value), !.bit = w.faults # {}]
           \/ mData' = [rtd |-> Max!Signed(w.value), bit |-> w.faults # {}, fault |-> mLatch]
        /\ mTold' = FALSE /\ mTorn' = (mPc = "loaded") /\ mReg' = mReg
    BY <1>6 DEF Max!gotRtd, Max!gotAll
  <2>3. /\ w \in [value : Int, faults : SUBSET RtdFaults] /\ w.faults = mLatch
        /\ Max!Signed(w.value) \in Int
        /\ w.value < RtdHalf => Max!Signed(w.value) = w.value
    BY RtdSigned DEF RtdInv, RtdTypeOK
  <2>4. /\ mBus' \in Seq(RtdReq)
        /\ ~mAlone => /\ ConfigAfterStatus(mBus', mOwed')
                      /\ mPc' = "config" => StatusLast(mBus', mOwed')
    BY <2>1, <2>2, RtdAnswered
  <2>5. /\ mData' \in [rtd : Int, bit : BOOLEAN, fault : SUBSET RtdFaults]
        /\ mData'.rtd = Max!Signed(w.value) /\ mData'.bit = (w.faults # {})
    <3> DEFINE v == Max!Signed(w.value)
               bit == w.faults # {}
    <3>1. v \in Int /\ bit \in BOOLEAN
      BY <2>3, Zenon
    <3>2. /\ mData \in [rtd : Int, bit : BOOLEAN, fault : SUBSET RtdFaults]
          /\ mLatch \in SUBSET RtdFaults
          /\ \/ mData' = [mData EXCEPT !.rtd = v, !.bit = bit]
             \/ mData' = [rtd |-> v, bit |-> bit, fault |-> mLatch]
      BY <2>2, Zenon DEF RtdInv, RtdTypeOK
    <3> HIDE DEF v, bit
    <3>3. \E g \in SUBSET RtdFaults : mData' = [rtd |-> v, bit |-> bit, fault |-> g]
      <4>1. CASE mData' = [mData EXCEPT !.rtd = v, !.bit = bit]
        <5>1. mData.fault \in SUBSET RtdFaults /\ mData' = [rtd |-> v, bit |-> bit, fault |-> mData.fault]
          BY <3>2, <4>1, Zenon
        <5> QED BY <5>1
      <4>2. CASE mData' = [rtd |-> v, bit |-> bit, fault |-> mLatch]
        BY <3>2, <4>2
      <4> QED BY <3>2, <4>1, <4>2
    <3>4. mData' \in [rtd : Int, bit : BOOLEAN, fault : SUBSET RtdFaults] /\ mData'.rtd = v /\ mData'.bit = bit
      <4>1. PICK g \in SUBSET RtdFaults : mData' = [rtd |-> v, bit |-> bit, fault |-> g]
        BY <3>3
      <4>2. mData' \in [rtd : Int, bit : BOOLEAN, fault : SUBSET RtdFaults]
        BY <3>1, <4>1, SMT
      <4>3. mData'.rtd = v
        BY <4>1, Zenon
      <4>4. mData'.bit = bit
        BY <4>1, Zenon
      <4> QED BY <4>2, <4>3, <4>4
    <3> QED BY <3>4, Zenon DEF v, bit
  <2>6. RtdTypeOK'
    BY <2>2, <2>3, <2>4, <2>5 DEF RtdInv, RtdTypeOK
  <2>7. mWord'.faults # {} => mTold' \/ mData'.bit
    BY <2>2, <2>5
  <2> QED BY <2>2, <2>3, <2>4, <2>5, <2>6, <2>7 DEF RtdInv
<1>7. CASE Max!gotStatus
  <2>1. /\ Max!Transferred("status") /\ mData' = [mData EXCEPT !.fault = mLatch] /\ mOwed' = mOwed \ mLatch
        /\ UNCHANGED <<mLatch, mPc, mReg, mWord, mTold, mTorn, mAlone, mLost>>
    BY <1>7 DEF Max!gotStatus
  <2>2. ~mAlone => mOwed' = {}
    BY <2>1 DEF RtdInv
  <2>3. /\ mBus' \in Seq(RtdReq)
        /\ ~mAlone => /\ ConfigAfterStatus(mBus', mOwed')
                      /\ mPc' = "config" => StatusLast(mBus', mOwed')
    BY <2>1, <2>2, RtdAnswered DEF RtdReq
  <2>4. /\ mData' \in [rtd : Int, bit : BOOLEAN, fault : SUBSET RtdFaults]
        /\ mData'.rtd = mData.rtd /\ mData'.bit = mData.bit
    BY <2>1 DEF RtdInv, RtdTypeOK
  <2> QED BY <2>1, <2>2, <2>3, <2>4 DEF RtdInv, RtdTypeOK
<1>8. CASE Max!wroteThr
  <2>1. Max!Transferred("thr") /\ UNCHANGED <<mData, mLatch, mPc, mReg, mWord, mTold, mTorn, mAlone, mOwed, mLost>>
    BY <1>8 DEF Max!wroteThr
  <2>2. /\ mBus' \in Seq(RtdReq)
        /\ ~mAlone => /\ ConfigAfterStatus(mBus', mOwed')
                      /\ mPc' = "config" => StatusLast(mBus', mOwed')
    BY <2>1, RtdAnswered DEF RtdReq
  <2> QED BY <2>1, <2>2 DEF RtdInv, RtdTypeOK
<1>9. CASE Max!wroteConfig
  <2>1. /\ Max!Transferred("config") /\ mLatch' = {} /\ mLost' = mLost \cup mOwed
        /\ UNCHANGED <<mData, mPc, mReg, mWord, mTold, mTorn, mAlone, mOwed>>
    BY <1>9 DEF Max!wroteConfig
  <2>2. /\ mBus' \in Seq(RtdReq)
        /\ ~mAlone => /\ ConfigAfterStatus(mBus', mOwed')
                      /\ mPc' = "config" => StatusLast(mBus', mOwed')
                      /\ mOwed = {}
    BY <2>1, RtdAnswered DEF RtdReq
  <2> QED BY <2>1, <2>2 DEF RtdInv, RtdTypeOK
<1>10. CASE UNCHANGED Max!vars
  BY <1>10 DEF Max!vars, RtdInv, RtdTypeOK
<1> QED BY <1>1, <1>2, <1>3, <1>4, <1>5, <1>6, <1>7, <1>8, <1>9, <1>10, <1>11, <1>12 DEF Max!Next

\* The drivers of ADS1115 and MAX31865 are right about their chips: what is set is
\* what is measured with, the faults of a reading are told, and no fault gets lost,
\* whatever waits in a bus of any size and whenever it is transferred, but for the
\* requests that the full bus discarded and for a reading that clearFaults()
\* overwrites because it comes between its load and its store.
THEOREM SensorsAlwaysRead == Ads!Spec /\ Max!Spec => []SensorsRead
<1>1. Ads!Init /\ Max!Init => AdsInv /\ RtdInv
  BY AdsStart, RtdStart
<1>2. AdsInv /\ [Ads!Next]_(Ads!vars) => AdsInv'
  BY AdsNext
<1>3. RtdInv /\ [Max!Next]_(Max!vars) => RtdInv'
  BY RtdNext
<1>4. AdsInv /\ RtdInv => SensorsRead
  BY AdsAgrees DEF SensorsRead, RtdInv, Max!Reported
<1> QED BY <1>1, <1>2, <1>3, <1>4, PTL DEF Ads!Spec, Max!Spec

-----------------------------------------------------------------------------
(* Posix                                                                   *)

PxTypeOK ==
  /\ pKind \in {"TTY", "UDP", "CAN"} /\ pPc \in {"out", "write", "done"}
  /\ pTx \in Seq(Nat) /\ pRx \in Seq(Nat) /\ pInbox \in Seq(Nat)
  /\ pWhole \in Seq(Nat) /\ pRead \in Seq(Nat)
  /\ pPushed \in Nat /\ pRoom \in Nat /\ pCame \in Nat
  /\ pMay \in BOOLEAN /\ pOk \in BOOLEAN /\ pMixed \in BOOLEAN

\* A reader that pops what it is told of leaves nothing behind; the CAN socket
\* reads in push() as well.
PxReader ==
  /\ pKind # "CAN" => pOk /\ Len(pRx) = IF pMay THEN 1 ELSE 0
  /\ pMay => pRx # << >>
  /\ pOk => Len(pRx) <= PxQSize
  /\ ~pOk => pKind = "CAN" /\ Len(pRx) = PxQSize + 1

\* The inductive invariant.
PxInv == /\ PxTypeOK /\ PxReader /\ Px!WholeInOrder
         /\ pOk => (pRead \o pRx) \o pInbox = [k \in 1 .. pCame |-> k]

LEMMA PxStart == Px!Init => PxInv
<1> SUFFICES ASSUME Px!Init PROVE PxInv
  OBVIOUS
<1>1. /\ << >> \in Seq(Nat) /\ Len(<< >>) = 0 /\ << >> \o << >> = [k \in 1 .. 0 |-> k]
      /\ (<< >> \o << >>) \o << >> = [k \in 1 .. 0 |-> k]
  OBVIOUS
<1>2. PxTypeOK
  BY <1>1, DataAssumption DEF Px!Init, PxTypeOK
<1>3. PxReader
  BY <1>1, DataAssumption DEF Px!Init, PxReader
<1>4. Px!WholeInOrder
  BY <1>1 DEF Px!Init, Px!WholeInOrder
<1> QED BY <1>1, <1>2, <1>3, <1>4 DEF PxInv, Px!Init

\* What was read, waits, and is to be read, when empty() fetches a message.
LEMMA PxFetched ==
  ASSUME PxInv, pOk, Px!Fetched
  PROVE  /\ pRx' \in Seq(Nat) /\ pInbox' \in Seq(Nat) /\ pOk' \in BOOLEAN
         /\ (pRead \o pRx') \o pInbox' = (pRead \o pRx) \o pInbox
         /\ pInbox = << >> => pRx' = pRx /\ pOk'
         /\ pInbox # << >> => pRx' # << >> /\ Len(pRx') = Len(pRx) + 1 /\ (pOk' <=> Len(pRx) < PxQSize)
<1>1. pRx \in Seq(Nat) /\ pInbox \in Seq(Nat) /\ pRead \in Seq(Nat)
  BY DEF PxInv, PxTypeOK
<1>2. CASE pInbox = << >>
  BY <1>1, <1>2 DEF Px!Fetched
<1>3. CASE pInbox # << >>
  <2> DEFINE h == Head(pInbox)
             t == Tail(pInbox)
             r == pRead \o pRx
  <2>1. h \in Nat /\ t \in Seq(Nat) /\ r \in Seq(Nat)
    BY <1>1, <1>3
  <2>2. /\ pRx' = Append(pRx, h) /\ pInbox' = t
        /\ pOk' \in BOOLEAN /\ (pOk' <=> Len(pRx) < PxQSize)
    BY <1>3, Zenon DEF Px!Fetched
  <2>3. pRead \o Append(pRx, h) = Append(r, h)
    BY <1>1, <2>1, AppendedTail
  <2>4. Append(r, h) \o t = r \o pInbox
    BY <1>1, <1>3, <2>1, MovedHead
  <2> HIDE DEF h, t
  <2>5. Append(pRx, h) \in Seq(Nat) /\ Append(pRx, h) # << >> /\ Len(Append(pRx, h)) = Len(pRx) + 1
    BY <1>1, <2>1, SMTT(60)
  <2>6. (pRead \o pRx') \o pInbox' = (pRead \o pRx) \o pInbox
    BY <2>2, <2>3, <2>4, Zenon
  <2> QED BY <1>3, <2>1, <2>2, <2>5, <2>6
<1> QED BY <1>2, <1>3

\* What the kernel takes: nothing, all or, of a terminal's message, a part.
LEMMA PxAccepted ==
  ASSUME PxTypeOK, NEW m
  PROVE  LET n == Px!Accepted(m)
         IN  /\ n \in Nat /\ n <= pRoom /\ n <= PxSize
             /\ n \notin {0, PxSize} => pKind = "TTY"
<1>1. pRoom \in Nat /\ PxSize \in Nat \ {0}
  BY DataAssumption DEF PxTypeOK
<1>2. CASE ~pPeer
  BY <1>1, <1>2 DEF Px!Accepted
<1>3. CASE pPeer /\ pRoom >= PxSize
  BY <1>1, <1>3 DEF Px!Accepted
<1>4. CASE pPeer /\ pRoom < PxSize
  BY <1>1, <1>4 DEF Px!Accepted
<1> QED BY <1>1, <1>2, <1>3, <1>4

LEMMA PxWritten == ASSUME PxInv, Px!Write PROVE PxInv'
<1> DEFINE n == Px!Accepted(Head(pTx))
<1>1. /\ pTx # << >> /\ pTx' = Px!Written(n) /\ pRoom' = pRoom - n
      /\ pWhole' = IF n = PxSize THEN Append(pWhole, Head(pTx)) ELSE pWhole
      /\ pPart' = CASE n = 0 -> pPart [] n = PxSize -> 0 [] OTHER -> Head(pTx)
      /\ pMixed' = (pMixed \/ (n > 0 /\ pPart \notin {0, Head(pTx)}))
      /\ pPc' \in {"done", "write"}
      /\ UNCHANGED <<pKind, pRx, pPushed, pPeer, pInbox, pCame, pMay, pOk, pRead>>
  BY DEF Px!Write
<1>2. /\ n \in Nat /\ n <= pRoom /\ PxSize \in Nat \ {0}
      /\ n \notin {0, PxSize} => pKind = "TTY"
  BY PxAccepted, DataAssumption DEF PxInv
<1> HIDE DEF n
<1>3. /\ pTx \in Seq(Nat) /\ pWhole \in Seq(Nat) /\ pRoom \in Nat
      /\ pWhole \o pTx = [k \in 1 .. pPushed |-> k]
      /\ pPart # 0 => pKind = "TTY" /\ pPart = Head(pTx)
      /\ ~pMixed
  BY DEF PxInv, PxTypeOK, Px!WholeInOrder
<1>4. /\ Tail(pTx) \in Seq(Nat) /\ Append(pWhole, Head(pTx)) \in Seq(Nat)
      /\ Append(pWhole, Head(pTx)) \o Tail(pTx) = pWhole \o pTx
  BY <1>1, <1>3, NumberedGone
<1>5. /\ pTx' \in Seq(Nat) /\ pWhole' \in Seq(Nat)
      /\ pWhole' \o pTx' = [k \in 1 .. pPushed |-> k]
  <2>1. CASE n = PxSize
    BY <1>1, <1>3, <1>4, <2>1 DEF Px!Written
  <2>2. CASE n # PxSize
    BY <1>1, <1>3, <2>2 DEF Px!Written
  <2> QED BY <2>1, <2>2
<1>6. pPart' # 0 => pKind = "TTY" /\ pTx' # << >> /\ pPart' = Head(pTx')
  <2>1. CASE n = 0
    BY <1>1, <1>2, <1>3, <2>1 DEF Px!Written
  <2>2. CASE n = PxSize
    BY <1>1, <1>2, <2>2
  <2>3. CASE n \notin {0, PxSize}
    BY <1>1, <1>2, <2>3 DEF Px!Written
  <2> QED BY <2>1, <2>2, <2>3
<1>7. pMixed' = FALSE
  BY <1>1, <1>3
<1>8. pRoom' \in Nat
  BY <1>1, <1>2, <1>3
<1>9. PxTypeOK'
  BY <1>1, <1>5, <1>7, <1>8 DEF PxInv, PxTypeOK
<1>10. Px!WholeInOrder'
  BY <1>1, <1>5, <1>6, <1>7 DEF Px!WholeInOrder
<1>11. PxReader'
  BY <1>1 DEF PxInv, PxReader
<1> QED BY <1>1, <1>9, <1>10, <1>11 DEF PxInv

LEMMA PxNext == ASSUME PxInv, [Px!Next]_(Px!vars) PROVE PxInv'
<1>1. CASE Px!Sent
  BY <1>1, DataAssumption DEF Px!Sent, Px!history, PxInv, PxTypeOK, PxReader, Px!WholeInOrder
<1>2. CASE Px!Arrive
  <2>1. /\ pCame' = pCame + 1 /\ pInbox' = Append(pInbox, pCame + 1)
        /\ UNCHANGED <<pKind, pTx, pRx, pPushed, pRoom, pPeer, pMay, pPc, pOk, pWhole, pPart, pMixed, pRead>>
    BY <1>2 DEF Px!Arrive, Px!history
  <2>2. /\ pInbox \in Seq(Nat) /\ pRead \o pRx \in Seq(Nat) /\ pCame \in Nat
    BY DEF PxInv, PxTypeOK
  <2>3. pInbox' \in Seq(Nat) /\ pCame' \in Nat
    BY <2>1, <2>2
  <2>4. pOk => (pRead \o pRx) \o pInbox' = [k \in 1 .. pCame' |-> k]
    BY <2>1, <2>2, NumberedNext DEF PxInv
  <2>5. PxTypeOK' /\ PxReader' /\ Px!WholeInOrder'
    BY <2>1, <2>3 DEF PxInv, PxTypeOK, PxReader, Px!WholeInOrder
  <2> QED BY <2>1, <2>4, <2>5 DEF PxInv
<1>3. CASE Px!Push
  <2>1. /\ pPushed' = pPushed + 1 /\ pTx' = Append(pTx, pPushed + 1) /\ pPc' = "write"
        /\ UNCHANGED <<pKind, pRx, pRoom, pPeer, pInbox, pCame, pMay, pOk, pWhole, pPart, pMixed, pRead>>
    BY <1>3 DEF Px!Push, Px!history
  <2>2. /\ pTx \in Seq(Nat) /\ pWhole \in Seq(Nat) /\ pPushed \in Nat
        /\ pWhole \o pTx = [k \in 1 .. pPushed |-> k]
    BY DEF PxInv, PxTypeOK, Px!WholeInOrder
  <2>3. /\ pTx' \in Seq(Nat) /\ pTx' # << >>
        /\ pWhole \o pTx' = [k \in 1 .. pPushed' |-> k]
        /\ pTx # << >> => Head(pTx') = Head(pTx)
    BY <2>1, <2>2, NumberedNext
  <2>4. PxTypeOK' /\ PxReader'
    BY <2>1, <2>2, <2>3 DEF PxInv, PxTypeOK, PxReader
  <2>5. Px!WholeInOrder'
    BY <2>1, <2>3 DEF PxInv, Px!WholeInOrder
  <2> QED BY <2>1, <2>4, <2>5 DEF PxInv
<1>4. CASE Px!Write
  BY <1>4, PxWritten
<1>5. CASE Px!WroteAll
  BY <1>5 DEF Px!WroteAll, Px!history, PxInv, PxTypeOK, PxReader, Px!WholeInOrder
<1>6. CASE Px!Done
  <2>1. /\ pOk /\ pPc' = "out"
        /\ UNCHANGED <<pKind, pTx, pPushed, pRoom, pPeer, pCame, pMay, pWhole, pPart, pMixed, pRead>>
    BY <1>6 DEF Px!Done, Px!history
  <2>2. CASE pKind = "CAN"
    <3>1. Px!Fetched
      BY <1>6, <2>2 DEF Px!Done
    <3>2. /\ pRx' \in Seq(Nat) /\ pInbox' \in Seq(Nat) /\ pOk' \in BOOLEAN
          /\ (pRead \o pRx') \o pInbox' = (pRead \o pRx) \o pInbox
          /\ pInbox = << >> => pRx' = pRx /\ pOk'
          /\ pInbox # << >> => pRx' # << >> /\ Len(pRx') = Len(pRx) + 1 /\ (pOk' <=> Len(pRx) < PxQSize)
      BY <2>1, <3>1, PxFetched
    <3>3. PxTypeOK' /\ Px!WholeInOrder'
      BY <2>1, <3>2 DEF PxInv, PxTypeOK, Px!WholeInOrder
    <3>4. PxReader'
      <4>1. Len(pRx) \in Nat /\ PxQSize \in Nat
        BY DataAssumption DEF PxInv, PxTypeOK
      <4> QED BY <2>1, <2>2, <3>2, <4>1 DEF PxInv, PxReader
    <3> QED BY <2>1, <3>2, <3>3, <3>4 DEF PxInv
  <2>3. CASE pKind # "CAN"
    <3>1. UNCHANGED <<pRx, pInbox, pOk>>
      BY <1>6, <2>3 DEF Px!Done
    <3> QED BY <2>1, <3>1 DEF PxInv, PxTypeOK, PxReader, Px!WholeInOrder
  <2> QED BY <2>2, <2>3
<1>7. CASE Px!empty
  <2>1. /\ pOk /\ ~pMay /\ Px!Fetched
        /\ pMay' = (pInbox # << >> \/ pRx # << >>)
        /\ UNCHANGED <<pKind, pTx, pPushed, pRoom, pCame, pPc, pWhole, pPart, pMixed, pRead>>
    BY <1>7 DEF Px!empty, Px!history
  <2>2. /\ pRx' \in Seq(Nat) /\ pInbox' \in Seq(Nat) /\ pOk' \in BOOLEAN
        /\ (pRead \o pRx') \o pInbox' = (pRead \o pRx) \o pInbox
        /\ pInbox = << >> => pRx' = pRx /\ pOk'
        /\ pInbox # << >> => pRx' # << >> /\ Len(pRx') = Len(pRx) + 1 /\ (pOk' <=> Len(pRx) < PxQSize)
    BY <2>1, PxFetched
  <2>3. PxTypeOK' /\ Px!WholeInOrder'
    BY <2>1, <2>2 DEF PxInv, PxTypeOK, Px!WholeInOrder
  <2>4. PxReader'
    <3>1. Len(pRx) \in Nat /\ PxQSize \in Nat \ {0} /\ (pRx = << >> <=> Len(pRx) = 0)
      BY EmptySeq, DataAssumption DEF PxInv, PxTypeOK
    <3>2. CASE pInbox = << >>
      BY <2>1, <2>2, <3>1, <3>2 DEF PxInv, PxReader
    <3>3. CASE pInbox # << >>
      <4>1. pRx' # << >> /\ Len(pRx') = Len(pRx) + 1 /\ (pOk' <=> Len(pRx) < PxQSize) /\ pMay'
        BY <2>1, <2>2, <3>3
      <4>2. pKind # "CAN" => Len(pRx) = 0
        BY <2>1 DEF PxInv, PxReader
      <4>3. Len(pRx) <= PxQSize
        BY <2>1 DEF PxInv, PxReader
      <4>4. pKind # "CAN" => pOk' /\ Len(pRx') = 1
        BY <3>1, <4>1, <4>2
      <4>5. IF pOk' THEN Len(pRx') <= PxQSize ELSE Len(pRx') = PxQSize + 1
        BY <3>1, <4>1, <4>3
      <4> QED BY <2>1, <4>1, <4>4, <4>5 DEF PxReader
    <3> QED BY <3>2, <3>3
  <2> QED BY <2>1, <2>2, <2>3, <2>4 DEF PxInv
<1>8. CASE Px!pop
  <2>1. /\ pOk /\ pMay /\ pRead' = Append(pRead, Head(pRx)) /\ pRx' = Tail(pRx) /\ pMay' = FALSE
        /\ UNCHANGED <<pKind, pTx, pPushed, pRoom, pPeer, pInbox, pCame, pPc, pOk, pWhole, pPart, pMixed>>
    BY <1>8 DEF Px!pop
  <2>2. pRx # << >> /\ pRx \in Seq(Nat) /\ pRead \in Seq(Nat)
    BY <2>1 DEF PxInv, PxReader, PxTypeOK
  <2>3. /\ pRx' \in Seq(Nat) /\ pRead' \in Seq(Nat) /\ pRead' \o pRx' = pRead \o pRx
    BY <2>1, <2>2, NumberedGone
  <2>4. Len(pRx') = Len(pRx) - 1 /\ Len(pRx) \in Nat
    BY <2>1, <2>2, EmptySeq
  <2>5. PxTypeOK' /\ Px!WholeInOrder'
    BY <2>1, <2>3 DEF PxInv, PxTypeOK, Px!WholeInOrder
  <2>6. PxReader'
    BY <2>1, <2>4, DataAssumption DEF PxInv, PxReader
  <2> QED BY <2>1, <2>3, <2>5, <2>6 DEF PxInv
<1>9. CASE UNCHANGED Px!vars
  BY <1>9 DEF Px!vars, Px!history, PxInv, PxTypeOK, PxReader, Px!WholeInOrder
<1> QED BY <1>1, <1>2, <1>3, <1>4, <1>5, <1>6, <1>7, <1>8, <1>9 DEF Px!Next

\* The ports of Linux write messages as wholes, in the order pushed, whatever the
\* kernel takes of them at a time, and read what comes in order: for queues of any
\* size, and messages and kernel buffers of any length.
THEOREM PosixAlwaysInOrder == Px!Spec => []PosixInOrder
<1>1. Px!Init => PxInv
  BY PxStart
<1>2. PxInv /\ [Px!Next]_(Px!vars) => PxInv'
  BY PxNext
<1>3. PxInv => PosixInOrder
  BY DEF PxInv, PxReader, PosixInOrder, Px!ReadInOrder
<1> QED BY <1>1, <1>2, <1>3, PTL DEF Px!Spec

-----------------------------------------------------------------------------
(* Streams                                                                 *)

StrTypeOK ==
  /\ sEnv \in {"SplitPull", "Tee", "SplitPush"} /\ sOk \in BOOLEAN
  /\ sFrom \in Seq(Nat) /\ sCame \in Nat
  /\ sEnd \in [Str!Ends -> Seq(Nat)] /\ sGot \in [Str!Ends -> Seq(Nat)]

\* What an end has had, h its buffers and s those of the source: all that came.
AllCame(h, s, n) == h \o s = [k \in 1 .. n |-> k]

\* What the Sink b of a Tee has had, when the reader has had a.
SinkHad(a, b) ==
  /\ \A i, j \in 1 .. Len(b) : i < j => b[i] < b[j]
  /\ \A i \in 1 .. Len(b) : b[i] <= Len(a)
  /\ Len(a) > Len(b) => Len(b) >= StrQSize

\* The inductive invariant: what the Sink of a Tee was given came before what is
\* still in the source; nothing is pulled for a SplitPush.
StrInv ==
  /\ StrTypeOK
  /\ sOk => /\ AllCame(Str!Had("a"), sFrom, sCame)
            /\ sEnv # "Tee" => Str!Had("b") = Str!Had("a")
            /\ \A x \in Str!Ends : Len(sEnd[x]) <= StrQSize
  /\ sEnv = "Tee" => SinkHad(Str!Had("a"), Str!Had("b"))
  /\ sEnv = "SplitPush" => sFrom = << >>
  /\ ~sOk => sEnv = "SplitPull" /\ \E x \in Str!Ends : Str!Full(x)

LEMMA StrMin ==
  ASSUME NEW m \in Int, NEW n \in Int
  PROVE  Str!Min({m, n}) = IF m <= n THEN m ELSE n
<1> DEFINE r == IF m <= n THEN m ELSE n
<1>1. r \in {m, n} /\ \A y \in {m, n} : r <= y
  OBVIOUS
<1>2. \A x \in {m, n} : (\A y \in {m, n} : x <= y) => x = r
  OBVIOUS
<1> HIDE DEF r
<1>3. Str!Min({m, n}) = r
  BY <1>1, <1>2 DEF Str!Min
<1> QED BY <1>3 DEF r

\* Concatenation is associative.
LEMMA StrAssoc ==
  ASSUME NEW g \in Seq(Nat), NEW e \in Seq(Nat), NEW p \in Seq(Nat)
  PROVE  (g \o e) \o p = g \o (e \o p)
BY ConcatAssociative, SMTT(60)

\* What is pushed into an end is appended to what the end has had.
LEMMA StrGrown ==
  ASSUME NEW g \in Seq(Nat), NEW e \in Seq(Nat), NEW p \in Seq(Nat)
  PROVE  /\ g \o e \in Seq(Nat) /\ e \o p \in Seq(Nat)
         /\ g \o (e \o p) = (g \o e) \o p
         /\ Len(g \o e) \in Nat /\ Len(g \o e) >= Len(e)
         /\ Len(e \o p) = Len(e) + Len(p)
<1>1. Len(g) \in Nat /\ Len(e) \in Nat /\ Len(p) \in Nat
  OBVIOUS
<1>2. g \o e \in Seq(Nat) /\ Len(g \o e) = Len(g) + Len(e)
  BY ConcatProperties
<1>3. e \o p \in Seq(Nat) /\ Len(e \o p) = Len(e) + Len(p)
  BY ConcatProperties
<1>4. g \o (e \o p) = (g \o e) \o p
  BY StrAssoc, Zenon
<1> QED BY <1>1, <1>2, <1>3, <1>4

\* The first n buffers of the source, and the rest.
LEMMA StrCut ==
  ASSUME NEW s \in Seq(Nat), NEW n \in 0 .. Len(s)
  PROVE  /\ SubSeq(s, 1, n) \in Seq(Nat) /\ Len(SubSeq(s, 1, n)) = n
         /\ \A i \in 1 .. n : SubSeq(s, 1, n)[i] = s[i]
         /\ SubSeq(s, n + 1, Len(s)) \in Seq(Nat)
         /\ SubSeq(s, 1, n) \o SubSeq(s, n + 1, Len(s)) = s
<1>1. Len(s) \in Nat /\ n \in Int /\ \A i \in 1 .. Len(s) : s[i] \in Nat
  OBVIOUS
<1>2. /\ SubSeq(s, 1, n) \in Seq(Nat)
      /\ Len(SubSeq(s, 1, n)) = IF 1 <= n THEN n - 1 + 1 ELSE 0
      /\ \A i \in 1 .. n - 1 + 1 : SubSeq(s, 1, n)[i] = s[1 + i - 1]
  <2>1. \A i \in 1 .. n : s[i] \in Nat
    BY <1>1
  <2> QED BY <1>1, <2>1, SubSeqProperties
<1>3. SubSeq(s, n + 1, Len(s)) \in Seq(Nat)
  <2>1. \A i \in n + 1 .. Len(s) : s[i] \in Nat
    BY <1>1
  <2> QED BY <1>1, <2>1, SubSeqProperties
<1>4. SubSeq(s, 1, n) \o SubSeq(s, n + 1, Len(s)) = SubSeq(s, 1, Len(s))
  <2>1. 1 \in 1 .. Len(s) + 1 /\ n \in 1 - 1 .. Len(s) /\ Len(s) \in n .. Len(s)
    BY <1>1
  <2> QED BY <2>1, ConcatAdjacentSubSeq
<1>5. SubSeq(s, 1, Len(s)) = s
  BY SubSeqFull
<1>6. Len(SubSeq(s, 1, n)) = n
  BY <1>1, <1>2
<1>7. ASSUME NEW i \in 1 .. n PROVE SubSeq(s, 1, n)[i] = s[i]
  <2>1. i \in 1 .. n - 1 + 1 /\ 1 + i - 1 = i
    BY <1>1
  <2>2. SubSeq(s, 1, n)[i] = s[1 + i - 1]
    BY <1>2, <2>1
  <2> QED BY <2>1, <2>2
<1> QED BY <1>2, <1>3, <1>4, <1>5, <1>6, <1>7

\* What a reader's look moves.
LEMMA StrMoved ==
  ASSUME NEW h \in Seq(Nat), NEW s \in Seq(Nat), NEW n \in 0 .. Len(s), NEW c \in Nat,
         AllCame(h, s, c)
  PROVE  /\ AllCame(h \o SubSeq(s, 1, n), SubSeq(s, n + 1, Len(s)), c)
         /\ \A i \in 1 .. Len(s) : s[i] = Len(h) + i
<1>1. /\ SubSeq(s, 1, n) \in Seq(Nat) /\ SubSeq(s, n + 1, Len(s)) \in Seq(Nat)
      /\ SubSeq(s, 1, n) \o SubSeq(s, n + 1, Len(s)) = s
  BY StrCut
<1>2. (h \o SubSeq(s, 1, n)) \o SubSeq(s, n + 1, Len(s)) = h \o s
  <2>1. (h \o SubSeq(s, 1, n)) \o SubSeq(s, n + 1, Len(s))
          = h \o (SubSeq(s, 1, n) \o SubSeq(s, n + 1, Len(s)))
    BY <1>1, StrAssoc, Zenon
  <2> QED BY <1>1, <2>1, Zenon
<1>3. ASSUME NEW i \in 1 .. Len(s) PROVE s[i] = Len(h) + i
  <2>1. /\ Len(h) \in Nat /\ Len(s) \in Nat /\ Len(h \o s) = Len(h) + Len(s)
        /\ (h \o s)[Len(h) + i] = s[i]
    <3>1. Len(h) \in Nat /\ Len(s) \in Nat
      OBVIOUS
    <3>2. /\ Len(h) + i \in 1 .. Len(h) + Len(s) /\ ~(Len(h) + i <= Len(h))
          /\ (Len(h) + i) - Len(h) = i
      BY <3>1
    <3>3. (h \o s)[Len(h) + i] = IF Len(h) + i <= Len(h) THEN h[Len(h) + i] ELSE s[(Len(h) + i) - Len(h)]
      BY <3>2, ConcatProperties
    <3>4. Len(h \o s) = Len(h) + Len(s)
      BY ConcatProperties
    <3> QED BY <3>1, <3>2, <3>3, <3>4
  <2>2. Len(h) + Len(s) = c
    <3>1. Len([k \in 1 .. c |-> k]) = c
      OBVIOUS
    <3> QED BY <2>1, <3>1 DEF AllCame
  <2>3. Len(h) + i \in 1 .. c
    BY <2>1, <2>2
  <2> QED BY <2>1, <2>3 DEF AllCame
<1> QED BY <1>2, <1>3 DEF AllCame

\* The Sink of a Tee is given the first m of n buffers.
LEMMA SinkGrown ==
  ASSUME NEW a \in Seq(Nat), NEW b \in Seq(Nat), NEW s \in Seq(Nat), SinkHad(a, b),
         NEW n \in 0 .. Len(s), NEW m \in 0 .. n,
         \A i \in 1 .. Len(s) : s[i] = Len(a) + i,
         m < n => Len(b) + m >= StrQSize
  PROVE  SinkHad(a \o SubSeq(s, 1, n), b \o SubSeq(s, 1, m))
<1> DEFINE u == SubSeq(s, 1, m)
           a2 == a \o SubSeq(s, 1, n)
           b2 == b \o u
<1>1. /\ Len(s) \in Nat /\ m \in 0 .. Len(s) /\ Len(a) \in Nat /\ Len(b) \in Nat
      /\ StrQSize \in Nat
  BY DataAssumption
<1>2. /\ u \in Seq(Nat) /\ Len(u) = m /\ \A i \in 1 .. m : u[i] = Len(a) + i
  BY <1>1, StrCut, SMTT(60)
<1>3. Len(a2) = Len(a) + n
  <2> DEFINE w == SubSeq(s, 1, n)
  <2>1. w \in Seq(Nat) /\ Len(w) = n
    BY StrCut
  <2> HIDE DEF w
  <2>2. Len(a \o w) = Len(a) + Len(w)
    BY <2>1, ConcatProperties
  <2> QED BY <2>1, <2>2 DEF w
<1> HIDE DEF u
<1>4. /\ Len(b2) = Len(b) + m
      /\ \A i \in 1 .. Len(b) : b2[i] = b[i]
      /\ \A i \in 1 .. m : b2[Len(b) + i] = Len(a) + i
  <2>1. /\ Len(b2) = Len(b) + Len(u)
        /\ \A i \in 1 .. Len(b) + Len(u) : b2[i] = IF i <= Len(b) THEN b[i] ELSE u[i - Len(b)]
    BY <1>2, ConcatProperties
  <2>2. \A i \in 1 .. Len(b) : b2[i] = b[i]
    BY <1>1, <1>2, <2>1
  <2>3. ASSUME NEW i \in 1 .. m PROVE b2[Len(b) + i] = Len(a) + i
    <3>1. /\ Len(b) + i \in 1 .. Len(b) + Len(u) /\ ~(Len(b) + i <= Len(b))
          /\ (Len(b) + i) - Len(b) = i
      BY <1>1, <1>2
    <3>2. b2[Len(b) + i] = u[i]
      BY <2>1, <3>1
    <3> QED BY <1>2, <3>2
  <2> QED BY <1>2, <2>1, <2>2, <2>3
<1> HIDE DEF a2, b2
<1>5. ASSUME NEW i \in Len(b) + 1 .. Len(b2)
      PROVE  b2[i] = Len(a) + (i - Len(b)) /\ b2[i] <= Len(a2)
  <2>1. i - Len(b) \in 1 .. m /\ Len(b) + (i - Len(b)) = i
    BY <1>1, <1>4
  <2>2. b2[i] = Len(a) + (i - Len(b))
    BY <1>4, <2>1
  <2> QED BY <1>1, <1>3, <2>1, <2>2
<1>6. ASSUME NEW i \in 1 .. Len(b2) PROVE b2[i] <= Len(a2)
  <2>1. CASE i \in 1 .. Len(b)
    <3>1. b[i] <= Len(a) /\ b[i] \in Nat
      BY <2>1 DEF SinkHad
    <3> QED BY <1>1, <1>3, <1>4, <2>1, <3>1
  <2>2. CASE i \in Len(b) + 1 .. Len(b2)
    BY <1>5, <2>2
  <2> QED BY <1>1, <1>4, <2>1, <2>2
<1>7. ASSUME NEW i \in 1 .. Len(b2), NEW j \in 1 .. Len(b2), i < j PROVE b2[i] < b2[j]
  <2>1. CASE j \in 1 .. Len(b)
    <3>1. i \in 1 .. Len(b)
      BY <1>1, <1>7, <2>1
    <3> QED BY <1>4, <1>7, <2>1, <3>1 DEF SinkHad
  <2>2. CASE j \in Len(b) + 1 .. Len(b2) /\ i \in 1 .. Len(b)
    <3>1. b[i] <= Len(a) /\ b[i] \in Nat /\ b2[i] = b[i]
      BY <1>4, <2>2, SMTT(60) DEF SinkHad
    <3>2. b2[j] = Len(a) + (j - Len(b))
      BY <1>5, <2>2
    <3>3. j - Len(b) \in Nat /\ j - Len(b) > 0
      BY <1>1, <2>2
    <3> QED BY <1>1, <3>1, <3>2, <3>3
  <2>3. CASE j \in Len(b) + 1 .. Len(b2) /\ i \in Len(b) + 1 .. Len(b2)
    <3>1. b2[i] = Len(a) + (i - Len(b))
      BY <1>5, <2>3
    <3>2. b2[j] = Len(a) + (j - Len(b))
      BY <1>5, <2>3
    <3>3. i \in Int /\ j \in Int
      OBVIOUS
    <3> QED BY <1>1, <1>7, <3>1, <3>2, <3>3
  <2>4. i \in Int /\ j \in Int /\ i <= Len(b2) /\ j <= Len(b2) /\ i >= 1 /\ j >= 1 /\ Len(b2) \in Int
    BY <1>1, <1>4
  <2>5. \/ j \in 1 .. Len(b)
        \/ j \in Len(b) + 1 .. Len(b2) /\ i \in 1 .. Len(b)
        \/ j \in Len(b) + 1 .. Len(b2) /\ i \in Len(b) + 1 .. Len(b2)
    BY <1>1, <2>4
  <2> QED BY <2>1, <2>2, <2>3, <2>5, Zenon
<1>8. Len(a2) > Len(b2) => Len(b2) >= StrQSize
  <2>1. CASE m < n
    BY <1>4, <2>1
  <2>2. CASE m = n
    <3>1. Len(a) > Len(b) => Len(b) >= StrQSize
      BY DEF SinkHad
    <3> QED BY <1>1, <1>3, <1>4, <2>2, <3>1
  <2> QED BY <2>1, <2>2
<1> QED BY <1>6, <1>7, <1>8 DEF SinkHad, a2, b2, u

LEMMA StrStart == Str!Init => StrInv
<1> SUFFICES ASSUME Str!Init PROVE StrInv
  OBVIOUS
<1>1. << >> \in Seq(Nat) /\ Len(<< >>) = 0 /\ << >> \o << >> = << >> /\ << >> = [k \in 1 .. 0 |-> k]
  OBVIOUS
<1>2. StrTypeOK
  BY <1>1 DEF Str!Init, StrTypeOK
<1>3. \A x \in Str!Ends : Str!Had(x) = << >> /\ sEnd[x] = << >>
  BY <1>1 DEF Str!Init, Str!Had
<1>4. "a" \in Str!Ends /\ "b" \in Str!Ends
  BY DEF Str!Ends
<1> QED BY <1>1, <1>2, <1>3, <1>4, DataAssumption DEF Str!Init, StrInv, AllCame, SinkHad

\* What the ends have had is made of sequences.
LEMMA StrHadType ==
  ASSUME StrTypeOK, NEW x \in Str!Ends
  PROVE  Str!Had(x) \in Seq(Nat) /\ sEnd[x] \in Seq(Nat) /\ sGot[x] \in Seq(Nat)
         /\ Len(Str!Had(x)) \in Nat /\ Len(sEnd[x]) \in Nat /\ Len(Str!Had(x)) >= Len(sEnd[x])
<1>1. sEnd[x] \in Seq(Nat) /\ sGot[x] \in Seq(Nat)
  BY DEF StrTypeOK
<1>2. Len(sEnd[x]) \in Nat /\ Len(sGot[x]) \in Nat
  BY <1>1
<1>3. sGot[x] \o sEnd[x] \in Seq(Nat) /\ Len(sGot[x] \o sEnd[x]) = Len(sGot[x]) + Len(sEnd[x])
  BY <1>1, ConcatProperties
<1>4. Str!Had(x) = sGot[x] \o sEnd[x]
  BY DEF Str!Had
<1>5. \A i, j \in Nat : i + j \in Nat /\ i + j >= j
  OBVIOUS
<1>6. Len(sGot[x]) + Len(sEnd[x]) \in Nat /\ Len(sGot[x]) + Len(sEnd[x]) >= Len(sEnd[x])
  BY <1>2, <1>5, Zenon
<1> QED BY <1>1, <1>2, <1>3, <1>4, <1>6, Zenon

LEMMA StrEnds == Str!Ends = {"a", "b"} /\ Str!Other("a") = "b" /\ Str!Other("b") = "a"
  BY DEF Str!Ends, Str!Other

LEMMA StrLooked ==
  ASSUME StrInv, NEW y \in Str!Ends, Str!Look(y)
  PROVE  StrInv'
<1> DEFINE n == Str!Min({StrQSize - Len(sEnd[y]), Len(sFrom)})
           m == Str!Min({StrQSize - Len(sEnd[Str!Other(y)]), n})
<1>1. /\ sOk /\ UNCHANGED <<sEnv, sCame, sGot>>
      /\ sEnv = "SplitPull" \/ (sEnv = "Tee" /\ y = "a")
  BY DEF Str!Look
<1>2. /\ sFrom \in Seq(Nat) /\ Len(sFrom) \in Nat /\ StrQSize \in Nat
      /\ Str!Other(y) \in Str!Ends
      /\ \A x \in Str!Ends : /\ sEnd[x] \in Seq(Nat) /\ sGot[x] \in Seq(Nat)
                             /\ Len(sEnd[x]) \in Nat /\ Len(sEnd[x]) <= StrQSize
  BY <1>1, StrEnds, DataAssumption DEF StrInv, StrTypeOK
<1>3. /\ n \in 0 .. Len(sFrom) /\ Len(sEnd[y]) + n <= StrQSize
      /\ m \in 0 .. n /\ Len(sEnd[Str!Other(y)]) + m <= StrQSize
      /\ m < n => Len(sEnd[Str!Other(y)]) + m = StrQSize
  <2>1. n = IF StrQSize - Len(sEnd[y]) <= Len(sFrom) THEN StrQSize - Len(sEnd[y]) ELSE Len(sFrom)
    <3>1. StrQSize - Len(sEnd[y]) \in Int /\ Len(sFrom) \in Int
      BY <1>2
    <3> QED BY <3>1, StrMin
  <2>2. n \in 0 .. Len(sFrom) /\ Len(sEnd[y]) + n <= StrQSize
    BY <1>2, <2>1
  <2> HIDE DEF n
  <2>3. m = IF StrQSize - Len(sEnd[Str!Other(y)]) <= n THEN StrQSize - Len(sEnd[Str!Other(y)]) ELSE n
    <3>1. StrQSize - Len(sEnd[Str!Other(y)]) \in Int /\ n \in Int
      BY <1>2, <2>2
    <3> QED BY <3>1, StrMin
  <2> QED BY <1>2, <2>2, <2>3, SMTT(60)
<1>4. /\ "a" \in Str!Ends /\ "b" \in Str!Ends /\ Str!Had("a") \in Seq(Nat) /\ Str!Had("b") \in Seq(Nat)
      /\ AllCame(Str!Had("a"), sFrom, sCame) /\ sCame \in Nat
  BY <1>1, StrEnds, StrHadType DEF StrInv, StrTypeOK
<1>5. CASE sEnv = "Tee"
  <2>1. /\ y = "a" /\ Str!Other(y) = "b"
        /\ sFrom' = Str!Teed.from /\ sEnd' = Str!Teed.end /\ sOk' = Str!Teed.ok
    BY <1>1, <1>5, StrEnds DEF Str!Look
  <2>2. /\ sFrom' = SubSeq(sFrom, n + 1, Len(sFrom)) /\ sOk'
        /\ sEnd' = [x \in Str!Ends |-> sEnd[x] \o SubSeq(sFrom, 1, IF x = "a" THEN n ELSE m)]
    BY <2>1 DEF Str!Teed
  <2> HIDE DEF n, m
  <2>3. /\ sEnd'["a"] = sEnd["a"] \o SubSeq(sFrom, 1, n)
        /\ sEnd'["b"] = sEnd["b"] \o SubSeq(sFrom, 1, m)
    BY <1>4, <2>2
  <2>4. /\ SubSeq(sFrom, 1, n) \in Seq(Nat) /\ Len(SubSeq(sFrom, 1, n)) = n
        /\ SubSeq(sFrom, 1, m) \in Seq(Nat) /\ Len(SubSeq(sFrom, 1, m)) = m
        /\ SubSeq(sFrom, n + 1, Len(sFrom)) \in Seq(Nat)
    <3>1. m \in 0 .. Len(sFrom)
      BY <1>2, <1>3
    <3> QED BY <1>2, <1>3, <3>1, StrCut
  <2>5. /\ Str!Had("a")' = Str!Had("a") \o SubSeq(sFrom, 1, n)
        /\ Str!Had("b")' = Str!Had("b") \o SubSeq(sFrom, 1, m)
        /\ sEnd'["a"] \in Seq(Nat) /\ Len(sEnd'["a"]) = Len(sEnd["a"]) + n
        /\ sEnd'["b"] \in Seq(Nat) /\ Len(sEnd'["b"]) = Len(sEnd["b"]) + m
    <3> DEFINE u == SubSeq(sFrom, 1, n)
               v == SubSeq(sFrom, 1, m)
    <3>1. /\ sGot["a"] \in Seq(Nat) /\ sEnd["a"] \in Seq(Nat) /\ u \in Seq(Nat) /\ Len(u) = n
          /\ sGot["b"] \in Seq(Nat) /\ sEnd["b"] \in Seq(Nat) /\ v \in Seq(Nat) /\ Len(v) = m
      BY <1>2, <1>4, <2>4
    <3> HIDE DEF u, v
    <3>2. /\ sEnd["a"] \o u \in Seq(Nat) /\ Len(sEnd["a"] \o u) = Len(sEnd["a"]) + n
          /\ sGot["a"] \o (sEnd["a"] \o u) = (sGot["a"] \o sEnd["a"]) \o u
      <4>1. /\ sEnd["a"] \o u \in Seq(Nat) /\ Len(sEnd["a"] \o u) = Len(sEnd["a"]) + Len(u)
            /\ sGot["a"] \o (sEnd["a"] \o u) = (sGot["a"] \o sEnd["a"]) \o u
        <5>1. /\ sGot["a"] \in Seq(Nat) /\ sEnd["a"] \in Seq(Nat) /\ u \in Seq(Nat)
          BY <3>1, Zenon
        <5> QED BY <5>1, StrGrown, ZenonT(60)
      <4> QED BY <3>1, <4>1, Zenon
    <3>3. /\ sEnd["b"] \o v \in Seq(Nat) /\ Len(sEnd["b"] \o v) = Len(sEnd["b"]) + m
          /\ sGot["b"] \o (sEnd["b"] \o v) = (sGot["b"] \o sEnd["b"]) \o v
      <4>1. /\ sEnd["b"] \o v \in Seq(Nat) /\ Len(sEnd["b"] \o v) = Len(sEnd["b"]) + Len(v)
            /\ sGot["b"] \o (sEnd["b"] \o v) = (sGot["b"] \o sEnd["b"]) \o v
        <5>1. /\ sGot["b"] \in Seq(Nat) /\ sEnd["b"] \in Seq(Nat) /\ v \in Seq(Nat)
          BY <3>1, Zenon
        <5> QED BY <5>1, StrGrown, ZenonT(60)
      <4> QED BY <3>1, <4>1, Zenon
    <3> QED BY <1>1, <2>3, <3>2, <3>3, Zenon DEF Str!Had, u, v
  <2>6. /\ AllCame(Str!Had("a")', sFrom', sCame)
        /\ \A i \in 1 .. Len(sFrom) : sFrom[i] = Len(Str!Had("a")) + i
    <3>1. /\ AllCame(Str!Had("a") \o SubSeq(sFrom, 1, n), SubSeq(sFrom, n + 1, Len(sFrom)), sCame)
          /\ \A i \in 1 .. Len(sFrom) : sFrom[i] = Len(Str!Had("a")) + i
      BY <1>2, <1>3, <1>4, StrMoved
    <3> QED BY <2>2, <2>5, <3>1, Zenon
  <2>7. SinkHad(Str!Had("a")', Str!Had("b")')
    <3>1. Len(Str!Had("b")) \in Nat /\ Len(Str!Had("b")) >= Len(sEnd["b"]) /\ Len(sEnd["b"]) \in Nat
      BY <1>4, StrHadType DEF StrInv
    <3>2. m < n => Len(Str!Had("b")) + m >= StrQSize
      BY <1>2, <1>3, <2>1, <3>1
    <3>3. SinkHad(Str!Had("a"), Str!Had("b"))
      BY <1>5 DEF StrInv
    <3> QED BY <1>2, <1>3, <1>4, <2>5, <2>6, <3>2, <3>3, SinkGrown, ZenonT(60)
  <2>8. StrTypeOK'
    <3>1. sEnd' \in [Str!Ends -> Seq(Nat)]
      BY <2>2, <2>3, <2>5, StrEnds
    <3> QED BY <1>1, <2>2, <2>4, <3>1 DEF StrInv, StrTypeOK
  <2>9. \A x \in Str!Ends : Len(sEnd'[x]) <= StrQSize
    BY <1>2, <1>3, <2>1, <2>5, StrEnds
  <2> QED BY <1>1, <1>5, <2>2, <2>6, <2>7, <2>8, <2>9 DEF StrInv
<1>6. CASE sEnv = "SplitPull"
  <2>1. sFrom' = Str!Fetched(y).from /\ sEnd' = Str!Fetched(y).end /\ sOk' = Str!Fetched(y).ok
    BY <1>6 DEF Str!Look
  <2>2. /\ sFrom' = SubSeq(sFrom, (IF m < n THEN m + 1 ELSE n) + 1, Len(sFrom)) /\ (sOk' <=> m = n) /\ sOk' \in BOOLEAN
        /\ sEnd' = [x \in Str!Ends |-> sEnd[x] \o SubSeq(sFrom, 1, m)]
    BY <2>1 DEF Str!Fetched
  <2> HIDE DEF n, m
  <2>3. /\ SubSeq(sFrom, 1, m) \in Seq(Nat) /\ Len(SubSeq(sFrom, 1, m)) = m
    <3>1. m \in 0 .. Len(sFrom)
      BY <1>2, <1>3
    <3> QED BY <1>2, <3>1, StrCut
  <2>4. \A x \in Str!Ends : /\ Str!Had(x)' = Str!Had(x) \o SubSeq(sFrom, 1, m)
                            /\ sEnd'[x] \in Seq(Nat) /\ Len(sEnd'[x]) = Len(sEnd[x]) + m
    <3> SUFFICES ASSUME NEW x \in Str!Ends
                 PROVE  /\ Str!Had(x)' = Str!Had(x) \o SubSeq(sFrom, 1, m)
                        /\ sEnd'[x] \in Seq(Nat) /\ Len(sEnd'[x]) = Len(sEnd[x]) + m
      BY Zenon
    <3> DEFINE v == SubSeq(sFrom, 1, m)
    <3>1. /\ sGot[x] \in Seq(Nat) /\ sEnd[x] \in Seq(Nat) /\ v \in Seq(Nat) /\ Len(v) = m
          /\ sEnd'[x] = sEnd[x] \o v
      BY <1>2, <2>2, <2>3
    <3> HIDE DEF v
    <3>2. /\ sEnd[x] \o v \in Seq(Nat) /\ Len(sEnd[x] \o v) = Len(sEnd[x]) + m
          /\ sGot[x] \o (sEnd[x] \o v) = (sGot[x] \o sEnd[x]) \o v
      BY <3>1, StrGrown
    <3> QED BY <1>1, <3>1, <3>2, Zenon DEF Str!Had, v
  <2>5. sFrom' \in Seq(Nat)
    <3>1. (IF m < n THEN m + 1 ELSE n) \in 0 .. Len(sFrom)
      BY <1>2, <1>3
    <3> QED BY <1>2, <2>2, <3>1, StrCut
  <2>6. StrTypeOK'
    <3>1. sEnd' \in [Str!Ends -> Seq(Nat)]
      BY <2>2, <2>4
    <3>2. sOk' \in BOOLEAN
      BY <2>2
    <3> QED BY <1>1, <2>5, <3>1, <3>2 DEF StrInv, StrTypeOK
  <2>7. ASSUME sOk'
        PROVE  /\ AllCame(Str!Had("a")', sFrom', sCame')
               /\ Str!Had("b")' = Str!Had("a")'
               /\ \A x \in Str!Ends : Len(sEnd'[x]) <= StrQSize
    <3>0. m = n
      BY <2>2, <2>7, Zenon
    <3>1. m = n /\ sFrom' = SubSeq(sFrom, n + 1, Len(sFrom))
      <4>1. (IF m < n THEN m + 1 ELSE n) = n
        BY <1>2, <1>3, <3>0
      <4> QED BY <2>2, <3>0, <4>1, Zenon
    <3>2. AllCame(Str!Had("a")', sFrom', sCame')
      <4>1. AllCame(Str!Had("a") \o SubSeq(sFrom, 1, n), SubSeq(sFrom, n + 1, Len(sFrom)), sCame)
        BY <1>2, <1>3, <1>4, StrMoved
      <4>2. Str!Had("a")' = Str!Had("a") \o SubSeq(sFrom, 1, n)
        BY <1>4, <2>4, <3>1
      <4> QED BY <1>1, <3>1, <4>1, <4>2, Zenon
    <3>3. Str!Had("b")' = Str!Had("a")'
      BY <1>1, <1>4, <1>6, <2>4 DEF StrInv
    <3>4. \A x \in Str!Ends : Len(sEnd'[x]) <= StrQSize
      BY <1>2, <1>3, <2>4, <3>1, StrEnds
    <3> QED BY <3>2, <3>3, <3>4
  <2>8. ASSUME ~sOk' PROVE \E x \in Str!Ends : Str!Full(x)'
    <3>1. m < n
      BY <1>3, <2>2, <2>8
    <3>2. Len(sEnd'[Str!Other(y)]) = StrQSize
      BY <1>2, <1>3, <2>4, <3>1
    <3> QED BY <1>2, <3>2 DEF Str!Full
  <2> QED BY <1>1, <1>6, <2>6, <2>7, <2>8 DEF StrInv
<1> QED BY <1>1, <1>5, <1>6

LEMMA StrPopped ==
  ASSUME StrInv, NEW y \in Str!Ends, Str!Pop(y)
  PROVE  StrInv'
<1>1. /\ sOk /\ sEnd[y] # << >> /\ UNCHANGED <<sEnv, sFrom, sCame, sOk>>
      /\ sGot' = [sGot EXCEPT ![y] = Append(@, Head(sEnd[y]))]
      /\ sEnd' = [sEnd EXCEPT ![y] = Tail(@)]
  BY DEF Str!Pop
<1>2. /\ sEnd \in [Str!Ends -> Seq(Nat)] /\ sGot \in [Str!Ends -> Seq(Nat)] /\ StrQSize \in Nat
  BY DataAssumption DEF StrInv, StrTypeOK
<1>3. /\ sGot'[y] = Append(sGot[y], Head(sEnd[y])) /\ sEnd'[y] = Tail(sEnd[y])
      /\ \A x \in Str!Ends : x # y => sGot'[x] = sGot[x] /\ sEnd'[x] = sEnd[x]
  BY <1>1, <1>2
<1>4. /\ sEnd'[y] \in Seq(Nat) /\ sGot'[y] \in Seq(Nat) /\ sGot'[y] \o sEnd'[y] = sGot[y] \o sEnd[y]
      /\ Len(sEnd'[y]) <= Len(sEnd[y])
  <2>1. sEnd[y] \in Seq(Nat) /\ sGot[y] \in Seq(Nat)
    BY <1>2
  <2>2. Len(Tail(sEnd[y])) = Len(sEnd[y]) - 1 /\ Len(sEnd[y]) \in Nat
    BY <1>1, <2>1, EmptySeq
  <2>3. /\ Tail(sEnd[y]) \in Seq(Nat) /\ Append(sGot[y], Head(sEnd[y])) \in Seq(Nat)
        /\ Append(sGot[y], Head(sEnd[y])) \o Tail(sEnd[y]) = sGot[y] \o sEnd[y]
    BY <1>1, <2>1, NumberedGone
  <2>4. Len(Tail(sEnd[y])) <= Len(sEnd[y])
    BY <2>2
  <2> QED BY <1>3, <2>3, <2>4, Zenon
<1>5. \A x \in Str!Ends : Str!Had(x)' = Str!Had(x)
  BY <1>3, <1>4 DEF Str!Had
<1>6. StrTypeOK'
  <2>1. sEnd' \in [Str!Ends -> Seq(Nat)] /\ sGot' \in [Str!Ends -> Seq(Nat)]
    <3>1. \A x \in Str!Ends : sEnd'[x] \in Seq(Nat) /\ sGot'[x] \in Seq(Nat)
      BY <1>2, <1>3, <1>4
    <3> QED BY <1>1, <1>2, <3>1
  <2> QED BY <1>1, <2>1 DEF StrInv, StrTypeOK
<1>7. \A x \in Str!Ends : Len(sEnd'[x]) <= StrQSize
  <2>1. \A x \in Str!Ends : Len(sEnd[x]) <= StrQSize /\ Len(sEnd[x]) \in Nat /\ Len(sEnd'[y]) \in Nat
    BY <1>1, <1>2, <1>4 DEF StrInv
  <2>2. ASSUME NEW x \in Str!Ends PROVE Len(sEnd'[x]) <= StrQSize
    <3>1. CASE x = y
      <4>1. Len(sEnd'[y]) <= Len(sEnd[y]) /\ Len(sEnd[y]) <= StrQSize /\ Len(sEnd[y]) \in Nat
            /\ Len(sEnd'[y]) \in Nat
        BY <1>4, <2>1
      <4> QED BY <1>2, <3>1, <4>1
    <3>2. CASE x # y
      BY <1>3, <2>1, <3>2
    <3> QED BY <3>1, <3>2
  <2> QED BY <2>2
<1>8. "a" \in Str!Ends /\ "b" \in Str!Ends
  BY StrEnds
<1> QED BY <1>1, <1>5, <1>6, <1>7, <1>8 DEF StrInv

LEMMA StrNext == ASSUME StrInv, [Str!Next]_(Str!vars) PROVE StrInv'
<1>1. CASE Str!Arrive
  <2>1. /\ sOk /\ sEnv # "SplitPush" /\ sCame' = sCame + 1 /\ sFrom' = Append(sFrom, sCame + 1)
        /\ UNCHANGED <<sEnv, sEnd, sGot, sOk>>
    BY <1>1 DEF Str!Arrive
  <2>2. "a" \in Str!Ends /\ \A x \in Str!Ends : Str!Had(x)' = Str!Had(x)
    BY <2>1, StrEnds DEF Str!Had
  <2>3. sCame \in Nat /\ sFrom \in Seq(Nat) /\ Str!Had("a") \in Seq(Nat)
    BY <2>2, StrHadType DEF StrInv, StrTypeOK
  <2>4. sFrom' \in Seq(Nat) /\ AllCame(Str!Had("a"), sFrom', sCame')
    BY <2>1, <2>3, NumberedNext DEF StrInv, AllCame
  <2>5. StrTypeOK'
    BY <2>1, <2>3, <2>4 DEF StrInv, StrTypeOK
  <2>6. "b" \in Str!Ends
    BY StrEnds
  <2> QED BY <2>1, <2>2, <2>4, <2>5, <2>6 DEF StrInv
<1>2. CASE Str!SplitPush
  <2>1. /\ sOk /\ sEnv = "SplitPush" /\ sCame' = sCame + 1 /\ \A x \in Str!Ends : ~Str!Full(x)
        /\ sEnd' = [x \in Str!Ends |-> Append(sEnd[x], sCame + 1)]
        /\ UNCHANGED <<sEnv, sFrom, sGot, sOk>>
    BY <1>2 DEF Str!SplitPush
  <2>2. /\ "a" \in Str!Ends /\ "b" \in Str!Ends /\ sFrom = << >> /\ sCame \in Nat /\ sCame + 1 \in Nat
        /\ sEnd \in [Str!Ends -> Seq(Nat)] /\ sGot \in [Str!Ends -> Seq(Nat)] /\ StrQSize \in Nat
    BY <2>1, StrEnds, DataAssumption DEF StrInv, StrTypeOK
  <2>3. \A x \in Str!Ends : /\ sEnd'[x] = Append(sEnd[x], sCame + 1) /\ sEnd'[x] \in Seq(Nat)
                            /\ Len(sEnd'[x]) = Len(sEnd[x]) + 1 /\ Len(sEnd[x]) \in Nat
                            /\ Str!Had(x)' = Append(Str!Had(x), sCame + 1)
    <3> SUFFICES ASSUME NEW x \in Str!Ends
                 PROVE  /\ sEnd'[x] = Append(sEnd[x], sCame + 1) /\ sEnd'[x] \in Seq(Nat)
                        /\ Len(sEnd'[x]) = Len(sEnd[x]) + 1 /\ Len(sEnd[x]) \in Nat
                        /\ Str!Had(x)' = Append(Str!Had(x), sCame + 1)
      OBVIOUS
    <3>1. sEnd[x] \in Seq(Nat) /\ sGot[x] \in Seq(Nat) /\ sEnd'[x] = Append(sEnd[x], sCame + 1)
      BY <2>1, <2>2
    <3>2. sGot[x] \o Append(sEnd[x], sCame + 1) = Append(sGot[x] \o sEnd[x], sCame + 1)
      BY <2>2, <3>1, AppendedTail
    <3>3. Append(sEnd[x], sCame + 1) \in Seq(Nat) /\ Len(Append(sEnd[x], sCame + 1)) = Len(sEnd[x]) + 1
      BY <2>2, <3>1
    <3>4. Len(sEnd[x]) \in Nat
      BY <3>1
    <3> QED BY <2>1, <3>1, <3>2, <3>3, <3>4, Zenon DEF Str!Had
  <2>4. StrTypeOK'
    <3>1. sEnd' \in [Str!Ends -> Seq(Nat)]
      BY <2>1, <2>3
    <3> QED BY <2>1, <2>2, <3>1 DEF StrInv, StrTypeOK
  <2>5. AllCame(Str!Had("a")', sFrom', sCame')
    <3>1. Str!Had("a") \in Seq(Nat) /\ Str!Had("a") \o << >> = Str!Had("a")
      BY <2>2, StrHadType, ConcatEmptySeq DEF StrInv
    <3>2. Str!Had("a") = [k \in 1 .. sCame |-> k]
      BY <2>1, <2>2, <3>1 DEF StrInv, AllCame
    <3>3. Append(Str!Had("a"), sCame + 1) = [k \in 1 .. sCame + 1 |-> k]
      BY <2>2, <3>2, CountedOn
    <3>4. Append(Str!Had("a"), sCame + 1) \in Seq(Nat)
      BY <2>2, <3>1
    <3>5. Append(Str!Had("a"), sCame + 1) \o << >> = Append(Str!Had("a"), sCame + 1)
      BY <3>4, ConcatEmptySeq
    <3> QED BY <2>1, <2>2, <2>3, <3>3, <3>5 DEF AllCame
  <2>6. Str!Had("b")' = Str!Had("a")'
    BY <2>1, <2>2, <2>3 DEF StrInv
  <2>7. \A x \in Str!Ends : Len(sEnd'[x]) <= StrQSize
    <3>1. \A x \in Str!Ends : Len(sEnd[x]) <= StrQSize /\ Len(sEnd[x]) # StrQSize
      BY <2>1 DEF StrInv, Str!Full
    <3> QED BY <2>2, <2>3, <3>1, SMTT(60)
  <2> QED BY <2>1, <2>2, <2>4, <2>5, <2>6, <2>7 DEF StrInv
<1>3. ASSUME NEW y \in Str!Ends, Str!Look(y) \/ Str!Pop(y) PROVE StrInv'
  BY <1>3, StrLooked, StrPopped
<1>4. CASE UNCHANGED Str!vars
  <2>1. UNCHANGED <<sEnv, sFrom, sCame, sEnd, sGot, sOk>>
    BY <1>4 DEF Str!vars
  <2> QED BY <2>1 DEF StrInv, StrTypeOK, Str!Had, Str!Full
<1> QED BY <1>1, <1>2, <1>3, <1>4 DEF Str!Next

\* Both readers of a SplitPull and both Sinks of a SplitPush are given all that
\* comes, in order; the Sink of a Tee misses only what came while it was full.
THEOREM AlwaysSameForBoth == Str!Spec => []SameForBoth
<1>1. Str!Init => StrInv
  BY StrStart
<1>2. StrInv /\ [Str!Next]_(Str!vars) => StrInv'
  BY StrNext
<1>3. ASSUME StrInv PROVE SameForBoth
  <2>1. "b" \in Str!Ends /\ Str!Had("b") \in Seq(Nat)
    BY <1>3, StrEnds, StrHadType DEF StrInv
  <2>2. DOMAIN Str!Had("b") = 1 .. Len(Str!Had("b"))
    BY <2>1
  <2> QED BY <1>3, <2>2 DEF StrInv, AllCame, SinkHad, SameForBoth, Str!SameForBoth, Str!Upto
<1> QED BY <1>1, <1>2, <1>3, PTL DEF Str!Spec

-----------------------------------------------------------------------------
(* Angles                                                                  *)

\* The remainder is the one number of the circle that differs by turns.
LEMMA Turns ==
  ASSUME NEW n \in Int, NEW c \in Nat \ {0}
  PROVE  \E k \in Int : n = (n % c) + k * c /\ (n % c) \in 0 .. c - 1
<1>1. n = c * (n \div c) + (n % c) /\ n \div c \in Int /\ (n % c) \in 0 .. c - 1
  OBVIOUS
<1>2. n = (n % c) + (n \div c) * c
  BY <1>1
<1> QED BY <1>1, <1>2

LEMMA OneTurn ==
  ASSUME NEW c \in Nat \ {0}, NEW k \in Int, NEW d \in Int, d = k * c, -2 * c < d, d < 2 * c
  PROVE  d \in {-c, 0, c}
<1>1. CASE k >= 2
  BY <1>1, k * c >= 2 * c
<1>2. CASE k <= -2
  BY <1>2, k * c <= -2 * c
<1>3. CASE k \in {-1, 0, 1}
  BY <1>3
<1> QED BY <1>1, <1>2, <1>3

\* Whole turns leave the remainder as it is.
LEMMA SameRemainder ==
  ASSUME NEW c \in Nat \ {0}, NEW x \in Int, NEW k \in Int
  PROVE  (x + k * c) % c = x % c
<1> DEFINE y == x + k * c
           a == x % c
           b == y % c
<1>0. y \in Int /\ k * c \in Int
  OBVIOUS
<1>1. PICK i \in Int : x = a + i * c /\ a \in 0 .. c - 1
  BY Turns
<1>2. PICK j \in Int : y = b + j * c /\ b \in 0 .. c - 1
  BY <1>0, Turns
<1>3. (k + i - j) * c = k * c + i * c - j * c /\ i * c \in Int /\ j * c \in Int
  OBVIOUS
<1> DEFINE d == b - a
<1>4. d = (k + i - j) * c /\ d \in Int /\ -2 * c < d /\ d < 2 * c /\ k + i - j \in Int
  <2> DEFINE kc == k * c
             ic == i * c
             jc == j * c
  <2>1. y = x + kc /\ x = a + ic /\ y = b + jc /\ kc \in Int /\ ic \in Int /\ jc \in Int
    BY <1>0, <1>1, <1>2, <1>3
  <2>2. a \in 0 .. c - 1 /\ b \in 0 .. c - 1
    BY <1>1, <1>2
  <2>3. (k + i - j) * c = kc + ic - jc /\ k + i - j \in Int
    BY <1>3
  <2> HIDE DEF y, a, b, kc, ic, jc
  <2>4. d = kc + ic - jc
    BY <2>1, <2>2
  <2> QED BY <2>2, <2>3, <2>4
<1> HIDE DEF d
<1>5. d \in {-c, 0, c}
  BY <1>4, OneTurn
<1> HIDE DEF a, b
<1> QED BY <1>1, <1>2, <1>5 DEF d, a, b

\* Where the shaft is after a movement, and what the reading says of it.
LEMMA Moved ==
  ASSUME NEW u \in Int, NEW t \in Int, -AngCircle < t - u, t - u < AngCircle
  PROVE  /\ (u % AngCircle) \in 0 .. AngCircle - 1 /\ (t % AngCircle) \in 0 .. AngCircle - 1
         /\ ((u % AngCircle) - (t % AngCircle)) - (u - t) \in {-AngCircle, 0, AngCircle}
<1> DEFINE c == AngCircle
<1>0. c \in Nat \ {0}
  BY AnglesAssumption
<1>1. PICK k \in Int : u = (u % c) + k * c /\ (u % c) \in 0 .. c - 1
  BY <1>0, Turns
<1>2. PICK l \in Int : t = (t % c) + l * c /\ (t % c) \in 0 .. c - 1
  BY <1>0, Turns
<1> DEFINE a == u % c
           b == t % c
           d == (a - b) - (u - t)
<1>3. d = (l - k) * c
  <2> DEFINE kc == k * c
             lc == l * c
  <2>1. (l - k) * c = lc - kc /\ kc \in Int /\ lc \in Int
    BY <1>0
  <2>2. u = a + kc /\ t = b + lc /\ a \in Int /\ b \in Int
    BY <1>0, <1>1, <1>2
  <2> HIDE DEF a, b, kc, lc
  <2>3. d = lc - kc
    BY <2>1, <2>2
  <2> QED BY <2>1, <2>3
<1>4. d \in Int /\ l - k \in Int /\ -2 * c < d /\ d < 2 * c
  BY <1>0, <1>1, <1>2
<1> HIDE DEF d
<1>5. d \in {-c, 0, c}
  BY <1>0, <1>3, <1>4, OneTurn
<1> QED BY <1>1, <1>2, <1>5 DEF d

\* A number is signed by turns.
LEMMA SignedTurns ==
  ASSUME NEW n \in Int
  PROVE  /\ Ang!Signed(n) \in Int
         /\ \E k \in Int : Ang!Signed(n) = n + k * AngCircle
         /\ n \in -(AngCircle \div 2 - 1) .. AngCircle \div 2 - 1 => Ang!Signed(n) = n
<1> DEFINE c == AngCircle
           h == c \div 2
<1>0. c \in Nat \ {0} /\ h \in Nat /\ 2 * h <= c
  BY AnglesAssumption
<1>1. PICK k \in Int : n = (n % c) + k * c /\ (n % c) \in 0 .. c - 1
  BY <1>0, Turns
<1>2. Ang!Signed(n) = IF (n % c) < h THEN (n % c) ELSE (n % c) - c
  BY DEF Ang!Signed
<1> HIDE DEF h
<1>3. Ang!Signed(n) \in Int
  BY <1>0, <1>1, <1>2
<1>4. \E j \in Int : Ang!Signed(n) = n + j * c
  <2>1. -k \in Int /\ -k - 1 \in Int /\ (-k) * c = -(k * c) /\ (-k - 1) * c = -(k * c) - c /\ k * c \in Int
    BY <1>0
  <2>2. CASE (n % c) < h
    <3>1. Ang!Signed(n) = n + (-k) * c
      BY <1>0, <1>1, <1>2, <2>1, <2>2
    <3> QED BY <2>1, <3>1
  <2>3. CASE ~((n % c) < h)
    <3>1. Ang!Signed(n) = n + (-k - 1) * c
      BY <1>0, <1>1, <1>2, <2>1, <2>3
    <3> QED BY <2>1, <3>1
  <2> QED BY <2>2, <2>3
<1>5. ASSUME n \in -(h - 1) .. h - 1 PROVE Ang!Signed(n) = n
  <2> DEFINE m == (n % c)
             d == n - m
  <2>1. m \in 0 .. c - 1 /\ d \in Int /\ d = k * c /\ -2 * c < d /\ d < c
    BY <1>0, <1>1, <1>5
  <2> HIDE DEF m
  <2>2. d = 0 \/ d = -c
    <3>1. d \in {-c, 0, c}
      <4> HIDE DEF d
      <4>1. d < 2 * c
        BY <1>0, <2>1
      <4> QED BY <1>0, <2>1, <4>1, OneTurn
    <3> QED BY <1>0, <2>1, <3>1
  <2>3. Ang!Signed(n) = IF m < h THEN m ELSE m - c
    BY <1>2 DEF m
  <2> QED BY <1>0, <1>5, <2>1, <2>2, <2>3
<1> QED BY <1>3, <1>4, <1>5 DEF h

\* How far the angle may be off: one movement for every reading counted in zeros.
Slack == aZeros * Ang!Limit

Within(x, s) == -s <= x /\ x <= s

AngTypeOK ==
  /\ aKind \in {"AS5048B", "Encoder"} /\ aPc \in {"idle", "last", "bInit"} /\ aBInit \in BOOLEAN
  /\ aTurned \in Int /\ aBase \in Int /\ aLast \in Int /\ aAngle \in Int
  /\ aOrigin \in Int /\ aUpto \in Int /\ aZeros \in Nat

EncoderInv ==
  /\ aPc = "idle" /\ aZeros = 0
  /\ aLast = Ang!Signed(aUpto - aBase) /\ aAngle = aUpto - aOrigin

\* After a reading of 0 the next movement may be lost, and is accounted for already.
MagneticInv ==
  /\ aLast \in 0 .. AngCircle - 1
  /\ aBInit /\ aPc # "bInit" => aLast = aUpto % AngCircle
  /\ aBInit /\ aPc = "bInit" => aLast = 0 \/ aLast = aUpto % AngCircle
  /\ aPc # "idle" \/ ~aBInit => Within(aAngle, Slack)
  /\ aPc = "idle" /\ aBInit =>
       IF aLast = 0 THEN Within(aAngle - (aOrigin - aUpto), Slack - Ang!Limit)
                    ELSE Within(aAngle - (aOrigin - aUpto), Slack)

\* The inductive invariant.
AngInv == /\ AngTypeOK /\ Within(aTurned - aUpto, Ang!Limit)
          /\ aKind = "Encoder" => EncoderInv
          /\ aKind = "AS5048B" => MagneticInv

\* The limits are those of what can be told apart.
LEMMA Limits ==
  ASSUME AngTypeOK
  PROVE  /\ Ang!Limit \in Nat /\ Ang!Limit < AngCircle /\ Slack \in Nat
         /\ aKind = "AS5048B" => Ang!Limit = AngCircle - AngJump - 1 /\ AngGlitch <= Ang!Limit /\ Ang!Limit <= AngJump
         /\ aKind = "Encoder" => Ang!Limit = AngCircle \div 2 - 1
<1>1. Ang!Limit = IF aKind = "AS5048B" THEN AngCircle - AngJump - 1 ELSE AngCircle \div 2 - 1
  BY DEF Ang!Limit
<1>2. /\ Ang!Limit \in Nat /\ Ang!Limit < AngCircle
      /\ aKind = "AS5048B" => Ang!Limit = AngCircle - AngJump - 1 /\ AngGlitch <= Ang!Limit /\ Ang!Limit <= AngJump
      /\ aKind = "Encoder" => Ang!Limit = AngCircle \div 2 - 1
  BY <1>1, AnglesAssumption DEF AngTypeOK
<1>3. \A i, j \in Nat : i * j \in Nat
  OBVIOUS
<1> QED BY <1>2, <1>3 DEF Slack, AngTypeOK

\* The movement that callback() adds: the one there was, or after a 0 none.
LEMMA Added ==
  ASSUME AngTypeOK, aKind = "AS5048B", aLast = aUpto % AngCircle,
         Within(aTurned - aUpto, Ang!Limit)
  PROVE  /\ Ang!Diff(aTurned % AngCircle) \in {aUpto - aTurned, 0}
         /\ aLast # 0 => Ang!Diff(aTurned % AngCircle) = aUpto - aTurned
<1> DEFINE cur == aTurned % AngCircle
           l == Ang!Limit
           d == aLast - cur
           t == aUpto - aTurned
<1>1. /\ l = AngCircle - AngJump - 1 /\ AngGlitch <= l /\ l <= AngJump /\ l \in Nat
      /\ AngCircle \in Nat \ {0} /\ AngJump \in Nat /\ AngGlitch \in Nat
  BY Limits, AnglesAssumption
<1>2. t \in Int /\ Within(t, l) /\ aTurned \in Int /\ aUpto \in Int
  BY <1>1 DEF AngTypeOK, Within
<1>3. cur \in 0 .. AngCircle - 1 /\ aLast \in 0 .. AngCircle - 1 /\ d - t \in {-AngCircle, 0, AngCircle}
  <2>1. -AngCircle < aTurned - aUpto /\ aTurned - aUpto < AngCircle
    BY <1>1, <1>2 DEF Within
  <2> QED BY <1>2, <2>1, Moved
<1>4. Ang!Diff(cur) = IF aLast = -1 \/ (aLast = 0 /\ (d > AngGlitch \/ d < -AngGlitch)) THEN 0
                      ELSE IF d < -AngJump THEN d + AngCircle
                      ELSE IF d > AngJump THEN d - AngCircle ELSE d
  BY DEF Ang!Diff
<1> HIDE DEF cur, l, t
<1>5. d \in Int
  BY <1>1, <1>3
<1> HIDE DEF d
<1>6. d - t = 0 => -AngJump <= d /\ d <= AngJump
  BY <1>1, <1>2, <1>5 DEF Within
<1>7. d - t = -AngCircle => d < -AngJump
  BY <1>1, <1>2, <1>5 DEF Within
<1>8. d - t = AngCircle => d > AngJump
  BY <1>1, <1>2, <1>5 DEF Within
<1>9. (IF d < -AngJump THEN d + AngCircle ELSE IF d > AngJump THEN d - AngCircle ELSE d) = t
  BY <1>1, <1>2, <1>3, <1>5, <1>6, <1>7, <1>8
<1>10. Ang!Diff(cur) \in {t, 0} /\ (aLast # 0 => Ang!Diff(cur) = t)
  <2>1. aLast # -1
    BY <1>1, <1>3
  <2> QED BY <1>4, <1>9, <2>1
<1> QED BY <1>10 DEF cur, t

\* After a 0 a small movement is added at most.
LEMMA AddedSmall ==
  ASSUME AngTypeOK, aKind = "AS5048B", aLast = 0, NEW cur \in 0 .. AngCircle - 1
  PROVE  Ang!Diff(cur) \in Int /\ Within(Ang!Diff(cur), Ang!Limit)
<1>1. /\ Ang!Limit \in Nat /\ AngGlitch <= Ang!Limit /\ Ang!Limit <= AngJump
      /\ AngCircle \in Nat \ {0} /\ AngJump \in Nat /\ AngGlitch \in Nat /\ cur \in Int
  BY Limits, AnglesAssumption
<1>2. Ang!Diff(cur) = IF -cur > AngGlitch \/ -cur < -AngGlitch THEN 0
                      ELSE IF -cur < -AngJump THEN -cur + AngCircle
                      ELSE IF -cur > AngJump THEN -cur - AngCircle ELSE -cur
  <2>1. aLast - cur = -cur /\ aLast # -1
    BY <1>1
  <2> QED BY <2>1 DEF Ang!Diff
<1> QED BY <1>1, <1>2 DEF Within

LEMMA AngStart == Ang!Init => AngInv
<1> SUFFICES ASSUME Ang!Init PROVE AngInv
  OBVIOUS
<1>1. AngTypeOK /\ aTurned - aUpto = 0 /\ aUpto - aBase = 0 /\ aUpto - aOrigin = 0
  <2>1. aTurned \in Int
    BY AnglesAssumption DEF Ang!Init
  <2>2. AngTypeOK
    <3>1. 0 \in Int /\ 0 \in Nat /\ aTurned \in Int
      BY <2>1
    <3> QED BY <3>1, Zenon DEF Ang!Init, AngTypeOK
  <2> QED BY <2>1, <2>2 DEF Ang!Init
<1>2. Ang!Limit \in Nat /\ Slack = 0
  BY <1>1, Limits DEF Ang!Init, Slack
<1>3. Within(aTurned - aUpto, Ang!Limit)
  BY <1>1, <1>2 DEF Within
<1>4. EncoderInv
  <2>1. 0 \in -(AngCircle \div 2 - 1) .. AngCircle \div 2 - 1
    BY AnglesAssumption
  <2>2. Ang!Signed(0) = 0
    BY <2>1, SignedTurns
  <2> QED BY <1>1, <2>2 DEF Ang!Init, EncoderInv
<1>5. MagneticInv
  BY <1>2, AnglesAssumption DEF Ang!Init, MagneticInv, Within
<1> QED BY <1>1, <1>3, <1>4, <1>5 DEF AngInv

\* The shaft turns when all of its last movement was read.
LEMMA AngTurned ==
  ASSUME AngInv, NEW d \in -Ang!Limit .. Ang!Limit, Ang!Turn(d)
  PROVE  AngInv'
<1>1. Ang!Limit \in Nat /\ d \in Int /\ Within(d, Ang!Limit)
  BY Limits DEF AngInv, Within
<1>2. /\ aTurned = aUpto /\ aTurned' = aTurned + d /\ Ang!Limit' = Ang!Limit
      /\ UNCHANGED <<aKind, aBase, aBInit, aLast, aAngle, aPc, aOrigin, aUpto, aZeros>>
  BY DEF Ang!Turn, Ang!Limit
<1>3. AngTypeOK' /\ aTurned' - aUpto' = d
  BY <1>1, <1>2 DEF AngInv, AngTypeOK
<1>4. Within(aTurned - aUpto, Ang!Limit)'
  BY <1>1, <1>2, <1>3 DEF Within
<1>5. (aKind = "Encoder" => EncoderInv)'
  BY <1>2 DEF AngInv, EncoderInv, Ang!Signed
<1>6. (aKind = "AS5048B" => MagneticInv)'
  BY <1>2 DEF AngInv, MagneticInv, Slack, Within
<1> QED BY <1>3, <1>4, <1>5, <1>6 DEF AngInv

\* After a reading the angle is off by one movement more at most, and by none
\* that is not counted.
LEMMA AngRead ==
  ASSUME AngInv, Ang!callback
  PROVE  AngInv'
<1> DEFINE l == Ang!Limit
           s == Slack
           cur == aTurned % AngCircle
           e == aAngle - (aOrigin - aUpto)
           move == aUpto - aTurned
           diff == Ang!Diff(cur)
<1>1. /\ aKind = "AS5048B" /\ aLast' = cur /\ aBInit' /\ aUpto' = aTurned
      /\ aAngle' = IF aBInit THEN aAngle + diff ELSE aAngle
      /\ aOrigin' = IF aBInit THEN aOrigin ELSE aTurned
      /\ aZeros' = IF cur = 0 \/ aPc # "idle" THEN aZeros + 1 ELSE aZeros
      /\ UNCHANGED <<aKind, aTurned, aBase, aPc>> /\ l' = l
  BY DEF Ang!callback, Ang!Limit
<1>2. /\ AngTypeOK /\ MagneticInv /\ l \in Nat /\ s \in Nat /\ Within(move, l) /\ move \in Int
      /\ Within(aTurned - aUpto, l)
  <2>1. AngTypeOK /\ MagneticInv /\ Within(aTurned - aUpto, l)
    BY <1>1 DEF AngInv
  <2>2. l \in Nat /\ s \in Nat
    BY <2>1, Limits
  <2>3. aTurned \in Int /\ aUpto \in Int
    BY <2>1 DEF AngTypeOK
  <2> QED BY <2>1, <2>2, <2>3 DEF Within
<1>3. cur \in 0 .. AngCircle - 1
  BY <1>2, AnglesAssumption DEF AngTypeOK
<1>4. aBInit => diff \in Int /\ Within(diff, l)
  <2>1. CASE aBInit /\ aLast = aUpto % AngCircle
    <3>1. diff \in {move, 0}
      BY <1>1, <1>2, <2>1, Added
    <3> QED BY <1>2, <3>1 DEF Within
  <2>2. CASE aLast = 0
    BY <1>1, <1>2, <1>3, <2>2, AddedSmall
  <2> QED BY <1>2, <2>1, <2>2 DEF MagneticInv
<1>5. s' = IF cur = 0 \/ aPc # "idle" THEN s + l ELSE s
  <2>1. (aZeros + 1) * l = aZeros * l + l
    BY <1>2 DEF AngTypeOK
  <2> QED BY <1>1, <2>1, Zenon DEF Slack
<1>6. AngTypeOK'
  <2>1. aAngle' \in Int /\ aLast' \in Int /\ aOrigin' \in Int /\ aZeros' \in Nat
    BY <1>1, <1>2, <1>3, <1>4, AnglesAssumption DEF AngTypeOK
  <2> QED BY <1>1, <1>2, <2>1 DEF AngTypeOK
<1>7. Within(aTurned - aUpto, Ang!Limit)'
  <2>1. aTurned' - aUpto' = 0
    BY <1>1, <1>2 DEF AngTypeOK
  <2> QED BY <1>1, <1>2, <2>1 DEF Within
<1>8. aBInit' /\ aLast' = aUpto' % AngCircle /\ aLast' \in 0 .. AngCircle - 1
  BY <1>1, <1>3
<1>9. aPc' # "idle" => Within(aAngle', s')
  <2> SUFFICES ASSUME aPc' # "idle" PROVE Within(aAngle', s')
    OBVIOUS
  <2>1. s' = s + l /\ Within(aAngle, s) /\ aAngle \in Int
    BY <1>1, <1>2, <1>5 DEF MagneticInv, AngTypeOK
  <2> HIDE DEF l, s, diff
  <2>2. aBInit => Within(aAngle + diff, s + l)
    BY <1>2, <1>4, <2>1 DEF Within
  <2>3. Within(aAngle, s + l)
    BY <1>2, <2>1 DEF Within
  <2> QED BY <1>1, <2>1, <2>2, <2>3
<1>10. aPc' = "idle" => IF aLast' = 0 THEN Within(aAngle' - (aOrigin' - aUpto'), s' - l')
                                      ELSE Within(aAngle' - (aOrigin' - aUpto'), s')
  <2> SUFFICES ASSUME aPc = "idle"
               PROVE  IF cur = 0 THEN Within(aAngle' - (aOrigin' - aUpto'), s' - l)
                                 ELSE Within(aAngle' - (aOrigin' - aUpto'), s')
    BY <1>1
  <2>1. Within(aAngle' - (aOrigin' - aUpto'), s) 
    <3>1. CASE ~aBInit
      <4>1. aAngle' - (aOrigin' - aUpto') = aAngle
        BY <1>1, <1>2, <3>1 DEF AngTypeOK
      <4> QED BY <1>2, <3>1, <4>1 DEF MagneticInv
    <3>2. CASE aBInit
      <4>1. /\ diff \in {move, 0} /\ (aLast # 0 => diff = move)
            /\ aAngle' - (aOrigin' - aUpto') = e + (diff - move) /\ e \in Int
        <5>1. diff \in {move, 0} /\ (aLast # 0 => diff = move)
          BY <1>1, <1>2, <3>2, Added DEF MagneticInv
        <5>2. aAngle' = aAngle + diff /\ aOrigin' = aOrigin /\ aUpto' = aTurned
          BY <1>1, <3>2
        <5> HIDE DEF diff
        <5>3. diff \in Int /\ aAngle \in Int /\ aOrigin \in Int /\ aTurned \in Int /\ aUpto \in Int
          BY <1>2, <5>1 DEF AngTypeOK
        <5> QED BY <5>1, <5>2, <5>3
      <4>2. IF aLast = 0 THEN Within(e, s - l) ELSE Within(e, s)
        BY <1>2, <3>2 DEF MagneticInv
      <4> HIDE DEF e, l, s, diff, move
      <4>3. CASE aLast # 0
        BY <1>2, <4>1, <4>2, <4>3 DEF Within
      <4>4. CASE aLast = 0
        <5>1. Within(e + (diff - move), s)
          BY <1>2, <4>1, <4>2, <4>4 DEF Within
        <5> QED BY <4>1, <5>1
      <4> QED BY <4>3, <4>4
    <3> QED BY <3>1, <3>2
  <2>2. CASE cur = 0
    <3>1. s' - l = s
      <4>1. s' = s + l
        BY <1>5, <2>2
      <4> HIDE DEF s, l
      <4> QED BY <1>2, <4>1
    <3> QED BY <2>1, <2>2, <3>1
  <2>3. CASE cur # 0
    BY <1>5, <2>1, <2>3
  <2> QED BY <2>2, <2>3
<1>11. MagneticInv'
  BY <1>8, <1>9, <1>10 DEF MagneticInv
<1> QED BY <1>1, <1>6, <1>7, <1>11 DEF AngInv

\* reset(), assignment by assignment.
LEMMA AngReset ==
  ASSUME AngInv, Ang!reset \/ Ang!resetLast \/ Ang!resetInit
  PROVE  AngInv'
<1>1. /\ aTurned' = aTurned /\ aUpto' = aUpto /\ aKind' = aKind /\ aBase' = aBase
      /\ Ang!Limit' = Ang!Limit
  BY DEF Ang!reset, Ang!resetLast, Ang!resetInit, Ang!Limit
<1>2. aKind = "AS5048B" /\ AngTypeOK /\ MagneticInv /\ Within(aTurned - aUpto, Ang!Limit)
  <2>1. aKind = "AS5048B"
    <3>1. aKind = "AS5048B" \/ aPc # "idle"
      BY DEF Ang!reset, Ang!resetLast, Ang!resetInit
    <3>2. aKind \in {"AS5048B", "Encoder"} /\ (aKind = "Encoder" => aPc = "idle")
      BY DEF AngInv, AngTypeOK, EncoderInv
    <3> QED BY <3>1, <3>2
  <2> QED BY <2>1 DEF AngInv
<1>3. Within(aTurned - aUpto, Ang!Limit)'
  BY <1>1, <1>2 DEF Within
<1>4. AngTypeOK'
  <2>1. 0 \in Int /\ 0 \in Nat /\ aUpto \in Int
    BY <1>2 DEF AngTypeOK
  <2>2. CASE Ang!reset
    BY <1>1, <1>2, <2>1, <2>2, Zenon DEF Ang!reset, AngTypeOK
  <2>3. CASE Ang!resetLast
    BY <1>1, <1>2, <2>1, <2>3, Zenon DEF Ang!resetLast, AngTypeOK
  <2>4. CASE Ang!resetInit
    BY <1>1, <1>2, <2>1, <2>4, Zenon DEF Ang!resetInit, AngTypeOK
  <2> QED BY <2>2, <2>3, <2>4
<1>5. Slack \in Nat /\ Ang!Limit \in Nat
  BY <1>2, Limits
<1>6. MagneticInv'
  <2>1. CASE Ang!reset
    <3>1. /\ aAngle' = 0 /\ aPc' = "last" /\ aPc = "idle" /\ aZeros' = 0
          /\ UNCHANGED <<aBInit, aLast>>
      BY <2>1 DEF Ang!reset
    <3>2. Within(aAngle', Slack')
      BY <1>1, <1>5, <3>1 DEF Slack, Within
    <3> QED BY <1>1, <1>2, <3>1, <3>2 DEF MagneticInv
  <2>2. CASE Ang!resetLast
    <3>1. /\ aPc = "last" /\ aPc' = "bInit" /\ aLast' = 0 /\ Slack' = Slack
          /\ UNCHANGED <<aBInit, aAngle>>
      BY <1>1, <2>2 DEF Ang!resetLast, Slack
    <3> QED BY <1>1, <1>2, <3>1, AnglesAssumption DEF MagneticInv, Within
  <2>3. CASE Ang!resetInit
    <3>1. /\ aPc = "bInit" /\ aPc' = "idle" /\ ~aBInit' /\ Slack' = Slack
          /\ UNCHANGED <<aLast, aAngle>>
      BY <1>1, <2>3 DEF Ang!resetInit, Slack
    <3> QED BY <1>1, <1>2, <3>1 DEF MagneticInv, Within
  <2> QED BY <2>1, <2>2, <2>3
<1> QED BY <1>1, <1>2, <1>3, <1>4, <1>6 DEF AngInv

\* The difference of two readings of the encoder, wrapped, is the movement.
LEMMA Wrapped ==
  ASSUME NEW u \in Int, NEW t \in Int,
         t - u \in -(AngCircle \div 2 - 1) .. AngCircle \div 2 - 1
  PROVE  Ang!Signed(Ang!Signed(t) - Ang!Signed(u)) = t - u
<1> DEFINE c == AngCircle
           h == c \div 2
           a == Ang!Signed(t)
           b == Ang!Signed(u)
           d == a - b
           r == Ang!Signed(d)
<1>0. c \in Nat \ {0} /\ h \in Nat /\ 2 * h <= c
  BY AnglesAssumption
<1>1. a \in Int /\ b \in Int /\ d \in Int
  BY SignedTurns
<1>2. PICK i \in Int : a = t + i * c
  BY SignedTurns
<1>3. PICK j \in Int : b = u + j * c
  BY SignedTurns
<1>4. d % c = (t - u) % c
  <2>1. d = (t - u) + (i - j) * c
    <3> DEFINE ic == i * c
               jc == j * c
    <3>1. (i - j) * c = ic - jc /\ ic \in Int /\ jc \in Int
      BY <1>0
    <3>2. a = t + ic /\ b = u + jc
      BY <1>2, <1>3
    <3> HIDE DEF ic, jc, a, b
    <3> QED BY <3>1, <3>2
  <2> DEFINE k == i - j
             x == t - u
  <2>2. k \in Int /\ x \in Int /\ d = x + k * c
    BY <2>1
  <2> HIDE DEF k, x, d
  <2>3. (x + k * c) % c = x % c
    BY <1>0, <2>2, SameRemainder
  <2> QED BY <2>2, <2>3 DEF x
<1>5. Ang!Signed(d) = Ang!Signed(t - u)
  BY <1>4 DEF Ang!Signed
<1>6. Ang!Signed(t - u) = t - u
  BY SignedTurns
<1> QED BY <1>5, <1>6

\* The encoder.
LEMMA AngMeasured ==
  ASSUME AngInv, Ang!measure \/ Ang!zero
  PROVE  AngInv'
<1>1. /\ aKind = "Encoder" /\ aKind' = aKind /\ aUpto' = aTurned /\ aTurned' = aTurned
      /\ UNCHANGED <<aPc, aZeros, aBInit>> /\ Ang!Limit' = Ang!Limit
  BY DEF Ang!measure, Ang!zero, Ang!Limit
<1>2. AngTypeOK /\ EncoderInv /\ Within(aTurned - aUpto, Ang!Limit)
  BY <1>1 DEF AngInv
<1>3. Ang!Limit \in Nat /\ Ang!Limit = AngCircle \div 2 - 1 /\ aTurned \in Int /\ aUpto \in Int /\ aBase \in Int
  BY <1>1, <1>2, Limits DEF AngTypeOK
<1>4. Within(aTurned - aUpto, Ang!Limit)'
  <2>1. aTurned' - aUpto' = 0
    BY <1>1, <1>3
  <2> QED BY <1>1, <1>3, <2>1 DEF Within
<1>5. CASE Ang!measure
  <2>1. /\ aLast' = Ang!Signed(aTurned - aBase) /\ aAngle' = aAngle + Ang!Signed(aLast' - aLast)
        /\ UNCHANGED <<aBase, aOrigin>>
    BY <1>5 DEF Ang!measure
  <2>2. Ang!Signed(aLast' - aLast) = aTurned - aUpto
    <3> DEFINE t == aTurned - aBase
               u == aUpto - aBase
    <3>1. t \in Int /\ u \in Int /\ t - u = aTurned - aUpto
      BY <1>3
    <3>2. t - u \in -(AngCircle \div 2 - 1) .. AngCircle \div 2 - 1
      BY <1>2, <1>3, <3>1 DEF Within
    <3>3. aLast' = Ang!Signed(t) /\ aLast = Ang!Signed(u)
      BY <1>2, <2>1 DEF EncoderInv
    <3> HIDE DEF t, u
    <3>4. Ang!Signed(Ang!Signed(t) - Ang!Signed(u)) = t - u
      BY <3>1, <3>2, Wrapped
    <3> QED BY <3>1, <3>3, <3>4
  <2>3. aAngle' = aTurned - aOrigin /\ aAngle' \in Int /\ aOrigin \in Int
    BY <1>2, <1>3, <2>1, <2>2 DEF EncoderInv, AngTypeOK
  <2>4. aLast' \in Int
    <3>1. aTurned - aBase \in Int
      BY <1>3
    <3> QED BY <2>1, <3>1, SignedTurns
  <2>5. AngTypeOK'
    BY <1>1, <1>2, <2>1, <2>3, <2>4 DEF AngTypeOK
  <2>6. EncoderInv'
    <3>1. Ang!Signed(aUpto - aBase)' = Ang!Signed(aTurned - aBase)
      BY <1>1, <2>1 DEF Ang!Signed
    <3> QED BY <1>1, <1>2, <2>1, <2>3, <3>1 DEF EncoderInv
  <2> QED BY <1>1, <1>4, <2>5, <2>6 DEF AngInv
<1>6. CASE Ang!zero
  <2>1. aBase' = aTurned /\ aLast' = 0 /\ aAngle' = 0 /\ aOrigin' = aTurned
    BY <1>6 DEF Ang!zero
  <2>2. aUpto' - aBase' = 0 /\ aUpto' - aOrigin' = 0 /\ 0 \in Int
    BY <1>1, <1>3, <2>1
  <2>3. AngTypeOK'
    BY <1>1, <1>2, <1>3, <2>1, <2>2, Zenon DEF AngTypeOK
  <2>4. Ang!Signed(0) = 0
    <3>1. 0 \in -(AngCircle \div 2 - 1) .. AngCircle \div 2 - 1
      BY AnglesAssumption
    <3> QED BY <3>1, SignedTurns
  <2>5. EncoderInv'
    <3>1. Ang!Signed(aUpto - aBase)' = Ang!Signed(0)
      BY <2>2 DEF Ang!Signed
    <3> QED BY <1>1, <1>2, <2>1, <2>2, <2>4, <3>1 DEF EncoderInv
  <2> QED BY <1>1, <1>4, <2>3, <2>5 DEF AngInv
<1> QED BY <1>5, <1>6

LEMMA AngNext == ASSUME AngInv, [Ang!Next]_(Ang!vars) PROVE AngInv'
<1>1. CASE Ang!Next
  BY <1>1, AngTurned, AngRead, AngReset, AngMeasured DEF Ang!Next
<1>2. CASE UNCHANGED Ang!vars
  BY <1>2 DEF Ang!vars, AngInv, AngTypeOK, EncoderInv, MagneticInv, Within, Slack, Ang!Limit, Ang!Signed
<1> QED BY <1>1, <1>2

LEMMA AngImplies == AngInv => Ang!Follows
<1> SUFFICES ASSUME AngInv, aPc = "idle"
             PROVE  aAngle - Ang!True \in -Slack .. Slack
  BY DEF Ang!Follows, Slack
<1>1. AngTypeOK /\ Slack \in Nat /\ Ang!Limit \in Nat
  BY Limits DEF AngInv
<1>2. aAngle \in Int /\ aOrigin \in Int /\ aUpto \in Int
  BY <1>1 DEF AngTypeOK
<1>3. CASE aKind = "Encoder"
  <2>1. Ang!True = aUpto - aOrigin /\ aAngle = aUpto - aOrigin
    BY <1>3 DEF Ang!True, AngInv, EncoderInv
  <2>2. aAngle - Ang!True = 0
    BY <1>2, <2>1
  <2> QED BY <1>1, <2>2
<1>4. CASE aKind = "AS5048B" /\ ~aBInit
  <2>1. Ang!True = 0 /\ Within(aAngle, Slack)
    BY <1>4 DEF Ang!True, AngInv, MagneticInv
  <2> QED BY <1>1, <1>2, <2>1 DEF Within
<1>5. CASE aKind = "AS5048B" /\ aBInit
  <2>1. /\ Ang!True = aOrigin - aUpto
        /\ Within(aAngle - (aOrigin - aUpto), Slack - Ang!Limit) \/ Within(aAngle - (aOrigin - aUpto), Slack)
    BY <1>5 DEF Ang!True, AngInv, MagneticInv
  <2> HIDE DEF Slack
  <2> QED BY <1>1, <1>2, <2>1 DEF Within
<1> QED BY <1>1, <1>3, <1>4, <1>5 DEF AngTypeOK

\* Both position sensors: the angle counts every movement since the last reset, for
\* every circle, and AS5048B loses no more than one for each reading of 0 and
\* each reading inside of reset().
LEMMA AnglesFollow == Ang!Spec => []Ang!Follows
  BY AngStart, AngNext, AngImplies, PTL DEF Ang!Spec

-----------------------------------------------------------------------------
(* Moving average                                                          *)

\* What a sum is, number by number.
Sums(s, g) == /\ g \in [0 .. Len(s) -> Int] /\ g[0] = 0
              /\ \A n \in 1 .. Len(s) : g[n] = g[n - 1] + s[n]

\* The recursive function is the one function that adds up the numbers.
LEMMA SumIs ==
  ASSUME NEW s \in Seq(Int), NEW g, Sums(s, g)
  PROVE  Avg!SumOf(s) = g[Len(s)]
<1> DEFINE F(f) == f = [n \in 0 .. Len(s) |-> IF n = 0 THEN 0 ELSE f[n - 1] + s[n]]
           u == CHOOSE f : F(f)
<1>0. Len(s) \in Nat
  OBVIOUS
<1>1. F(g)
  <2>1. \A n \in 0 .. Len(s) : n # 0 => n \in 1 .. Len(s)
    BY <1>0
  <2>2. \A n \in 0 .. Len(s) : g[n] = IF n = 0 THEN 0 ELSE g[n - 1] + s[n]
    BY <2>1, Zenon DEF Sums
  <2>3. g = [n \in 0 .. Len(s) |-> g[n]]
    BY DEF Sums
  <2> QED BY <2>2, <2>3, Zenon
<1>2. F(u)
  <2> HIDE DEF F
  <2> QED BY <1>1
<1>3. Avg!SumOf(s) = u[Len(s)]
  BY Zenon DEF Avg!SumOf
<1> HIDE DEF u
<1>4. \A n \in 0 .. Len(s) : u[n] = IF n = 0 THEN 0 ELSE u[n - 1] + s[n]
  <2>1. u = [n \in 0 .. Len(s) |-> IF n = 0 THEN 0 ELSE u[n - 1] + s[n]]
    BY <1>2
  <2> SUFFICES ASSUME NEW n \in 0 .. Len(s) PROVE u[n] = IF n = 0 THEN 0 ELSE u[n - 1] + s[n]
    OBVIOUS
  <2> QED BY <2>1, Zenon
<1> DEFINE D == {n \in 0 .. Len(s) : u[n] # g[n]}
<1>5. D = {}
  <2> SUFFICES ASSUME D # {} PROVE FALSE
    OBVIOUS
  <2>1. D \subseteq Nat
    OBVIOUS
  <2>2. PICK n \in D : \A m \in D : n <= m
    BY <2>1, LeastNumber
  <2>3. n \in 0 .. Len(s) /\ u[n] # g[n]
    OBVIOUS
  <2>4. n # 0
    BY <1>4, <2>3 DEF Sums
  <2>5. n - 1 \in 0 .. Len(s) /\ n \in 1 .. Len(s) /\ n - 1 < n
    BY <1>0, <2>3, <2>4
  <2>6. u[n - 1] = g[n - 1]
    <3>1. n - 1 \notin D
      <4> HIDE DEF D
      <4> QED BY <2>2, <2>5
    <3> QED BY <2>5, <3>1
  <2>7. u[n] = u[n - 1] + s[n]
    BY <1>4, <2>3, <2>4
  <2> QED BY <2>3, <2>5, <2>6, <2>7 DEF Sums
<1>6. Len(s) \in 0 .. Len(s)
  BY <1>0
<1> QED BY <1>3, <1>5, <1>6

\* There is one.
LEMMA SumExists ==
  ASSUME NEW s \in Seq(Int)
  PROVE  \E g : Sums(s, g)
<1> DEFINE P(k) == \E g : /\ g \in [0 .. k -> Int] /\ g[0] = 0
                          /\ \A n \in 1 .. k : g[n] = g[n - 1] + s[n]
           D == {k \in 0 .. Len(s) : ~P(k)}
<1>0. Len(s) \in Nat
  OBVIOUS
<1>1. D = {}
  <2> SUFFICES ASSUME D # {} PROVE FALSE
    OBVIOUS
  <2>1. D \subseteq Nat
    OBVIOUS
  <2>2. PICK k \in D : \A m \in D : k <= m
    BY <2>1, LeastNumber
  <2>3. k \in 0 .. Len(s) /\ ~P(k)
    OBVIOUS
  <2>4. k # 0
    <3>1. P(0)
      <4> DEFINE z == [n \in 0 .. 0 |-> 0]
      <4>1. z \in [0 .. 0 -> Int] /\ z[0] = 0 /\ \A n \in 1 .. 0 : z[n] = z[n - 1] + s[n]
        OBVIOUS
      <4> QED BY <4>1
    <3> QED BY <2>3, <3>1
  <2>5. k - 1 \in 0 .. Len(s) /\ k \in 1 .. Len(s) /\ k - 1 < k
    BY <1>0, <2>3, <2>4
  <2>6. P(k - 1)
    <3>1. k - 1 \notin D
      <4> HIDE DEF D
      <4> QED BY <2>2, <2>5
    <3> HIDE DEF P
    <3> QED BY <2>5, <3>1
  <2>7. PICK g : /\ g \in [0 .. k - 1 -> Int] /\ g[0] = 0
                 /\ \A n \in 1 .. k - 1 : g[n] = g[n - 1] + s[n]
    BY <2>6
  <2> DEFINE h == [n \in 0 .. k |-> IF n = k THEN g[k - 1] + s[k] ELSE g[n]]
  <2>8. s[k] \in Int /\ g[k - 1] \in Int
    BY <2>5, <2>7
  <2>9. h \in [0 .. k -> Int] /\ h[0] = 0
    BY <2>3, <2>4, <2>5, <2>7, <2>8
  <2>10. ASSUME NEW n \in 1 .. k PROVE h[n] = h[n - 1] + s[n]
    <3>1. n \in 0 .. k /\ n - 1 \in 0 .. k /\ n - 1 # k /\ (n # k => n \in 1 .. k - 1)
      BY <2>5
    <3>2. h[n - 1] = g[n - 1] /\ h[n] = IF n = k THEN g[k - 1] + s[k] ELSE g[n]
      BY <3>1
    <3> QED BY <2>7, <3>1, <3>2
  <2>11. P(k)
    <3> HIDE DEF h
    <3> QED BY <2>9, <2>10
  <2> QED BY <2>3, <2>11
<1>2. P(Len(s))
  <2> HIDE DEF P
  <2>1. Len(s) \in 0 .. Len(s)
    BY <1>0
  <2> QED BY <1>1, <2>1
<1> QED BY <1>2 DEF Sums

\* What enters a sequence enters its sum, and what leaves it leaves the sum.
LEMMA SumNone == Avg!SumOf(<< >>) = 0
<1> DEFINE z == [n \in 0 .. 0 |-> 0]
           e == << >>
<1>1. e \in Seq(Int) /\ Len(e) = 0
  OBVIOUS
<1>2. z \in [0 .. 0 -> Int] /\ z[0] = 0 /\ \A n \in 1 .. 0 : z[n] = z[n - 1] + e[n]
  OBVIOUS
<1> HIDE DEF z, e
<1>3. Sums(e, z)
  BY <1>1, <1>2 DEF Sums
<1>4. Avg!SumOf(e) = z[0]
  BY <1>1, <1>3, SumIs
<1> QED BY <1>2, <1>4 DEF e

LEMMA SumAppend ==
  ASSUME NEW s \in Seq(Int), NEW v \in Int
  PROVE  Avg!SumOf(s) \in Int /\ Avg!SumOf(Append(s, v)) = Avg!SumOf(s) + v
<1> DEFINE a == Append(s, v)
<1>1. PICK g : Sums(s, g)
  BY SumExists
<1>2. Avg!SumOf(s) = g[Len(s)]
  BY <1>1, SumIs
<1>3. /\ a \in Seq(Int) /\ Len(a) = Len(s) + 1 /\ Len(s) \in Nat /\ a[Len(s) + 1] = v
      /\ \A n \in 1 .. Len(s) : a[n] = s[n]
  OBVIOUS
<1> HIDE DEF a
<1> DEFINE h == [n \in 0 .. Len(s) + 1 |-> IF n = Len(s) + 1 THEN g[Len(s)] + v ELSE g[n]]
<1>4. g[Len(s)] \in Int
  BY <1>1, <1>3 DEF Sums
<1>5. h \in [0 .. Len(a) -> Int] /\ h[0] = 0 /\ h[Len(a)] = g[Len(s)] + v
  BY <1>1, <1>3, <1>4 DEF Sums
<1>6. ASSUME NEW n \in 1 .. Len(a) PROVE h[n] = h[n - 1] + a[n]
  <2>1. /\ n \in 0 .. Len(s) + 1 /\ n - 1 \in 0 .. Len(s) + 1 /\ n - 1 # Len(s) + 1
        /\ (n # Len(s) + 1 => n \in 1 .. Len(s))
        /\ (n = Len(s) + 1 => n - 1 = Len(s))
    BY <1>3, SMTT(60)
  <2>2. h[n - 1] = g[n - 1] /\ h[n] = IF n = Len(s) + 1 THEN g[Len(s)] + v ELSE g[n]
    BY <2>1
  <2>3. CASE n = Len(s) + 1
    BY <1>3, <2>1, <2>2, <2>3
  <2>4. CASE n # Len(s) + 1
    BY <1>1, <1>3, <2>1, <2>2, <2>4 DEF Sums
  <2> QED BY <2>3, <2>4
<1> HIDE DEF h
<1>7. Avg!SumOf(a) = h[Len(a)]
  BY <1>3, <1>5, <1>6, SumIs DEF Sums
<1> QED BY <1>2, <1>4, <1>5, <1>7 DEF a

LEMMA SumTail ==
  ASSUME NEW s \in Seq(Int), s # << >>
  PROVE  /\ Head(s) \in Int /\ Tail(s) \in Seq(Int)
         /\ Avg!SumOf(Tail(s)) = Avg!SumOf(s) - Head(s)
<1> DEFINE a == Tail(s)
<1>1. PICK g : Sums(s, g)
  BY SumExists
<1>2. Avg!SumOf(s) = g[Len(s)]
  BY <1>1, SumIs
<1>3. /\ a \in Seq(Int) /\ Len(a) = Len(s) - 1 /\ Len(s) \in Nat \ {0} /\ Head(s) = s[1]
      /\ \A n \in 1 .. Len(s) - 1 : a[n] = s[n + 1]
  BY EmptySeq, HeadTailProperties
<1> HIDE DEF a
<1> DEFINE h == [n \in 0 .. Len(s) - 1 |-> g[n + 1] - s[1]]
<1>4. s[1] \in Int /\ \A n \in 0 .. Len(s) : g[n] \in Int
  <2>1. 1 \in 1 .. Len(s)
    BY <1>3
  <2>2. s[1] \in Int
    BY <2>1
  <2> QED BY <1>1, <2>2 DEF Sums
<1>5. g[0] = 0 /\ g[1] = g[0] + s[1]
  <2>1. 1 \in 1 .. Len(s) /\ 1 - 1 = 0
    BY <1>3
  <2> QED BY <1>1, <2>1 DEF Sums
<1>6. h \in [0 .. Len(a) -> Int] /\ h[0] = 0 /\ h[Len(a)] = g[Len(s)] - s[1]
  <2>1. \A n \in 0 .. Len(s) - 1 : n + 1 \in 0 .. Len(s)
    BY <1>3
  <2>2. h \in [0 .. Len(a) -> Int]
    BY <1>3, <1>4, <2>1
  <2>3. 0 \in 0 .. Len(s) - 1 /\ 0 + 1 = 1 /\ Len(s) - 1 \in 0 .. Len(s) - 1 /\ (Len(s) - 1) + 1 = Len(s)
    BY <1>3
  <2>4. h[0] = g[1] - s[1] /\ h[Len(a)] = g[Len(s)] - s[1]
    BY <1>3, <2>3
  <2> QED BY <1>4, <1>5, <2>2, <2>4
<1>7. ASSUME NEW n \in 1 .. Len(a) PROVE h[n] = h[n - 1] + a[n]
  <2>1. /\ n \in 0 .. Len(s) - 1 /\ n - 1 \in 0 .. Len(s) - 1 /\ (n - 1) + 1 = n
        /\ n + 1 \in 1 .. Len(s) /\ (n + 1) - 1 = n /\ n \in 0 .. Len(s) /\ n + 1 \in 0 .. Len(s)
        /\ n \in 1 .. Len(s) - 1
    BY <1>3
  <2>2. h[n] = g[n + 1] - s[1] /\ h[n - 1] = g[n] - s[1]
    BY <2>1
  <2>3. g[n + 1] = g[n] + s[n + 1] /\ a[n] = s[n + 1]
    BY <1>1, <1>3, <2>1 DEF Sums
  <2>4. s[n + 1] \in Int /\ g[n] \in Int
    BY <1>4, <2>1
  <2> HIDE DEF h
  <2> QED BY <1>4, <2>2, <2>3, <2>4
<1> HIDE DEF h
<1>8. Avg!SumOf(a) = h[Len(a)]
  BY <1>3, <1>6, <1>7, SumIs DEF Sums
<1> QED BY <1>2, <1>3, <1>4, <1>6, <1>8 DEF a

\* The last n of a sequence.
Window(s, n) == IF Len(s) <= n THEN s ELSE SubSeq(s, Len(s) - n + 1, Len(s))

\* A piece of a sequence.
LEMMA Slice ==
  ASSUME NEW s \in Seq(Int), NEW i \in Int, NEW j \in Int, NEW n \in Nat,
         1 <= i, i <= j, j <= Len(s), j = i + n - 1
  PROVE  /\ SubSeq(s, i, j) \in Seq(Int) /\ Len(SubSeq(s, i, j)) = n
         /\ \A m \in 1 .. n : SubSeq(s, i, j)[m] = s[m + i - 1]
<1> DEFINE w == SubSeq(s, i, j)
<1>1. \A m \in i .. j : s[m] \in Int
  OBVIOUS
<1>2. /\ w \in Seq(Int) /\ Len(w) = (IF i <= j THEN j - i + 1 ELSE 0)
      /\ \A m \in 1 .. j - i + 1 : w[m] = s[i + m - 1]
  BY <1>1, SubSeqProperties
<1> HIDE DEF w
<1>3. j - i + 1 = n /\ \A m \in 1 .. n : i + m - 1 = m + i - 1
  OBVIOUS
<1> QED BY <1>2, <1>3 DEF w

\* One more number: it is the last of the window, and the first leaves.
LEMMA WindowGrows ==
  ASSUME NEW s \in Seq(Int), NEW n \in Nat \ {0}, NEW v \in Int
  PROVE  /\ Window(s, n) \in Seq(Int) /\ Len(Window(s, n)) <= n
         /\ Len(Window(s, n)) < n => Window(Append(s, v), n) = Append(Window(s, n), v)
         /\ Len(Window(s, n)) = n => Window(Append(s, v), n) = Append(Tail(Window(s, n)), v)
<1> DEFINE a == Append(s, v)
           w == Window(s, n)
<1>1. /\ Len(s) \in Nat /\ a \in Seq(Int) /\ Len(a) = Len(s) + 1 /\ a[Len(s) + 1] = v
      /\ \A i \in 1 .. Len(s) : a[i] = s[i] /\ s[i] \in Int
  OBVIOUS
<1>2. CASE Len(s) <= n
  <2>1. w = s
    BY <1>2 DEF Window
  <2>2. CASE Len(s) < n
    <3>1. Window(a, n) = a
      BY <1>1, <2>2 DEF Window
    <3> QED BY <1>1, <2>1, <2>2, <3>1
  <2>3. CASE Len(s) = n
    <3>1. Window(a, n) = SubSeq(a, 2, n + 1)
      BY <1>1, <2>3 DEF Window
    <3>2. Append(Tail(s), v) = SubSeq(a, 2, n + 1)
      <4> DEFINE l == SubSeq(a, 2, n + 1)
                 r == Append(Tail(s), v)
      <4> HIDE DEF a
      <4>1. l \in Seq(Int) /\ Len(l) = n /\ \A i \in 1 .. n : l[i] = a[i + 1]
        <5>1. /\ 2 \in Int /\ n + 1 \in Int /\ 1 <= 2 /\ 2 <= n + 1 /\ n + 1 <= Len(a)
              /\ n + 1 = 2 + n - 1 /\ n \in Nat
          BY <1>1, <2>3
        <5>2. l \in Seq(Int) /\ Len(l) = n /\ \A i \in 1 .. n : l[i] = a[i + 2 - 1]
          BY <1>1, <5>1, Slice
        <5> HIDE DEF l
        <5>3. \A i \in 1 .. n : i + 2 - 1 = i + 1
          OBVIOUS
        <5> QED BY <5>2, <5>3
      <4>2. Tail(s) \in Seq(Int) /\ Len(Tail(s)) = n - 1 /\ \A i \in 1 .. n - 1 : Tail(s)[i] = s[i + 1]
        <5>1. s # << >>
          BY <1>1, <2>3, EmptySeq
        <5> QED BY <2>3, <5>1, HeadTailProperties
      <4>3. /\ r \in Seq(Int) /\ Len(r) = n /\ r[n] = v
            /\ \A i \in 1 .. n - 1 : r[i] = s[i + 1]
        <5> DEFINE t == Tail(s)
        <5> HIDE DEF t
        <5>1. t \in Seq(Int) /\ Len(t) = n - 1 /\ \A i \in 1 .. n - 1 : t[i] = s[i + 1]
          BY <4>2 DEF t
        <5>2. Append(t, v) \in Seq(Int) /\ Len(Append(t, v)) = Len(t) + 1 /\ Append(t, v)[Len(t) + 1] = v
              /\ \A i \in 1 .. Len(t) : Append(t, v)[i] = t[i]
          BY <5>1, AppendProperties
        <5>3. Len(t) + 1 = n
          BY <5>1
        <5> QED BY <5>1, <5>2, <5>3 DEF t
      <4>4. ASSUME NEW i \in 1 .. n PROVE l[i] = r[i]
        <5>1. CASE i = n
          BY <1>1, <2>3, <4>1, <4>3, <5>1
        <5>2. CASE i # n
          <6>1. i \in 1 .. n - 1 /\ i + 1 \in 1 .. Len(s)
            BY <2>3, <5>2
          <6> QED BY <1>1, <4>1, <4>3, <6>1
        <5> QED BY <5>1, <5>2
      <4> HIDE DEF l, r
      <4>5. l = r
        BY <4>1, <4>3, <4>4, SeqEqual
      <4> QED BY <4>5 DEF l, r
    <3> QED BY <1>1, <2>1, <2>3, <3>1, <3>2, SMTT(60)
  <2> QED BY <1>1, <1>2, <2>2, <2>3
<1>3. CASE Len(s) > n
  <2> DEFINE k == Len(s) - n + 1
  <2>0. k \in 2 .. Len(s) /\ Len(a) - n + 1 = k + 1 /\ ~(Len(a) <= n)
    BY <1>1, <1>3
  <2>1. w = SubSeq(s, k, Len(s)) /\ Window(a, n) = SubSeq(a, k + 1, Len(s) + 1)
    <3>1. ~(Len(s) <= n) /\ Len(a) = Len(s) + 1
      BY <1>1, <1>3
    <3>2. w = SubSeq(s, k, Len(s))
      BY <3>1, Zenon DEF Window
    <3>3. Window(a, n) = SubSeq(a, Len(a) - n + 1, Len(a))
      BY <2>0, Zenon DEF Window
    <3> HIDE DEF a, k
    <3> QED BY <2>0, <3>1, <3>2, <3>3, Zenon
  <2>a. Len(s) = k + n - 1 /\ Len(s) + 1 = (k + 1) + n - 1
    BY <1>1
  <2> HIDE DEF k, w, a
  <2>2. w \in Seq(Int) /\ Len(w) = n /\ \A i \in 1 .. n : w[i] = s[i + k - 1]
    <3>1. k \in Int /\ Len(s) \in Int /\ 1 <= k /\ k <= Len(s)
      BY <1>1, <2>0
    <3> QED BY <2>1, <2>a, <3>1, Slice
  <2> DEFINE l == SubSeq(a, k + 1, Len(s) + 1)
             t == Tail(w)
  <2>3. l \in Seq(Int) /\ Len(l) = n /\ \A i \in 1 .. n : l[i] = a[i + k]
    <3>1. k + 1 \in Int /\ Len(s) + 1 \in Int /\ 1 <= k + 1 /\ k + 1 <= Len(s) + 1 /\ Len(s) + 1 <= Len(a)
      BY <1>1, <2>0
    <3>2. l \in Seq(Int) /\ Len(l) = n /\ \A i \in 1 .. n : l[i] = a[i + (k + 1) - 1]
      BY <1>1, <2>a, <3>1, Slice, SMTT(60)
    <3>3. \A i \in 1 .. n : i + (k + 1) - 1 = i + k
      BY <2>0
    <3> QED BY <3>2, <3>3, SMTT(60)
  <2>4. t \in Seq(Int) /\ Len(t) = n - 1 /\ \A i \in 1 .. n - 1 : t[i] = w[i + 1]
    <3>1. w # << >>
      BY <2>2, EmptySeq
    <3> QED BY <2>2, <3>1, HeadTailProperties
  <2> HIDE DEF t, l
  <2>5. /\ Append(t, v) \in Seq(Int) /\ Len(Append(t, v)) = n /\ Append(t, v)[n] = v
        /\ \A i \in 1 .. n - 1 : Append(t, v)[i] = w[i + 1]
    <3>1. Append(t, v) \in Seq(Int) /\ Len(Append(t, v)) = Len(t) + 1 /\ Append(t, v)[Len(t) + 1] = v
          /\ \A i \in 1 .. Len(t) : Append(t, v)[i] = t[i]
      BY <2>4, AppendProperties
    <3>2. Len(t) + 1 = n
      BY <2>4
    <3> QED BY <2>4, <3>1, <3>2
  <2>6. ASSUME NEW i \in 1 .. n PROVE l[i] = Append(t, v)[i]
    <3>1. CASE i = n
      <4>1. i + k = Len(s) + 1
        BY <1>1, <2>0, <2>a, <3>1
      <4> QED BY <1>1, <2>3, <2>5, <3>1, <4>1
    <3>2. CASE i # n
      <4>1. /\ i \in 1 .. n - 1 /\ i + 1 \in 1 .. n /\ i + k \in 1 .. Len(s) /\ (i + 1) + k - 1 = i + k
        BY <1>1, <2>0, <2>a, <3>2
      <4>2. l[i] = s[i + k] /\ w[i + 1] = s[i + k]
        BY <1>1, <2>2, <2>3, <4>1
      <4> QED BY <2>5, <4>1, <4>2
    <3> QED BY <3>1, <3>2
  <2>7. l = Append(t, v)
    <3> DEFINE r == Append(t, v)
    <3>1. r \in Seq(Int) /\ Len(r) = n /\ \A i \in 1 .. n : l[i] = r[i]
      BY <2>5, <2>6
    <3> HIDE DEF r
    <3>2. l = r
      BY <2>3, <3>1, SeqEqual
    <3> QED BY <3>2 DEF r
  <2>8. Window(a, n) = Append(Tail(w), v)
    BY <2>1, <2>7 DEF l, t
  <2> QED BY <2>2, <2>8 DEF w, a
<1> QED BY <1>1, <1>2, <1>3

\* The ring of the filter holds the sequence s.
AvgRings ==
  [slot : [0 .. AvgN - 1 -> AvgElem \cup {0}], len : 0 .. AvgN, size : {AvgN},
   head : 0 .. AvgN - 1, tail : 0 .. AvgN - 1, wrap : {AvgN}]

AvgRing(r, s) ==
  /\ r \in AvgRings
  /\ r.len = Len(s) /\ r.tail = At(AvgN, r.head, r.len)
  /\ s \in Seq(AvgElem) /\ Holds(AvgN, r.slot, r.head, s)

\* Of any ring, push() appends and pop() removes the head.
LEMMA AvgPushed ==
  ASSUME NEW r, NEW s, AvgRing(r, s), NEW v \in AvgElem, Len(s) < AvgN
  PROVE  AvgRing(Avg!Pushed(r, v), Append(s, v))
<1> DEFINE p == Avg!Pushed(r, v)
           h == r.head
           l == Len(s)
<1> USE DataAssumption
<1>1. /\ r \in AvgRings /\ r.slot \in [0 .. AvgN - 1 -> AvgElem \cup {0}] /\ r.len \in 0 .. AvgN
      /\ h \in 0 .. AvgN - 1 /\ r.tail \in 0 .. AvgN - 1 /\ r.wrap = AvgN
  BY DEF AvgRing, AvgRings
<1>2. /\ r.len = l /\ l \in Nat /\ r.tail = At(AvgN, h, l) /\ s \in Seq(AvgElem)
      /\ Holds(AvgN, r.slot, h, s)
  BY DEF AvgRing
<1>3. l \in 0 .. AvgN /\ 1 \in 0 .. AvgN /\ l + 1 <= AvgN /\ l + 1 \in 0 .. AvgN
  BY <1>2
<1>4. /\ At(AvgN, r.tail, 1) = At(AvgN, h, l + 1) /\ At(AvgN, r.tail, 1) \in 0 .. AvgN - 1
  <2> HIDE DEF l, h
  <2>1. At(AvgN, At(AvgN, h, l), 1) = At(AvgN, h, l + 1)
    BY <1>1, <1>3, AtSum
  <2>2. At(AvgN, h, l + 1) \in 0 .. AvgN - 1
    BY <1>1, <1>3, AtRange
  <2> QED BY <1>2, <2>1, <2>2
<1>5. /\ p \in AvgRings /\ p.slot = [r.slot EXCEPT ![r.tail] = v] /\ p.len = l + 1
      /\ p.head = h /\ p.tail = At(AvgN, r.tail, 1)
  <2>1. Avg!After(r, r.tail) = At(AvgN, r.tail, 1)
    BY <1>1 DEF Avg!After, At
  <2>2. [r.slot EXCEPT ![r.tail] = v] \in [0 .. AvgN - 1 -> AvgElem \cup {0}]
    BY <1>1
  <2> QED BY <1>1, <1>2, <1>3, <1>4, <2>1, <2>2 DEF Avg!Pushed, AvgRings
<1> HIDE DEF p
<1>6. Holds(AvgN, [r.slot EXCEPT ![r.tail] = v], h, Append(s, v))
  BY <1>1, <1>2, HoldsAppend
<1>7. Append(s, v) \in Seq(AvgElem) /\ Len(Append(s, v)) = l + 1
  BY <1>2, AppendProperties
<1> QED BY <1>4, <1>5, <1>6, <1>7 DEF AvgRing, p

LEMMA AvgPopped ==
  ASSUME NEW r, NEW s, AvgRing(r, s), s # << >>
  PROVE  AvgRing(Avg!Popped(r), Tail(s)) /\ Avg!Front(r) = Head(s)
<1> DEFINE p == Avg!Popped(r)
           h == r.head
           l == Len(s) - 1
           slot == [r.slot EXCEPT ![h] = 0]
<1> USE DataAssumption
<1>1. /\ r \in AvgRings /\ r.slot \in [0 .. AvgN - 1 -> AvgElem \cup {0}] /\ r.len \in 0 .. AvgN
      /\ h \in 0 .. AvgN - 1 /\ r.tail \in 0 .. AvgN - 1 /\ r.wrap = AvgN
  BY DEF AvgRing, AvgRings
<1>2. /\ r.len = Len(s) /\ Len(s) \in Nat /\ r.tail = At(AvgN, h, Len(s)) /\ s \in Seq(AvgElem)
      /\ Holds(AvgN, r.slot, h, s)
  BY DEF AvgRing
<1>3. /\ Len(s) # 0 /\ Tail(s) \in Seq(AvgElem) /\ Len(Tail(s)) = l
  BY <1>2, EmptySeq, HeadTailProperties
<1>4. l \in 0 .. AvgN /\ 1 \in 0 .. AvgN /\ 1 + l <= AvgN /\ 1 + l = Len(s) /\ Len(s) <= AvgN
  BY <1>1, <1>2, <1>3
<1>5. /\ r.tail = At(AvgN, At(AvgN, h, 1), l) /\ At(AvgN, h, 1) \in 0 .. AvgN - 1
  <2> HIDE DEF l, h
  <2>1. At(AvgN, At(AvgN, h, 1), l) = At(AvgN, h, 1 + l)
    BY <1>1, <1>4, AtSum
  <2>2. At(AvgN, h, 1) \in 0 .. AvgN - 1
    BY <1>1, <1>4, AtRange
  <2> QED BY <1>2, <1>4, <2>1, <2>2
<1>6. /\ slot \in [0 .. AvgN - 1 -> AvgElem \cup {0}]
      /\ \A k \in 0 .. AvgN - 1 : k # h => slot[k] = r.slot[k]
  BY <1>1
<1> HIDE DEF slot
<1>7. /\ p \in AvgRings /\ p.slot = slot /\ p.len = l /\ p.head = At(AvgN, h, 1) /\ p.tail = r.tail
  <2> DEFINE d == Avg!Dropped(r)
  <2>1. Avg!After(r, h) = At(AvgN, h, 1)
    BY <1>1 DEF Avg!After, At
  <2>2. /\ d \in AvgRings /\ d.slot = r.slot /\ d.len = l
        /\ d.head = At(AvgN, h, 1) /\ d.tail = r.tail
    BY <1>1, <1>2, <1>4, <1>5, <2>1 DEF Avg!Dropped, AvgRings
  <2> HIDE DEF d
  <2>3. p = [d EXCEPT !.slot = slot]
    BY <2>2 DEF Avg!Popped, d, slot
  <2> QED BY <1>6, <2>2, <2>3 DEF AvgRings
<1> HIDE DEF p
<1>8. r.slot[h] = Head(s) /\ Holds(AvgN, slot, At(AvgN, h, 1), Tail(s))
  <2> DEFINE old == r.slot
  <2>1. Holds(AvgN, old, h, s) /\ \A k \in 0 .. AvgN - 1 : k # h => slot[k] = old[k]
    BY <1>2, <1>6
  <2> HIDE DEF old, h
  <2>2. old[h] = Head(s) /\ Holds(AvgN, slot, At(AvgN, h, 1), Tail(s))
    BY <1>1, <1>2, <1>4, <2>1, HoldsTail
  <2> QED BY <2>2 DEF old
<1> QED BY <1>3, <1>5, <1>7, <1>8 DEF AvgRing, p, Avg!Front

\* The inductive invariant: the ring holds the last N values, and total adds them up.
AvgInv ==
  /\ vSeen \in Seq(AvgElem) /\ AvgRing(vSamples, Window(vSeen, AvgN))
  /\ vTotal = Avg!SumOf(Window(vSeen, AvgN))

LEMMA AvgStart == Avg!Init => AvgInv
<1> SUFFICES ASSUME Avg!Init PROVE AvgInv
  OBVIOUS
<1> USE DataAssumption
<1>1. << >> \in Seq(AvgElem) /\ Len(<< >>) = 0
  OBVIOUS
<1>2. Window(vSeen, AvgN) = << >> /\ vSeen = << >>
  BY <1>1 DEF Window, Avg!Init
<1>3. AvgRing(vSamples, << >>)
  <2> DEFINE slot == [i \in 0 .. AvgN - 1 |-> 0]
  <2>1. vSamples = [slot |-> slot, len |-> 0, size |-> AvgN, head |-> 0, tail |-> 0, wrap |-> AvgN]
    BY Zenon DEF Avg!Init, Avg!Fresh, Avg!Slots
  <2>2. slot \in [0 .. AvgN - 1 -> AvgElem \cup {0}] /\ 0 \in 0 .. AvgN /\ 0 \in 0 .. AvgN - 1 /\ At(AvgN, 0, 0) = 0
    BY AtRange
  <2> HIDE DEF slot
  <2>3. vSamples \in AvgRings
    BY <2>1, <2>2 DEF AvgRings
  <2>4. vSamples.len = 0 /\ vSamples.head = 0 /\ vSamples.tail = 0
    BY <2>1
  <2>5. Holds(AvgN, vSamples.slot, vSamples.head, << >>)
    BY <1>1 DEF Holds
  <2> QED BY <1>1, <2>2, <2>3, <2>4, <2>5 DEF AvgRing
<1> QED BY <1>1, <1>2, <1>3, SumNone DEF AvgInv, Avg!Init

LEMMA AvgNext == ASSUME AvgInv, [Avg!Next]_(Avg!vars) PROVE AvgInv'
<1> USE DataAssumption
<1> DEFINE w == Window(vSeen, AvgN)
<1>1. ASSUME NEW v \in AvgElem, Avg!add(v) \/ Avg!addFull(v) PROVE AvgInv'
  <2>1. /\ vSeen \in Seq(AvgElem) /\ AvgRing(vSamples, w) /\ vTotal = Avg!SumOf(w) /\ vSeen' = Append(vSeen, v)
        /\ vSeen \in Seq(Int) /\ v \in Int
    <3>1. /\ vSeen \in Seq(AvgElem) /\ AvgRing(vSamples, w) /\ vTotal = Avg!SumOf(w)
          /\ vSeen' = Append(vSeen, v)
      BY <1>1, Zenon DEF AvgInv, Avg!add, Avg!addFull
    <3>2. vSeen \in Seq(Int) /\ v \in Int
      <4>1. AvgElem \subseteq Int
        OBVIOUS
      <4>2. /\ Len(vSeen) \in Nat /\ vSeen \in [1 .. Len(vSeen) -> AvgElem]
        BY <3>1
      <4>3. vSeen \in [1 .. Len(vSeen) -> Int]
        BY <4>1, <4>2, Zenon
      <4> QED BY <4>1, <4>2, <4>3
    <3> QED BY <3>1, <3>2, Zenon
  <2>2. /\ w \in Seq(Int) /\ Len(w) <= AvgN /\ Len(w) \in Nat /\ vSeen' \in Seq(AvgElem)
        /\ Len(w) < AvgN => Window(Append(vSeen, v), AvgN) = Append(w, v)
        /\ Len(w) = AvgN => Window(Append(vSeen, v), AvgN) = Append(Tail(w), v)
    <3>1. w \in Seq(Int)
      BY <2>1, WindowGrows
    <3>2. Len(w) \in Nat
      BY <3>1
    <3>3. vSeen' \in Seq(AvgElem)
      BY <2>1
    <3> QED BY <2>1, <3>1, <3>2, <3>3, WindowGrows
  <2>3. Window(vSeen, AvgN)' = Window(Append(vSeen, v), AvgN)
    BY <2>1 DEF Window
  <2>4. vSamples.len = Len(w) /\ vSamples.size = AvgN
    BY <2>1 DEF AvgRing, AvgRings
  <2> HIDE DEF w
  <2>5. CASE Avg!add(v)
    <3>1. Len(w) < AvgN /\ vTotal' = vTotal + v /\ vSamples' = Avg!Pushed(vSamples, v)
      BY <2>2, <2>4, <2>5 DEF Avg!add, Avg!Full
    <3>2. Window(vSeen, AvgN)' = Append(w, v)
      BY <2>2, <2>3, <3>1
    <3>3. vTotal' = Avg!SumOf(Append(w, v))
      BY <2>1, <2>2, <3>1, SumAppend
    <3>4. AvgRing(vSamples', Append(w, v))
      BY <2>1, <3>1, AvgPushed
    <3> QED BY <2>2, <3>2, <3>3, <3>4 DEF AvgInv, AvgRing, Window
  <2>6. CASE Avg!addFull(v)
    <3>1. /\ Len(w) = AvgN /\ vTotal' = vTotal + v - Avg!Front(vSamples)
          /\ vSamples' = Avg!Pushed(Avg!Popped(vSamples), v)
      BY <2>2, <2>4, <2>6 DEF Avg!addFull, Avg!Full
    <3>2. Window(vSeen, AvgN)' = Append(Tail(w), v)
      BY <2>2, <2>3, <3>1
    <3>3. w # << >> /\ Len(Tail(w)) < AvgN
      BY <2>2, <3>1, EmptySeq, HeadTailProperties
    <3>4. AvgRing(Avg!Popped(vSamples), Tail(w)) /\ Avg!Front(vSamples) = Head(w)
      BY <2>1, <3>3, AvgPopped
    <3>5. AvgRing(vSamples', Append(Tail(w), v))
      BY <3>1, <3>3, <3>4, AvgPushed
    <3>6. vTotal' = Avg!SumOf(Append(Tail(w), v))
      <4>1. /\ Head(w) \in Int /\ Tail(w) \in Seq(Int) /\ Avg!SumOf(Tail(w)) = Avg!SumOf(w) - Head(w)
        BY <2>2, <3>3, SumTail
      <4>2. Avg!SumOf(w) \in Int /\ Avg!SumOf(Append(Tail(w), v)) = Avg!SumOf(Tail(w)) + v
        BY <2>1, <2>2, <4>1, SumAppend
      <4> QED BY <2>1, <3>1, <3>4, <4>1, <4>2
    <3> QED BY <2>2, <3>2, <3>5, <3>6 DEF AvgInv, AvgRing, Window
  <2> QED BY <1>1, <2>5, <2>6
<1>2. CASE UNCHANGED Avg!vars
  BY <1>2 DEF Avg!vars, AvgInv, AvgRing, Window
<1>3. Avg!Next => \E v \in AvgElem : Avg!add(v) \/ Avg!addFull(v)
  BY DEF Avg!Next
<1> QED BY <1>1, <1>2, <1>3

LEMMA AvgImplies == AvgInv => Avg!Averages
  BY DEF AvgInv, AvgRing, Avg!Averages, Avg!Latest, Window

\* The sum that is kept up to date is that of the last N values, for every size of
\* the filter, and the angles are those the shaft turned.
THEOREM SumsAlwaysFollow == Avg!Spec /\ Ang!Spec => []SumsFollow
<1>1. Avg!Spec => []Avg!Averages
  BY AvgStart, AvgNext, AvgImplies, PTL DEF Avg!Spec
<1>2. (Avg!Averages /\ Ang!Follows) => SumsFollow
  BY DEF SumsFollow
<1> QED BY <1>1, <1>2, AnglesFollow, PTL

-----------------------------------------------------------------------------
(* Series                                                                  *)

SerWord  == Nat \cup (Nat \X Nat)
SerFrame == Seq(SerWord)
SerBuf   == Seq(Nat \X Nat)

\* The first value of frame k + 1, and the last one of the first k frames.
SerFrom(k)    == IF k = 0 THEN 1 ELSE k * SerLEN
SerUpto(n, k) == Ser!Min({n, k * SerLEN - 1})

LEMMA SerMin ==
  ASSUME NEW a \in Int, NEW b \in Int
  PROVE  Ser!Min({a, b}) = IF a <= b THEN a ELSE b
<1> DEFINE P(x) == x \in {a, b} /\ \A y \in {a, b} : x <= y
           m == IF a <= b THEN a ELSE b
<1>1. P(m) /\ \A x : P(x) => x = m
  OBVIOUS
<1>2. Ser!Min({a, b}) = CHOOSE x : P(x)
  BY Zenon DEF Ser!Min
<1> HIDE DEF P, m
<1>3. (CHOOSE x : P(x)) = m
  BY <1>1
<1> QED BY <1>2, <1>3 DEF m

\* Every frame but the last is full.
LEMMA SerBounds ==
  ASSUME NEW n \in Nat, NEW k \in 0 .. n \div SerLEN
  PROVE  LET a == SerFrom(k)
             b == SerUpto(n, k + 1)
         IN  /\ a \in Nat \ {0} /\ b \in Nat /\ a <= b + 1 /\ b <= n
             /\ k = n \div SerLEN <=> b = n
             /\ k # 0 => a = SerUpto(n, k) + 1
<1> DEFINE d == n \div SerLEN
           r == n % SerLEN
           p == k * SerLEN
           w == (k + 1) * SerLEN
           t == d * SerLEN
<1>1. SerLEN \in Nat \ {0}
  BY SeriesAssumption
<1>2. d \in Nat /\ r \in 0 .. SerLEN - 1 /\ n = t + r
  <2>1. n = SerLEN * d + r /\ d \in Nat /\ r \in 0 .. SerLEN - 1
    BY <1>1, DivMod
  <2>2. SerLEN * d = t
    BY <1>1, <2>1
  <2> QED BY <2>1, <2>2
<1>3. k \in Nat /\ k <= d
  BY <1>2
<1>4. /\ p \in Nat /\ w \in Nat /\ t \in Nat /\ w = p + SerLEN
      /\ (k = 0 => p = 0) /\ (k # 0 => SerLEN <= p)
  <2> HIDE DEF d
  <2>1. p \in Nat /\ w \in Nat /\ t \in Nat
    BY <1>1, <1>2, <1>3
  <2>2. w = p + SerLEN
    BY <1>1, <1>3
  <2>3. k = 0 => p = 0
    BY <1>1
  <2>4. k # 0 => SerLEN <= p
    <3> SUFFICES ASSUME k # 0 PROVE SerLEN <= p
      OBVIOUS
    <3>1. (k - 1) * SerLEN >= 0 /\ p = (k - 1) * SerLEN + SerLEN
      BY <1>1, <1>3
    <3> QED BY <1>1, <2>1, <3>1
  <2> QED BY <2>1, <2>2, <2>3, <2>4
<1>5. p <= t /\ (k # d => w <= t) /\ (k = d => p = t)
  <2> HIDE DEF d
  <2>1. (d - k) * SerLEN >= 0 /\ t = (d - k) * SerLEN + p
    BY <1>1, <1>2, <1>3
  <2>2. k # d => (d - k - 1) * SerLEN >= 0
    BY <1>1, <1>2, <1>3
  <2>3. t = (d - k - 1) * SerLEN + w
    BY <1>1, <1>2, <1>3
  <2> DEFINE x == (d - k) * SerLEN
             y == (d - k - 1) * SerLEN
  <2>4. x \in Int /\ y \in Int
    BY <1>1, <1>2, <1>3
  <2>5. x >= 0 /\ t = x + p /\ (k # d => y >= 0) /\ t = y + w
    BY <2>1, <2>2, <2>3
  <2> HIDE DEF x, y, t, p, w
  <2>6. p <= t /\ (k # d => w <= t)
    BY <1>4, <2>4, <2>5
  <2>7. k = d => p = t
    BY DEF p, t
  <2> QED BY <2>6, <2>7
<1>6. /\ SerUpto(n, k + 1) = IF n <= w - 1 THEN n ELSE w - 1
      /\ SerUpto(n, k) = IF n <= p - 1 THEN n ELSE p - 1
  <2>1. n \in Int /\ w - 1 \in Int /\ p - 1 \in Int
    BY <1>4
  <2>2. Ser!Min({n, w - 1}) = IF n <= w - 1 THEN n ELSE w - 1
    BY <2>1, SerMin
  <2>3. Ser!Min({n, p - 1}) = IF n <= p - 1 THEN n ELSE p - 1
    BY <2>1, SerMin
  <2> QED BY <2>2, <2>3 DEF SerUpto
<1>7. SerFrom(k) = IF k = 0 THEN 1 ELSE p
  BY DEF SerFrom
<1> HIDE DEF p, w, t, d, r
<1>8. (k = d) <=> (SerUpto(n, k + 1) = n)
  BY <1>1, <1>2, <1>3, <1>4, <1>5, <1>6
<1>9. /\ SerFrom(k) \in Nat \ {0} /\ SerUpto(n, k + 1) \in Nat
      /\ SerFrom(k) <= SerUpto(n, k + 1) + 1 /\ SerUpto(n, k + 1) <= n
      /\ (k # 0 => SerFrom(k) = SerUpto(n, k) + 1)
  BY <1>1, <1>2, <1>3, <1>4, <1>5, <1>6, <1>7
<1> QED BY <1>8, <1>9 DEF d

\* The values from a to b of series s.
SerIsPart(p, s, a, b) ==
  /\ p \in SerBuf /\ p \in SerFrame /\ Len(p) = b - a + 1
  /\ \A i \in 1 .. b - a + 1 : p[i] = <<s, a + i - 1>>

LEMMA SerPart ==
  ASSUME NEW s \in Nat, NEW n \in Nat, NEW a \in Nat \ {0}, NEW b \in Nat, a <= b + 1, b <= n
  PROVE  SerIsPart(SubSeq(Ser!Values(s, n), a, b), s, a, b)
<1> DEFINE v == Ser!Values(s, n)
           p == SubSeq(v, a, b)
<1>1. \A i \in 1 .. n : v[i] = <<s, i>> /\ v[i] \in Nat \X Nat
  BY DEF Ser!Values
<1>2. \A i \in a .. b : v[i] \in Nat \X Nat
  BY <1>1
<1> HIDE DEF v
<1>3. /\ p \in SerBuf /\ Len(p) = IF a <= b THEN b - a + 1 ELSE 0
      /\ \A i \in 1 .. b - a + 1 : p[i] = v[a + i - 1]
  BY <1>2, SubSeqProperties DEF SerBuf
<1>4. p \in SerFrame
  <2>1. \A i \in a .. b : v[i] \in SerWord
    BY <1>2 DEF SerWord
  <2> QED BY <2>1, SubSeqProperties DEF SerFrame
<1>5. \A i \in 1 .. b - a + 1 : p[i] = <<s, a + i - 1>>
  <2> SUFFICES ASSUME NEW i \in 1 .. b - a + 1 PROVE p[i] = <<s, a + i - 1>>
    OBVIOUS
  <2>1. a + i - 1 \in 1 .. n
    OBVIOUS
  <2> QED BY <1>1, <1>3, <2>1
<1> QED BY <1>3, <1>4, <1>5 DEF v, SerIsPart

\* The frames of a series.
LEMMA SerCut ==
  ASSUME NEW s \in Nat, NEW n \in Nat
  PROVE  LET c == Ser!Cut(s, n)
             v == Ser!Values(s, n)
         IN  /\ n \div SerLEN \in Nat /\ c \in Seq(SerFrame) /\ Len(c) = n \div SerLEN + 1
             /\ c[1] = <<n>> \o SubSeq(v, 1, SerUpto(n, 1))
             /\ \A k \in 1 .. n \div SerLEN :
                  c[k + 1] = SubSeq(v, SerFrom(k), SerUpto(n, k + 1))
<1> DEFINE c == Ser!Cut(s, n)
           v == Ser!Values(s, n)
           d == n \div SerLEN
           f(k) == (IF k = 1 THEN <<n>> ELSE << >>)
                     \o SubSeq(v, IF k = 1 THEN 1 ELSE (k - 1) * SerLEN, SerUpto(n, k))
<1>1. d \in Nat /\ SerLEN \in Nat \ {0}
  BY SeriesAssumption, DivMod
<1>2. c = [k \in 1 .. d + 1 |-> f(k)]
  BY DEF Ser!Cut, SerUpto
<1>3. f(1) = <<n>> \o SubSeq(v, 1, SerUpto(n, 1))
  OBVIOUS
<1>4. ASSUME NEW k \in 1 .. d
      PROVE  f(k + 1) = SubSeq(v, SerFrom(k), SerUpto(n, k + 1)) /\ f(k + 1) \in SerFrame
  <2> DEFINE p == SubSeq(v, SerFrom(k), SerUpto(n, k + 1))
  <2>1. k \in 0 .. n \div SerLEN /\ k + 1 # 1 /\ k # 0 /\ (k + 1) - 1 = k
    BY <1>1
  <2>2. p \in SerFrame
    BY <2>1, SerBounds, SerPart DEF SerIsPart
  <2>3. f(k + 1) = << >> \o p
    BY <2>1 DEF SerFrom
  <2> HIDE DEF p
  <2>4. << >> \o p = p
    BY <2>2, ConcatEmptySeq DEF SerFrame
  <2> QED BY <2>2, <2>3, <2>4 DEF p
<1>5. f(1) \in SerFrame
  <2>1. 0 \in 0 .. n \div SerLEN /\ SerFrom(0) = 1 /\ 0 + 1 = 1
    BY <1>1 DEF SerFrom
  <2>2. SubSeq(v, 1, SerUpto(n, 1)) \in SerFrame
    BY <2>1, SerBounds, SerPart DEF SerIsPart
  <2>3. <<n>> \in SerFrame
    BY DEF SerFrame, SerWord
  <2> QED BY <1>3, <2>2, <2>3, ConcatProperties DEF SerFrame
<1> HIDE DEF f, c, v
<1>6. \A k \in 1 .. d + 1 : f(k) \in SerFrame
  <2> SUFFICES ASSUME NEW k \in 1 .. d + 1 PROVE f(k) \in SerFrame
    OBVIOUS
  <2>1. CASE k = 1
    BY <1>5, <2>1
  <2>2. CASE k # 1
    <3>1. k - 1 \in 1 .. d /\ (k - 1) + 1 = k
      BY <1>1, <2>2
    <3> QED BY <1>4, <3>1
  <2> QED BY <2>1, <2>2
<1> HIDE DEF d
<1>7. c \in Seq(SerFrame) /\ Len(c) = d + 1
  BY <1>1, <1>2, <1>6
<1>8. c[1] = f(1) /\ \A k \in 1 .. d : c[k + 1] = f(k + 1)
  BY <1>1, <1>2
<1> QED BY <1>1, <1>3, <1>4, <1>7, <1>8 DEF c, v, d

LEMMA SerCutType ==
  ASSUME NEW s \in Nat, NEW n \in Nat
  PROVE  /\ n \div SerLEN \in Nat /\ Ser!Cut(s, n) \in Seq(SerFrame)
         /\ Len(Ser!Cut(s, n)) = n \div SerLEN + 1
BY SerCut

LEMMA SerValuesType ==
  ASSUME NEW s \in Nat, NEW n \in Nat
  PROVE  Ser!Values(s, n) \in SerBuf /\ Len(Ser!Values(s, n)) = n
BY DEF Ser!Values, SerBuf

\* The unpacker when k frames of series s have come.
SerUnder(u, s, n, k) ==
  IF k = 0 THEN u.start
  ELSE u = [start |-> FALSE, size |-> n, buf |-> SubSeq(Ser!Values(s, n), 1, SerUpto(n, k))]

\* The next frame brings the unpacker to the next state, the last one makes the
\* series complete.
SerUnpacks(v, s, n, k) ==
  IF k = n \div SerLEN
  THEN v = [start |-> TRUE, size |-> n, buf |-> Ser!Values(s, n)]
  ELSE v.start = FALSE /\ SerUnder(v, s, n, k + 1)

LEMMA SerUnpacked ==
  ASSUME NEW s \in Nat, NEW n \in Nat, NEW k \in 0 .. n \div SerLEN, NEW u, SerUnder(u, s, n, k)
  PROVE  SerUnpacks(Ser!unpack(u, Ser!Cut(s, n)[k + 1]), s, n, k)
<1> DEFINE V == Ser!Values(s, n)
           a == SerFrom(k)
           b == SerUpto(n, k + 1)
           p == SubSeq(V, a, b)
           all == SubSeq(V, 1, b)
           f == Ser!Cut(s, n)[k + 1]
           old == IF u.start THEN << >> ELSE u.buf
           read == SubSeq(f, IF u.start THEN 2 ELSE 1, Len(f))
           size == IF u.start THEN f[1] ELSE u.size
<1>1. /\ a \in Nat \ {0} /\ b \in Nat /\ a <= b + 1 /\ b <= n
      /\ k = n \div SerLEN <=> b = n
      /\ k # 0 => a = SerUpto(n, k) + 1
  BY SerBounds
<1>2. /\ n \div SerLEN \in Nat /\ k \in Nat
      /\ k = 0 => f = <<n>> \o p
      /\ k # 0 => f = p
  <2>1. n \div SerLEN \in Nat /\ k \in Nat
    BY SeriesAssumption, DivMod
  <2> DEFINE c == Ser!Cut(s, n)
  <2>2. /\ c[1] = <<n>> \o SubSeq(V, 1, SerUpto(n, 1))
        /\ \A j \in 1 .. n \div SerLEN : c[j + 1] = SubSeq(V, SerFrom(j), SerUpto(n, j + 1))
    BY SerCut
  <2>3. f = c[k + 1]
    OBVIOUS
  <2> HIDE DEF c, f
  <2>4. CASE k = 0
    <3>1. k + 1 = 1 /\ a = 1
      BY <2>4 DEF SerFrom
    <3> QED BY <2>1, <2>2, <2>3, <2>4, <3>1
  <2>5. CASE k # 0
    <3>1. k \in 1 .. n \div SerLEN
      BY <2>1, <2>5
    <3> QED BY <2>1, <2>2, <2>3, <2>5, <3>1
  <2> QED BY <2>1, <2>4, <2>5
<1>3. /\ p \in SerBuf /\ p \in SerFrame /\ Len(p) = b - a + 1
      /\ \A i \in 1 .. b - a + 1 : p[i] = <<s, a + i - 1>>
  <2>1. SerIsPart(p, s, a, b)
    BY <1>1, SerPart
  <2> QED BY <2>1 DEF SerIsPart
<1>4. /\ all \in SerBuf /\ Len(all) = b /\ \A i \in 1 .. b : all[i] = <<s, i>>
  <2>1. 1 \in Nat \ {0} /\ 1 <= b + 1 /\ b - 1 + 1 = b /\ \A i \in 1 .. b : 1 + i - 1 = i
    BY <1>1
  <2>2. /\ all \in SerBuf /\ Len(all) = b - 1 + 1
        /\ \A i \in 1 .. b - 1 + 1 : all[i] = <<s, 1 + i - 1>>
    <3>1. SerIsPart(all, s, 1, b)
      BY <1>1, <2>1, SerPart
    <3> QED BY <3>1 DEF SerIsPart
  <2> QED BY <2>1, <2>2
<1>5. b = n => all = V
  <2>1. V \in SerBuf /\ Len(V) = n /\ \A i \in 1 .. n : V[i] = <<s, i>>
    BY DEF Ser!Values, SerBuf
  <2> SUFFICES ASSUME b = n PROVE all = V
    OBVIOUS
  <2> HIDE DEF V, all, b
  <2>2. all \in SerBuf /\ Len(all) = Len(V) /\ \A i \in 1 .. Len(all) : all[i] = V[i]
    BY <1>4, <2>1
  <2> HIDE DEF SerBuf
  <2> QED BY <2>1, <2>2, SeqEqual DEF SerBuf
<1>6. /\ read = p /\ size = n /\ old \in SerBuf /\ Len(old) = a - 1
      /\ \A i \in 1 .. a - 1 : old[i] = <<s, i>>
  <2>1. CASE k = 0
    <3>1. u.start /\ f = <<n>> \o p /\ a = 1
      BY <1>2, <2>1 DEF SerUnder, SerFrom
    <3> HIDE DEF f, p
    <3>2. /\ Len(f) = 1 + Len(p) /\ Len(p) \in Nat /\ f[1] = n
          /\ \A i \in 1 .. Len(p) : f[i + 1] = p[i] /\ f[i + 1] \in SerWord
      <4>1. <<n>> \in Seq(SerWord) /\ p \in Seq(SerWord) /\ Len(<<n>>) = 1 /\ <<n>>[1] = n
        BY <1>3 DEF SerWord, SerFrame
      <4>2. /\ Len(p) \in Nat /\ Len(f) = 1 + Len(p)
            /\ \A i \in 1 .. 1 + Len(p) : f[i] = IF i <= 1 THEN <<n>>[i] ELSE p[i - 1]
        BY <3>1, <4>1, ConcatProperties
      <4>3. 1 \in 1 .. 1 + Len(p) /\ f[1] = n
        BY <4>1, <4>2
      <4>4. ASSUME NEW i \in 1 .. Len(p) PROVE f[i + 1] = p[i] /\ f[i + 1] \in SerWord
        <5>1. i + 1 \in 1 .. 1 + Len(p) /\ ~(i + 1 <= 1) /\ (i + 1) - 1 = i
          BY <4>2
        <5> QED BY <4>1, <4>2, <5>1
      <4> QED BY <4>2, <4>3, <4>4
    <3>3. read = SubSeq(f, 2, Len(f))
      BY <3>1
    <3>4. \A i \in 2 .. Len(f) : f[i] \in SerWord
      <4> SUFFICES ASSUME NEW i \in 2 .. Len(f) PROVE f[i] \in SerWord
        OBVIOUS
      <4>1. i - 1 \in 1 .. Len(p) /\ (i - 1) + 1 = i
        BY <3>2
      <4> QED BY <3>2, <4>1
    <3>5. /\ read \in Seq(SerWord) /\ Len(read) = IF 2 <= Len(f) THEN Len(f) - 2 + 1 ELSE 0
          /\ \A i \in 1 .. Len(f) - 2 + 1 : read[i] = f[2 + i - 1]
      <4>1. 2 \in Int /\ Len(f) \in Int
        BY <3>2
      <4> HIDE DEF read
      <4> QED BY <3>3, <3>4, <4>1, SubSeqProperties
    <3> HIDE DEF read
    <3>6. Len(read) = Len(p) /\ \A i \in 1 .. Len(p) : read[i] = p[i]
      <4>1. Len(read) = Len(p)
        BY <3>2, <3>5
      <4>2. ASSUME NEW i \in 1 .. Len(p) PROVE read[i] = p[i]
        <5>1. i \in 1 .. Len(f) - 2 + 1 /\ 2 + i - 1 = i + 1
          BY <3>2
        <5> QED BY <3>2, <3>5, <5>1
      <4> QED BY <4>1, <4>2
    <3>7. read = p
      BY <1>3, <3>2, <3>5, <3>6 DEF SerFrame
    <3> QED BY <3>1, <3>2, <3>7 DEF SerBuf
  <2>2. CASE k # 0
    <3> DEFINE o == SerUpto(n, k)
    <3>1. /\ u.start = FALSE /\ u.size = n /\ u.buf = SubSeq(V, 1, o) /\ f = p /\ a = o + 1
      BY <1>1, <1>2, <2>2 DEF SerUnder
    <3> HIDE DEF o
    <3>2. o = a - 1 /\ o \in Nat /\ o <= n
      <4>1. o \in Int
        <5>1. k * SerLEN - 1 \in Int
          BY <1>2, SeriesAssumption
        <5>2. SerUpto(n, k) = IF n <= k * SerLEN - 1 THEN n ELSE k * SerLEN - 1
          BY <5>1, SerMin DEF SerUpto
        <5> QED BY <5>1, <5>2 DEF o
      <4> QED BY <1>1, <3>1, <4>1
    <3>3. 1 \in Nat \ {0} /\ 1 <= o + 1 /\ o - 1 + 1 = o /\ \A i \in 1 .. o : 1 + i - 1 = i
      BY <3>2
    <3>4. /\ u.buf \in SerBuf /\ Len(u.buf) = o - 1 + 1
          /\ \A i \in 1 .. o - 1 + 1 : u.buf[i] = <<s, 1 + i - 1>>
      <4>1. SerIsPart(SubSeq(V, 1, o), s, 1, o)
        BY <3>2, <3>3, SerPart
      <4> QED BY <3>1, <4>1 DEF SerIsPart
    <3>5. read = SubSeq(p, 1, Len(p))
      BY <3>1
    <3>6. SubSeq(p, 1, Len(p)) = p
      BY <1>3, SubSeqFull DEF SerBuf
    <3>7. old = u.buf /\ size = n
      BY <3>1
    <3> QED BY <3>2, <3>3, <3>4, <3>5, <3>6, <3>7
  <2> QED BY <2>1, <2>2
<1> DEFINE m == Ser!Min({size - Len(old), Len(read)})
           buf == old \o SubSeq(read, 1, m)
           v == Ser!unpack(u, f)
<1>7. v = [start |-> Len(buf) = size, size |-> size, buf |-> buf]
  BY DEF Ser!unpack
<1> HIDE DEF V, a, b, p, all, f, old, read, size, v
<1>8. buf = all
  <2>1. m = Len(p)
    <3>1. size - Len(old) \in Int /\ Len(read) \in Int /\ Len(read) <= size - Len(old)
      BY <1>1, <1>3, <1>6
    <3> QED BY <1>6, <3>1, SerMin
  <2>2. SubSeq(read, 1, m) = p
    BY <1>3, <1>6, <2>1, SubSeqFull DEF SerBuf
  <2>3. buf = old \o p
    BY <2>2
  <2>4. /\ old \o p \in SerBuf /\ Len(old \o p) = Len(old) + Len(p) /\ Len(old) \in Nat /\ Len(p) \in Nat
        /\ \A i \in 1 .. Len(old) + Len(p) :
             (old \o p)[i] = IF i <= Len(old) THEN old[i] ELSE p[i - Len(old)]
    <3>1. old \in Seq(Nat \X Nat) /\ p \in Seq(Nat \X Nat)
      BY <1>3, <1>6 DEF SerBuf
    <3> QED BY <3>1, ConcatProperties DEF SerBuf
  <2> HIDE DEF buf, m
  <2>5. Len(buf) = b /\ buf \in SerBuf
    BY <1>1, <1>3, <1>6, <2>3, <2>4
  <2>6. ASSUME NEW i \in 1 .. b PROVE buf[i] = all[i]
    <3>1. buf[i] = IF i <= Len(old) THEN old[i] ELSE p[i - Len(old)]
      BY <2>3, <2>4, <2>5
    <3>2. CASE i <= Len(old)
      <4>1. i \in 1 .. a - 1
        BY <1>6, <3>2
      <4> QED BY <1>4, <1>6, <3>1, <3>2, <4>1
    <3>3. CASE ~(i <= Len(old))
      <4>1. i - Len(old) \in 1 .. b - a + 1 /\ a + (i - Len(old)) - 1 = i
        BY <1>1, <1>6, <3>3
      <4>2. p[i - Len(old)] = <<s, a + (i - Len(old)) - 1>>
        BY <1>3, <4>1
      <4> QED BY <1>4, <3>1, <3>3, <4>1, <4>2
    <3> QED BY <3>2, <3>3
  <2>7. Len(buf) = Len(all) /\ \A i \in 1 .. Len(buf) : buf[i] = all[i]
    BY <1>4, <2>5, <2>6
  <2> QED BY <1>4, <2>5, <2>7, SeqEqual DEF SerBuf
<1>9. v = [start |-> b = n, size |-> n, buf |-> all]
  BY <1>4, <1>6, <1>7, <1>8
<1>10. IF k = n \div SerLEN
       THEN v = [start |-> TRUE, size |-> n, buf |-> V]
       ELSE v.start = FALSE /\ SerUnder(v, s, n, k + 1)
  <2>1. CASE k = n \div SerLEN
    <3>1. b = n /\ all = V
      BY <1>1, <1>5, <2>1
    <3>2. v = [start |-> TRUE, size |-> n, buf |-> V]
      BY <1>9, <3>1
    <3> QED BY <2>1, <3>2
  <2>2. CASE k # n \div SerLEN
    <3>1. b # n /\ k + 1 # 0
      BY <1>1, <1>2, <2>2
    <3>2. (b = n) = FALSE
      BY <3>1
    <3>3. v = [start |-> FALSE, size |-> n, buf |-> all]
      BY <1>9, <3>2
    <3> QED BY <2>2, <3>1, <3>3 DEF SerUnder, all, V, b
  <2> QED BY <2>1, <2>2
<1> QED BY <1>10 DEF v, f, V, SerUnpacks

\* The frames of series s that are left after k of them; the frames of all the
\* series after s; the buffers of the first s series.
SerLeft(s, n, k)  == [i \in 1 .. n \div SerLEN + 1 - k |-> Ser!Cut(s, n)[i + k]]
SerCuts(list, s)  == [i \in 1 .. Len(list) - s |-> Ser!Cut(s + i, list[s + i])]
SerFills(list, s) == [i \in 1 .. s |-> IF list[i] = 0 THEN << >> ELSE <<Ser!Values(i, list[i])>>]

\* Of the series in list s are returned, and k frames of the next have come:
\* the rest is on its way.
SerAt(list, w, u, r, s, k) ==
  /\ r = SeqExt!FlattenSeq(SerFills(list, s))
  /\ IF k = 0 THEN u.start /\ w = SeqExt!FlattenSeq(SerCuts(list, s))
     ELSE /\ s < Len(list) /\ k <= list[s + 1] \div SerLEN
          /\ SerUnder(u, s + 1, list[s + 1], k)
          /\ w = SerLeft(s + 1, list[s + 1], k) \o SeqExt!FlattenSeq(SerCuts(list, s + 1))

SerOnItsWay(list, w, u, r) == \E s \in 0 .. Len(list) : \E k \in Nat : SerAt(list, w, u, r, s, k)

LEMMA SerCutsType ==
  ASSUME NEW list \in Seq(Nat), NEW s \in 0 .. Len(list)
  PROVE  /\ SerCuts(list, s) \in Seq(Seq(SerFrame)) /\ Len(SerCuts(list, s)) = Len(list) - s
         /\ \A i \in 1 .. Len(list) - s : SerCuts(list, s)[i] = Ser!Cut(s + i, list[s + i])
         /\ SeqExt!FlattenSeq(SerCuts(list, s)) \in Seq(SerFrame)
<1>1. Len(list) \in Nat /\ Len(list) - s \in Nat
  OBVIOUS
<1>2. ASSUME NEW i \in 1 .. Len(list) - s PROVE Ser!Cut(s + i, list[s + i]) \in Seq(SerFrame)
  <2>1. s + i \in Nat /\ list[s + i] \in Nat
    OBVIOUS
  <2> QED BY <2>1, SerCut
<1>3. /\ SerCuts(list, s) \in Seq(Seq(SerFrame)) /\ Len(SerCuts(list, s)) = Len(list) - s
      /\ \A i \in 1 .. Len(list) - s : SerCuts(list, s)[i] = Ser!Cut(s + i, list[s + i])
  BY <1>1, <1>2 DEF SerCuts
<1>4. << >> \in Seq(SerFrame)
  OBVIOUS
<1>5. SeqExt!FlattenSeq(SerCuts(list, s)) \in Seq(SerFrame)
  BY <1>3, <1>4, FlattenAppend
<1> QED BY <1>3, <1>5

LEMMA SerLeftType ==
  ASSUME NEW s \in Nat, NEW n \in Nat, NEW k \in Nat, k <= n \div SerLEN + 1
  PROVE  /\ SerLeft(s, n, k) \in Seq(SerFrame) /\ Len(SerLeft(s, n, k)) = n \div SerLEN + 1 - k
         /\ \A i \in 1 .. n \div SerLEN + 1 - k : SerLeft(s, n, k)[i] = Ser!Cut(s, n)[i + k]
<1> DEFINE cut == Ser!Cut(s, n)
           e == n \div SerLEN
           left == SerLeft(s, n, k)
<1>1. e \in Nat /\ cut \in Seq(SerFrame) /\ Len(cut) = e + 1 /\ k <= e + 1
  BY SerCutType
<1>2. left = [i \in 1 .. e + 1 - k |-> cut[i + k]]
  BY DEF SerLeft
<1> HIDE DEF cut, left, e
<1>3. e + 1 - k \in Nat /\ \A i \in 1 .. e + 1 - k : cut[i + k] \in SerFrame
  <2>1. e + 1 - k \in Nat
    BY <1>1
  <2>2. ASSUME NEW i \in 1 .. e + 1 - k PROVE cut[i + k] \in SerFrame
    <3>1. i + k \in 1 .. Len(cut)
      BY <1>1
    <3> QED BY <1>1, <3>1
  <2> QED BY <2>1, <2>2
<1>4. /\ left \in Seq(SerFrame) /\ Len(left) = e + 1 - k
      /\ \A i \in 1 .. e + 1 - k : left[i] = cut[i + k]
  BY <1>2, <1>3
<1> QED BY <1>4 DEF cut, left, e

LEMMA SerFillsType ==
  ASSUME NEW list \in Seq(Nat), NEW s \in 0 .. Len(list)
  PROVE  /\ SerFills(list, s) \in Seq(Seq(SerBuf)) /\ Len(SerFills(list, s)) = s
         /\ SeqExt!FlattenSeq(SerFills(list, s)) \in Seq(SerBuf)
<1>1. Len(list) \in Nat /\ s \in Nat
  OBVIOUS
<1> DEFINE f(i) == IF list[i] = 0 THEN << >> ELSE <<Ser!Values(i, list[i])>>
<1>2. ASSUME NEW i \in 1 .. s PROVE f(i) \in Seq(SerBuf)
  <2>1. i \in Nat /\ list[i] \in Nat
    OBVIOUS
  <2>2. Ser!Values(i, list[i]) \in SerBuf
    BY <2>1, SerValuesType
  <2> QED BY <2>2
<1>3. SerFills(list, s) = [i \in 1 .. s |-> f(i)]
  BY DEF SerFills
<1> HIDE DEF f
<1>4. SerFills(list, s) \in Seq(Seq(SerBuf)) /\ Len(SerFills(list, s)) = s
  BY <1>1, <1>2, <1>3
<1>5. << >> \in Seq(SerBuf)
  OBVIOUS
<1>6. SeqExt!FlattenSeq(SerFills(list, s)) \in Seq(SerBuf)
  BY <1>4, <1>5, FlattenAppend
<1> QED BY <1>4, <1>6

\* They are what the first parts of all the buffers make.
LEMMA SerFirsts ==
  ASSUME NEW list \in Seq(Nat), NEW s \in 0 .. Len(list)
  PROVE  SeqExt!FlattenSeq(SerFills(list, s)) = Firsts(SerFills(list, Len(list)), s)
<1>1. SerFills(list, s) = [i \in 1 .. s |-> SerFills(list, Len(list))[i]]
  BY DEF SerFills
<1> QED BY <1>1, Zenon DEF Firsts

LEMMA SerParts ==
  ASSUME NEW list \in Seq(Nat)
  PROVE  Len(list) \in Nat /\ SeqParts(SerFills(list, Len(list)), Len(list), SerBuf)
<1> DEFINE f == SerFills(list, Len(list))
<1>1. Len(list) \in Nat /\ Len(list) \in 0 .. Len(list)
  OBVIOUS
<1>2. f \in Seq(Seq(SerBuf)) /\ Len(f) = Len(list)
  BY <1>1, SerFillsType
<1> HIDE DEF f
<1>3. SeqParts(f, Len(list), SerBuf)
  BY <1>2 DEF SeqParts
<1> QED BY <1>1, <1>3 DEF f

\* One more series returned.
LEMMA SerFilled ==
  ASSUME NEW list \in Seq(Nat), NEW s \in 0 .. Len(list) - 1
  PROVE  LET fill == IF list[s + 1] = 0 THEN << >> ELSE <<Ser!Values(s + 1, list[s + 1])>>
         IN  /\ fill \in Seq(SerBuf)
             /\ SeqExt!FlattenSeq(SerFills(list, s + 1)) = SeqExt!FlattenSeq(SerFills(list, s)) \o fill
<1> DEFINE f == SerFills(list, Len(list))
           fill == IF list[s + 1] = 0 THEN << >> ELSE <<Ser!Values(s + 1, list[s + 1])>>
<1>1. s \in Nat /\ s \in 0 .. Len(list) /\ s + 1 \in 0 .. Len(list) /\ s + 1 \in 1 .. Len(list)
  BY SerParts
<1>2. f[s + 1] = fill
  BY <1>1 DEF SerFills
<1>3. SeqParts(f, s + 1, SerBuf)
  <2>1. SeqParts(f, Len(list), SerBuf) /\ \A i \in 1 .. s + 1 : i \in 1 .. Len(list)
    BY <1>1, SerParts
  <2> QED BY <2>1 DEF SeqParts
<1>4. /\ SeqExt!FlattenSeq(SerFills(list, s)) = Firsts(f, s)
      /\ SeqExt!FlattenSeq(SerFills(list, s + 1)) = Firsts(f, s + 1)
  BY <1>1, SerFirsts
<1> HIDE DEF f, fill
<1>5. f[s + 1] \in Seq(SerBuf) /\ Firsts(f, s + 1) = Firsts(f, s) \o f[s + 1]
  BY <1>1, <1>3, FirstsNext
<1> QED BY <1>2, <1>4, <1>5 DEF fill

\* The buffers of the first s series are the first ones of all.
LEMMA SerPrefix ==
  ASSUME NEW list \in Seq(Nat), NEW s \in 0 .. Len(list)
  PROVE  SeqExt!IsPrefix(SeqExt!FlattenSeq(SerFills(list, s)),
                         SeqExt!FlattenSeq(SerFills(list, Len(list))))
<1>1. Len(list) \in Nat /\ Len(list) \in 0 .. Len(list)
  OBVIOUS
<1>2. SeqExt!IsPrefix(Firsts(SerFills(list, Len(list)), s), Firsts(SerFills(list, Len(list)), Len(list)))
  BY <1>1, SerParts, FirstsPrefix
<1> QED BY <1>1, <1>2, SerFirsts

\* A series that is sent goes behind the others.
LEMMA SerSent ==
  ASSUME NEW list \in Seq(Nat), NEW n \in Nat, NEW w, NEW u, NEW r, SerOnItsWay(list, w, u, r)
  PROVE  SerOnItsWay(Append(list, n), w \o Ser!Cut(Len(list) + 1, n), u, r)
<1> DEFINE m == Len(list)
           new == Append(list, n)
           c == Ser!Cut(m + 1, n)
<1>1. /\ m \in Nat /\ new \in Seq(Nat) /\ Len(new) = m + 1 /\ new[m + 1] = n
      /\ \A i \in 1 .. m : new[i] = list[i] /\ list[i] \in Nat
  BY AppendProperties
<1>2. PICK s \in 0 .. m : \E k \in Nat : SerAt(list, w, u, r, s, k)
  BY DEF SerOnItsWay
<1>3. PICK k \in Nat : SerAt(list, w, u, r, s, k)
  BY <1>2
<1>4. c \in Seq(SerFrame)
  <2>1. m + 1 \in Nat
    BY <1>1
  <2> QED BY <2>1, SerCutType
<1> HIDE DEF new, c
<1>5. ASSUME NEW t \in 0 .. m
      PROVE  SeqExt!FlattenSeq(SerCuts(new, t)) = SeqExt!FlattenSeq(SerCuts(list, t)) \o c
  <2> DEFINE a == SerCuts(list, t)
             b == SerCuts(new, t)
             d == Append(a, c)
  <2>1. /\ a \in Seq(Seq(SerFrame)) /\ Len(a) = m - t
        /\ \A i \in 1 .. m - t : a[i] = Ser!Cut(t + i, list[t + i])
    BY SerCutsType
  <2>2. t \in 0 .. Len(new)
    BY <1>1
  <2>3. /\ b \in Seq(Seq(SerFrame)) /\ Len(b) = (m + 1) - t
        /\ \A i \in 1 .. (m + 1) - t : b[i] = Ser!Cut(t + i, new[t + i])
    BY <1>1, <2>2, SerCutsType
  <2>4. /\ d \in Seq(Seq(SerFrame)) /\ Len(d) = m - t + 1 /\ d[m - t + 1] = c
        /\ \A i \in 1 .. m - t : d[i] = a[i]
    <3> HIDE DEF a
    <3> QED BY <1>4, <2>1, AppendProperties
  <2> HIDE DEF a, b, d
  <2>5. Len(b) = Len(d)
    BY <1>1, <2>3, <2>4
  <2>6. ASSUME NEW i \in 1 .. Len(b) PROVE b[i] = d[i]
    <3>1. i \in 1 .. (m + 1) - t
      BY <2>3
    <3>2. CASE i = m - t + 1
      <4>1. t + i = m + 1
        BY <1>1, <3>2
      <4>2. b[i] = Ser!Cut(m + 1, n)
        BY <1>1, <2>3, <3>1, <4>1
      <4> QED BY <2>4, <3>2, <4>2 DEF c
    <3>3. CASE i # m - t + 1
      <4>0. m \in Nat
        BY <1>1
      <4>1. i \in 1 .. m - t /\ t + i \in 1 .. m
        <5> HIDE DEF m
        <5> QED BY <3>1, <3>3, <4>0
      <4> QED BY <1>1, <2>1, <2>3, <2>4, <3>1, <4>1
    <3> QED BY <3>2, <3>3
  <2>7. b = d
    BY <2>3, <2>4, <2>5, <2>6, SeqEqual
  <2>8. SeqExt!FlattenSeq(d) = SeqExt!FlattenSeq(a) \o c
    BY <1>4, <2>1, FlattenAppend DEF d
  <2> QED BY <2>7, <2>8 DEF a, b
<1>6. SerFills(new, s) = SerFills(list, s)
  <2>1. \A i \in 1 .. s : new[i] = list[i]
    BY <1>1
  <2> QED BY <2>1 DEF SerFills
<1>7. SerAt(new, w \o c, u, r, s, k)
  <2>1. r = SeqExt!FlattenSeq(SerFills(new, s))
    BY <1>3, <1>6 DEF SerAt
  <2>2. CASE k = 0
    <3>1. u.start /\ w = SeqExt!FlattenSeq(SerCuts(list, s))
      BY <1>3, <2>2 DEF SerAt
    <3>2. w \o c = SeqExt!FlattenSeq(SerCuts(new, s))
      BY <1>5, <3>1
    <3> QED BY <2>1, <2>2, <3>1, <3>2 DEF SerAt
  <2>3. CASE k # 0
    <3> DEFINE left == SerLeft(s + 1, list[s + 1], k)
               rest == SeqExt!FlattenSeq(SerCuts(list, s + 1))
    <3>1. /\ s < m /\ k <= list[s + 1] \div SerLEN
          /\ SerUnder(u, s + 1, list[s + 1], k) /\ w = left \o rest
      BY <1>3, <2>3 DEF SerAt
    <3>2. s + 1 \in 0 .. m /\ s + 1 \in 1 .. m /\ new[s + 1] = list[s + 1] /\ s < Len(new)
      BY <1>1, <3>1, SMTT(60)
    <3>3. rest \in Seq(SerFrame)
      BY <3>2, SerCutsType
    <3>4. left \in Seq(SerFrame)
      <4>1. s + 1 \in Nat /\ list[s + 1] \in Nat
        BY <1>1, <3>2
      <4>2. k <= list[s + 1] \div SerLEN + 1
        <5> DEFINE e == list[s + 1] \div SerLEN
        <5>1. e \in Nat
          BY <4>1, SerCutType
        <5>2. k <= e
          BY <3>1
        <5> HIDE DEF e
        <5>3. k <= e + 1
          BY <5>1, <5>2
        <5> QED BY <5>3 DEF e
      <4> QED BY <4>1, <4>2, SerLeftType
    <3>5. SeqExt!FlattenSeq(SerCuts(new, s + 1)) = rest \o c
      BY <1>5, <3>2
    <3> HIDE DEF left, rest
    <3>6. w \o c = left \o (rest \o c)
      <4>1. \A x, y, z \in Seq(SerFrame) : (x \o y) \o z = x \o (y \o z)
        BY ConcatAssoc, SMTT(60)
      <4>2. (left \o rest) \o c = left \o (rest \o c)
        BY <1>4, <3>3, <3>4, <4>1, Zenon
      <4> QED BY <3>1, <4>2, Zenon
    <3>7. w \o c = SerLeft(s + 1, new[s + 1], k) \o SeqExt!FlattenSeq(SerCuts(new, s + 1))
      BY <3>2, <3>5, <3>6 DEF left
    <3> QED BY <2>1, <2>3, <3>1, <3>2, <3>7 DEF SerAt
  <2> QED BY <2>2, <2>3
<1>8. s \in 0 .. Len(new)
  BY <1>1
<1>9. SerOnItsWay(new, w \o c, u, r)
  BY <1>7, <1>8 DEF SerOnItsWay
<1> QED BY <1>9 DEF new, c

\* A frame that is on its way is the next of its series, or the first of the
\* next one.
SerIsNext(list, w, u, s, k) ==
  /\ s < Len(list) /\ list[s + 1] \in Nat /\ k \in 0 .. list[s + 1] \div SerLEN
  /\ SerUnder(u, s + 1, list[s + 1], k)
  /\ w = SerLeft(s + 1, list[s + 1], k) \o SeqExt!FlattenSeq(SerCuts(list, s + 1))

LEMMA SerNextFrame ==
  ASSUME NEW list \in Seq(Nat), NEW w, NEW u, NEW r, NEW s \in 0 .. Len(list), NEW k \in Nat,
         SerAt(list, w, u, r, s, k), w # << >>
  PROVE  SerIsNext(list, w, u, s, k)
<1> USE DEF SerIsNext
<1> DEFINE m == Len(list)
           n == list[s + 1]
<1>1. m \in Nat
  OBVIOUS
<1>2. CASE k # 0
  <2>1. /\ s < m /\ k <= n \div SerLEN /\ SerUnder(u, s + 1, n, k)
        /\ w = SerLeft(s + 1, n, k) \o SeqExt!FlattenSeq(SerCuts(list, s + 1))
    BY <1>2 DEF SerAt
  <2>2. n \in Nat /\ s + 1 \in Nat
    BY <2>1
  <2>3. n \div SerLEN \in Nat
    BY <2>2, SerCutType
  <2>4. k \in 0 .. n \div SerLEN
    BY <2>1, <2>3
  <2> QED BY <2>1, <2>2, <2>4
<1>3. CASE k = 0
  <2> DEFINE a == SerCuts(list, s)
             b == SerCuts(list, s + 1)
  <2>1. u.start /\ w = SeqExt!FlattenSeq(a)
    BY <1>3 DEF SerAt
  <2>2. /\ a \in Seq(Seq(SerFrame)) /\ Len(a) = m - s
        /\ \A i \in 1 .. m - s : a[i] = Ser!Cut(s + i, list[s + i])
    BY SerCutsType
  <2>3. a # << >>
    <3> HIDE DEF a
    <3> QED BY <2>1, FlattenNone
  <2>4. s < m
    <3> HIDE DEF a
    <3>1. Len(a) # 0
      BY <2>2, <2>3, EmptySeq
    <3> QED BY <1>1, <2>2, <3>1
  <2>5. n \in Nat /\ s + 1 \in Nat /\ s + 1 \in 0 .. m
    BY <2>4
  <2>6. n \div SerLEN \in Nat /\ Ser!Cut(s + 1, n) \in Seq(SerFrame) /\ Len(Ser!Cut(s + 1, n)) = n \div SerLEN + 1
    BY <2>5, SerCutType
  <2>7. Head(a) = SerLeft(s + 1, n, 0)
    <3>1. 1 \in 1 .. m - s
      BY <1>1, <2>4
    <3>2. a[1] = Ser!Cut(s + 1, n)
      BY <2>2, <3>1
    <3>3. Head(a) = a[1]
      <4> HIDE DEF a
      <4> QED BY <2>2, <2>3, HeadTailProperties
    <3>4. SerLeft(s + 1, n, 0) = Ser!Cut(s + 1, n)
      <4> DEFINE cut == Ser!Cut(s + 1, n)
                 left == SerLeft(s + 1, n, 0)
                 e == n \div SerLEN
      <4>1. 0 <= e + 1
        BY <2>6
      <4>2. /\ left \in Seq(SerFrame) /\ Len(left) = e + 1 - 0
            /\ \A i \in 1 .. e + 1 - 0 : left[i] = cut[i + 0]
        BY <2>5, <4>1, SerLeftType, SMTT(60)
      <4> HIDE DEF cut, left, e, n
      <4>3. e \in Nat /\ cut \in Seq(SerFrame) /\ Len(cut) = e + 1
        BY <2>6 DEF cut, e
      <4>4. Len(left) = Len(cut)
        BY <4>2, <4>3
      <4>5. ASSUME NEW i \in 1 .. Len(left) PROVE left[i] = cut[i]
        <5>1. i \in 1 .. e + 1 - 0 /\ i + 0 = i
          BY <4>2
        <5> QED BY <4>2, <5>1
      <4>6. left = cut
        BY <4>2, <4>3, <4>4, <4>5, SeqEqual
      <4> QED BY <4>6 DEF cut, left
    <3> QED BY <3>2, <3>3, <3>4
  <2>8. Tail(a) = b
    <3>1. /\ b \in Seq(Seq(SerFrame)) /\ Len(b) = m - (s + 1)
          /\ \A i \in 1 .. m - (s + 1) : b[i] = Ser!Cut((s + 1) + i, list[(s + 1) + i])
      BY <2>5, SerCutsType
    <3> DEFINE t == Tail(a)
    <3>2. t \in Seq(Seq(SerFrame)) /\ Len(t) = (m - s) - 1 /\ \A i \in 1 .. Len(t) : t[i] = a[i + 1]
      <4> HIDE DEF a
      <4> QED BY <2>2, <2>3, HeadTailProperties
    <3> HIDE DEF t, b, a
    <3>3. Len(t) = Len(b)
      BY <1>1, <3>1, <3>2
    <3>4. ASSUME NEW i \in 1 .. Len(t) PROVE t[i] = b[i]
      <4> HIDE DEF m
      <4>0. Len(t) = m - s - 1 /\ s \in 0 .. m
        BY <3>2 DEF m
      <4>1. i \in 1 .. m - (s + 1) /\ i + 1 \in 1 .. m - s /\ s + (i + 1) = (s + 1) + i
        BY <1>1, <4>0
      <4> QED BY <2>2, <3>1, <3>2, <4>1
    <3>5. t = b
      BY <3>1, <3>2, <3>3, <3>4, SeqEqual
    <3> QED BY <3>5 DEF t
  <2>9. SeqExt!FlattenSeq(a) = Head(a) \o SeqExt!FlattenSeq(Tail(a))
    <3> HIDE DEF a
    <3> QED BY <2>2, <2>3, FlattenTail
  <2>10. w = SerLeft(s + 1, n, 0) \o SeqExt!FlattenSeq(b)
    BY <2>1, <2>7, <2>8, <2>9
  <2> QED BY <1>3, <2>1, <2>4, <2>5, <2>6, <2>10 DEF SerUnder
<1> QED BY <1>2, <1>3

\* What is left after one more frame.
SerGoesOn(w, s, n, k, rest) ==
  /\ w \in Seq(SerFrame) /\ w # << >> /\ Head(w) = Ser!Cut(s, n)[k + 1]
  /\ Tail(w) = SerLeft(s, n, k + 1) \o rest
  /\ (k = n \div SerLEN => Tail(w) = rest)

LEMMA SerLeftNext ==
  ASSUME NEW s \in Nat, NEW n \in Nat, NEW k \in 0 .. n \div SerLEN, NEW rest \in Seq(SerFrame)
  PROVE  SerGoesOn(SerLeft(s, n, k) \o rest, s, n, k, rest)
<1> DEFINE e == n \div SerLEN
           a == SerLeft(s, n, k)
           b == SerLeft(s, n, k + 1)
           cut == Ser!Cut(s, n)
           w == a \o rest
           t == Tail(w)
           z == b \o rest
<1>0. e \in Nat /\ k \in Nat /\ k <= e
  <2>1. e \in Nat
    BY SerCutType
  <2> QED BY <2>1
<1>1. /\ a \in Seq(SerFrame) /\ Len(a) = e + 1 - k
      /\ \A i \in 1 .. e + 1 - k : a[i] = cut[i + k]
  <2>1. k \in Nat /\ k <= n \div SerLEN + 1
    <3> DEFINE d == n \div SerLEN
    <3>1. d \in Nat /\ k \in Nat /\ k <= d
      BY <1>0
    <3> HIDE DEF d
    <3>2. k <= d + 1
      BY <3>1
    <3> QED BY <3>1, <3>2 DEF d
  <2> QED BY <2>1, SerLeftType
<1>2. /\ b \in Seq(SerFrame) /\ Len(b) = e + 1 - (k + 1)
      /\ \A i \in 1 .. e + 1 - (k + 1) : b[i] = cut[i + (k + 1)]
  <2>1. k + 1 \in Nat /\ k + 1 <= n \div SerLEN + 1
    <3> DEFINE d == n \div SerLEN
    <3>1. d \in Nat /\ k \in Nat /\ k <= d
      BY <1>0
    <3> HIDE DEF d
    <3>2. k + 1 <= d + 1
      BY <3>1
    <3> QED BY <3>1, <3>2 DEF d
  <2> QED BY <2>1, SerLeftType
<1> HIDE DEF a, b, cut, e
<1>3. /\ w \in Seq(SerFrame) /\ Len(w) = Len(a) + Len(rest) /\ Len(a) \in Nat /\ Len(rest) \in Nat
      /\ \A i \in 1 .. Len(a) + Len(rest) : w[i] = IF i <= Len(a) THEN a[i] ELSE rest[i - Len(a)]
  <2>1. a \in Seq(SerFrame) /\ rest \in Seq(SerFrame)
    BY <1>1
  <2> QED BY <2>1, ConcatProperties
<1>4. /\ z \in Seq(SerFrame) /\ Len(z) = Len(b) + Len(rest) /\ Len(b) \in Nat
      /\ \A i \in 1 .. Len(b) + Len(rest) : z[i] = IF i <= Len(b) THEN b[i] ELSE rest[i - Len(b)]
  <2>1. b \in Seq(SerFrame) /\ rest \in Seq(SerFrame)
    BY <1>2
  <2> QED BY <2>1, ConcatProperties
<1> HIDE DEF w, z
<1>5. w # << >>
  <2>1. Len(w) # 0
    BY <1>0, <1>1, <1>3
  <2> QED BY <1>3, <2>1, EmptySeq
<1>6. /\ t \in Seq(SerFrame) /\ Len(t) = Len(w) - 1 /\ Head(w) = w[1]
      /\ \A i \in 1 .. Len(t) : t[i] = w[i + 1]
  BY <1>3, <1>5, HeadTailProperties
<1>7. Head(w) = cut[k + 1]
  <2>1. 1 \in 1 .. Len(a) + Len(rest) /\ 1 <= Len(a) /\ 1 \in 1 .. e + 1 - k /\ 1 + k = k + 1
    BY <1>0, <1>1, <1>3
  <2>2. w[1] = a[1]
    BY <1>3, <2>1
  <2>3. a[1] = cut[1 + k]
    BY <1>1, <2>1
  <2> QED BY <1>6, <2>1, <2>2, <2>3
<1> HIDE DEF t
<1>8. t = z
  <2>1. Len(t) = Len(z) /\ Len(b) = Len(a) - 1
    BY <1>0, <1>1, <1>2, <1>3, <1>4, <1>6
  <2>2. ASSUME NEW i \in 1 .. Len(t) PROVE t[i] = z[i]
    <3>1. i \in 1 .. Len(b) + Len(rest) /\ i + 1 \in 1 .. Len(a) + Len(rest)
      BY <1>3, <1>4, <1>6, <2>1
    <3>2. t[i] = IF i + 1 <= Len(a) THEN a[i + 1] ELSE rest[(i + 1) - Len(a)]
      BY <1>3, <1>6, <3>1
    <3>3. z[i] = IF i <= Len(b) THEN b[i] ELSE rest[i - Len(b)]
      BY <1>4, <3>1
    <3>4. CASE i <= Len(b)
      <4>1. i \in 1 .. e + 1 - (k + 1) /\ i + 1 \in 1 .. e + 1 - k /\ i + (k + 1) = (i + 1) + k /\ i + 1 <= Len(a)
        BY <1>0, <1>1, <1>2, <3>1, <3>4
      <4>2. b[i] = cut[i + (k + 1)] /\ a[i + 1] = cut[(i + 1) + k]
        BY <1>1, <1>2, <4>1
      <4> QED BY <3>2, <3>3, <3>4, <4>1, <4>2
    <3>5. CASE ~(i <= Len(b))
      <4>1. ~(i + 1 <= Len(a)) /\ (i + 1) - Len(a) = i - Len(b)
        BY <1>3, <1>4, <2>1, <3>1, <3>5, SMTT(60)
      <4> QED BY <3>2, <3>3, <3>5, <4>1
    <3> QED BY <3>4, <3>5
  <2> QED BY <1>4, <1>6, <2>1, <2>2, SeqEqual
<1>9. k = e => t = rest
  <2> SUFFICES ASSUME k = e PROVE t = rest
    OBVIOUS
  <2>1. Len(b) = 0
    BY <1>0, <1>2
  <2>2. b = << >>
    BY <1>2, <2>1, EmptySeq
  <2>3. z = << >> \o rest
    BY <2>2 DEF z
  <2>4. << >> \o rest = rest
    BY ConcatEmptySeq
  <2> QED BY <1>8, <2>3, <2>4
<1> QED BY <1>3, <1>5, <1>7, <1>8, <1>9 DEF t, w, z, a, b, cut, e, SerGoesOn

LEMMA SerHandledOn ==
  ASSUME NEW list \in Seq(Nat), NEW w, NEW u, NEW r, SerOnItsWay(list, w, u, r), w # << >>,
         NEW v, v = Ser!unpack(u, Head(w))
  PROVE  SerOnItsWay(list, Tail(w), v, IF v.start /\ v.size > 0 THEN Append(r, v.buf) ELSE r)
<1> DEFINE m == Len(list)
           new == IF v.start /\ v.size > 0 THEN Append(r, v.buf) ELSE r
<1>1. PICK s \in 0 .. m : \E k \in Nat : SerAt(list, w, u, r, s, k)
  BY DEF SerOnItsWay
<1>2. PICK k \in Nat : SerAt(list, w, u, r, s, k)
  BY <1>1
<1> DEFINE n == list[s + 1]
           e == n \div SerLEN
           rest == SeqExt!FlattenSeq(SerCuts(list, s + 1))
<1>3. /\ s < m /\ n \in Nat /\ k \in 0 .. n \div SerLEN /\ SerUnder(u, s + 1, n, k)
      /\ w = SerLeft(s + 1, n, k) \o rest
  <2>1. SerIsNext(list, w, u, s, k)
    BY <1>2, SerNextFrame
  <2> QED BY <2>1 DEF SerIsNext
<1>4. /\ m \in Nat /\ s + 1 \in Nat /\ s + 1 \in 0 .. m /\ s \in 0 .. m /\ s \in 0 .. m - 1
      /\ rest \in Seq(SerFrame)
  <2>1. m \in Nat /\ s + 1 \in Nat /\ s + 1 \in 0 .. m /\ s \in 0 .. m /\ s \in 0 .. m - 1
    BY <1>3
  <2> QED BY <2>1, SerCutsType
<1>5. /\ Head(w) = Ser!Cut(s + 1, n)[k + 1]
      /\ Tail(w) = SerLeft(s + 1, n, k + 1) \o rest
      /\ (k = n \div SerLEN => Tail(w) = rest)
  <2>1. SerGoesOn(SerLeft(s + 1, n, k) \o rest, s + 1, n, k, rest)
    <3> HIDE DEF n, rest
    <3> QED BY <1>3, <1>4, SerLeftNext
  <2> QED BY <1>3, <2>1 DEF SerGoesOn
<1>6. IF k = n \div SerLEN
      THEN v = [start |-> TRUE, size |-> n, buf |-> Ser!Values(s + 1, n)]
      ELSE v.start = FALSE /\ SerUnder(v, s + 1, n, k + 1)
  <2>1. v = Ser!unpack(u, Ser!Cut(s + 1, n)[k + 1])
    BY <1>5
  <2>2. SerUnpacks(v, s + 1, n, k)
    <3> HIDE DEF n
    <3> QED BY <1>3, <1>4, <2>1, SerUnpacked
  <2> QED BY <2>2 DEF SerUnpacks
<1>7. r = SeqExt!FlattenSeq(SerFills(list, s)) /\ r \in Seq(SerBuf)
  <2>1. r = SeqExt!FlattenSeq(SerFills(list, s))
    BY <1>2 DEF SerAt
  <2> QED BY <1>4, <2>1, SerFillsType
<1>8. CASE k = n \div SerLEN
  <2>1. v.start /\ v.size = n /\ v.buf = Ser!Values(s + 1, n) /\ Tail(w) = rest
    BY <1>5, <1>6, <1>8
  <2> DEFINE fill == IF n = 0 THEN << >> ELSE <<Ser!Values(s + 1, n)>>
  <2>2. new = r \o fill
    <3>1. CASE n = 0
      <4>1. new = r /\ fill = << >>
        BY <2>1, <3>1
      <4>2. r \o << >> = r
        BY <1>7, ConcatEmptySeq
      <4> QED BY <4>1, <4>2
    <3>2. CASE n # 0
      <4>1. n > 0
        <5> HIDE DEF n
        <5> QED BY <1>3, <3>2
      <4>2. new = Append(r, Ser!Values(s + 1, n)) /\ fill = <<Ser!Values(s + 1, n)>>
        BY <2>1, <3>2, <4>1
      <4>3. Ser!Values(s + 1, n) \in SerBuf
        BY <1>3, <1>4, SerValuesType
      <4> DEFINE x == Ser!Values(s + 1, n)
      <4> HIDE DEF x
      <4>4. x \in SerBuf
        BY <4>3 DEF x
      <4>5. Append(r, x) = r \o <<x>>
        BY <1>7, <4>4, AppendIsConcat
      <4> QED BY <4>2, <4>5 DEF x
    <3> QED BY <3>1, <3>2
  <2>3. SeqExt!FlattenSeq(SerFills(list, s + 1)) = SeqExt!FlattenSeq(SerFills(list, s)) \o fill
    BY <1>4, SerFilled
  <2>4. new = SeqExt!FlattenSeq(SerFills(list, s + 1))
    BY <1>7, <2>2, <2>3
  <2> HIDE DEF new
  <2>5. SerAt(list, Tail(w), v, new, s + 1, 0)
    BY <2>1, <2>4 DEF SerAt
  <2>6. SerOnItsWay(list, Tail(w), v, new)
    BY <1>4, <2>5 DEF SerOnItsWay
  <2> QED BY <2>6 DEF new
<1>9. CASE k # n \div SerLEN
  <2>1. v.start = FALSE /\ SerUnder(v, s + 1, n, k + 1)
    BY <1>6, <1>9
  <2>2. new = r
    BY <2>1
  <2>3. k + 1 \in Nat /\ k + 1 # 0 /\ k + 1 <= n \div SerLEN
    <3>1. e \in Nat
      BY <1>3, SerCutType
    <3>2. k \in 0 .. e /\ k # e
      BY <1>3, <1>9
    <3> HIDE DEF e
    <3>3. k + 1 \in Nat /\ k + 1 # 0 /\ k + 1 <= e
      BY <3>1, <3>2
    <3> QED BY <3>3 DEF e
  <2>4. Tail(w) = SerLeft(s + 1, n, k + 1) \o rest
    BY <1>5
  <2> HIDE DEF new
  <2>5. SerAt(list, Tail(w), v, new, s, k + 1)
    BY <1>3, <1>7, <2>1, <2>2, <2>3, <2>4 DEF SerAt
  <2>6. SerOnItsWay(list, Tail(w), v, new)
    BY <1>4, <2>3, <2>5 DEF SerOnItsWay
  <2> QED BY <2>6 DEF new
<1> QED BY <1>8, <1>9

\* What has come is a beginning; when nothing is on its way it is all of it.
LEMMA SerArrived ==
  ASSUME NEW list \in Seq(Nat), NEW w, NEW u, NEW r, SerOnItsWay(list, w, u, r)
  PROVE  LET all == SeqExt!FlattenSeq(SerFills(list, Len(list)))
         IN  SeqExt!IsPrefix(r, all) /\ (w = << >> => r = all /\ u.start)
<1> DEFINE m == Len(list)
<1>1. PICK s \in 0 .. m : \E k \in Nat : SerAt(list, w, u, r, s, k)
  BY DEF SerOnItsWay
<1>2. PICK k \in Nat : SerAt(list, w, u, r, s, k)
  BY <1>1
<1>3. r = SeqExt!FlattenSeq(SerFills(list, s))
  BY <1>2 DEF SerAt
<1>4. SeqExt!IsPrefix(r, SeqExt!FlattenSeq(SerFills(list, m)))
  BY <1>3, SerPrefix
<1>5. ASSUME w = << >> PROVE s = m /\ u.start
  <2>1. k = 0
    <3> SUFFICES ASSUME k # 0 PROVE FALSE
      OBVIOUS
    <3> DEFINE n == list[s + 1]
               rest == SeqExt!FlattenSeq(SerCuts(list, s + 1))
    <3>1. s < m /\ k <= n \div SerLEN /\ w = SerLeft(s + 1, n, k) \o rest
      BY <1>2 DEF SerAt
    <3>2. n \in Nat /\ s + 1 \in Nat /\ s + 1 \in 0 .. m
      BY <3>1
    <3>3. n \div SerLEN \in Nat
      BY <3>2, SerCutType
    <3>4. k \in 0 .. n \div SerLEN
      BY <3>1, <3>3
    <3>5. rest \in Seq(SerFrame)
      BY <3>2, SerCutsType
    <3> HIDE DEF n, rest
    <3>6. w # << >>
      <4>1. SerGoesOn(w, s + 1, n, k, rest)
        BY <3>1, <3>2, <3>4, <3>5, SerLeftNext
      <4> QED BY <4>1 DEF SerGoesOn
    <3> QED BY <1>5, <3>6
  <2>2. u.start /\ w = SeqExt!FlattenSeq(SerCuts(list, s))
    BY <1>2, <2>1 DEF SerAt
  <2>3. s = m
    <3> SUFFICES ASSUME s # m PROVE FALSE
      OBVIOUS
    <3> DEFINE a == SerCuts(list, s)
               h == Head(a)
               f == SeqExt!FlattenSeq(Tail(a))
    <3>1. s + 1 \in Nat /\ list[s + 1] \in Nat /\ 1 \in 1 .. m - s
      OBVIOUS
    <3>2. /\ a \in Seq(Seq(SerFrame)) /\ Len(a) = m - s
          /\ \A i \in 1 .. m - s : a[i] = Ser!Cut(s + i, list[s + i])
      BY SerCutsType
    <3>3. a # << >>
      BY <3>1, <3>2
    <3>4. h = Ser!Cut(s + 1, list[s + 1])
      <4>1. a[1] = Ser!Cut(s + 1, list[s + 1])
        BY <3>1, <3>2
      <4> HIDE DEF a
      <4>2. Head(a) = a[1]
        BY <3>2, <3>3, HeadTailProperties
      <4> QED BY <4>1, <4>2
    <3>5. Len(h) \in Nat \ {0} /\ h \in Seq(SerFrame)
      <4>1. Len(Ser!Cut(s + 1, list[s + 1])) = list[s + 1] \div SerLEN + 1 /\ list[s + 1] \div SerLEN \in Nat
        BY <3>1, SerCutType
      <4>2. h \in Seq(SerFrame)
        BY <3>1, <3>4, SerCutType
      <4> HIDE DEF h
      <4> QED BY <3>4, <4>1, <4>2
    <3>6. f \in Seq(SerFrame) /\ w = h \o f
      <4> HIDE DEF a
      <4>1. SeqExt!FlattenSeq(a) = h \o f /\ f \in Seq(SerFrame)
        BY <3>2, <3>3, FlattenTail
      <4> QED BY <2>2, <4>1 DEF a
    <3> HIDE DEF h, f
    <3>7. Len(w) = Len(h) + Len(f) /\ Len(f) \in Nat
      BY <3>5, <3>6, ConcatProperties
    <3>8. Len(w) = 0
      BY <1>5
    <3> HIDE DEF a
    <3>9. \A i, j \in Nat : 0 = i + j => i = 0
      OBVIOUS
    <3> QED BY <3>5, <3>7, <3>8, <3>9
  <2> QED BY <2>2, <2>3
<1> QED BY <1>3, <1>4, <1>5

\* The inductive invariant: of every id somebody is registered for, some series
\* are returned, the next one has come in part, and the rest is on its way.
SerInv ==
  /\ rSent \in [SerIds -> Seq(Nat)]
  /\ DOMAIN rWire = SerIds /\ rWire = [id \in SerIds |-> rWire[id]]
  /\ rUnpacker = [id \in SerHandled |-> rUnpacker[id]]
  /\ rResult = [id \in SerHandled |-> rResult[id]]
  /\ \A id \in SerHandled : SerOnItsWay(rSent[id], rWire[id], rUnpacker[id], rResult[id])

LEMMA SerStart == Ser!Init => SerInv
<1> SUFFICES ASSUME Ser!Init PROVE SerInv
  OBVIOUS
<1>1. /\ rWire = [id \in SerIds |-> << >>] /\ rSent = [id \in SerIds |-> << >>]
      /\ rUnpacker = [id \in SerHandled |-> [start |-> TRUE, size |-> 0, buf |-> << >>]]
      /\ rResult = [id \in SerHandled |-> << >>]
  BY DEF Ser!Init
<1> DEFINE u == [start |-> TRUE, size |-> 0, buf |-> << >>]
<1>2. SerOnItsWay(<< >>, << >>, u, << >>)
  <2>1. /\ SerFills(<< >>, 0) = << >> /\ SerCuts(<< >>, 0) = << >> /\ Len(<< >>) = 0
    BY DEF SerFills, SerCuts
  <2>2. SeqExt!FlattenSeq(<< >>) = << >>
    BY FlattenNone
  <2>3. u.start
    OBVIOUS
  <2>4. SerAt(<< >>, << >>, u, << >>, 0, 0)
    BY <2>1, <2>2, <2>3 DEF SerAt
  <2>5. 0 \in 0 .. Len(<< >>) /\ 0 \in Nat
    OBVIOUS
  <2> QED BY <2>4, <2>5 DEF SerOnItsWay
<1>3. ASSUME NEW id \in SerHandled PROVE SerOnItsWay(rSent[id], rWire[id], rUnpacker[id], rResult[id])
  <2>1. id \in SerIds
    BY SeriesAssumption
  <2>2. rSent[id] = << >> /\ rWire[id] = << >> /\ rUnpacker[id] = u /\ rResult[id] = << >>
    BY <1>1, <2>1
  <2> QED BY <1>2, <2>2
<1>4. rSent \in [SerIds -> Seq(Nat)]
  <2>1. << >> \in Seq(Nat)
    OBVIOUS
  <2> QED BY <1>1, <2>1
<1> QED BY <1>1, <1>3, <1>4 DEF SerInv

LEMMA SerNext == ASSUME SerInv, [Ser!Next]_(Ser!vars) PROVE SerInv'
<1>1. ASSUME NEW id \in SerIds, NEW n \in SerSizes, Ser!Send(id, n) PROVE SerInv'
  <2>1. /\ rSent' = [rSent EXCEPT ![id] = Append(@, n)]
        /\ rWire' = [rWire EXCEPT ![id] = @ \o Ser!Cut(Len(rSent[id]) + 1, n)]
        /\ UNCHANGED <<rUnpacker, rResult>>
    BY <1>1 DEF Ser!Send
  <2>2. n \in Nat
    BY SeriesAssumption
  <2>3. rSent' \in [SerIds -> Seq(Nat)]
    <3>1. rSent[id] \in Seq(Nat)
      BY DEF SerInv
    <3>2. Append(rSent[id], n) \in Seq(Nat)
      BY <2>2, <3>1, AppendProperties
    <3> QED BY <2>1, <3>2 DEF SerInv
  <2>4. ASSUME NEW h \in SerHandled
        PROVE  SerOnItsWay(rSent'[h], rWire'[h], rUnpacker[h], rResult[h])
    <3>1. /\ h \in SerIds /\ rSent[h] \in Seq(Nat)
          /\ SerOnItsWay(rSent[h], rWire[h], rUnpacker[h], rResult[h])
      BY SeriesAssumption DEF SerInv
    <3>2. CASE h = id
      <4>1. rSent'[h] = Append(rSent[h], n) /\ rWire'[h] = rWire[h] \o Ser!Cut(Len(rSent[h]) + 1, n)
        BY <2>1, <3>1, <3>2 DEF SerInv
      <4> QED BY <2>2, <3>1, <4>1, SerSent
    <3>3. CASE h # id
      BY <2>1, <3>1, <3>3 DEF SerInv
    <3> QED BY <3>2, <3>3
  <2>5. DOMAIN rWire' = SerIds /\ rWire' = [i \in SerIds |-> rWire'[i]]
    BY <2>1 DEF SerInv
  <2>6. rUnpacker' = rUnpacker /\ rResult' = rResult
    BY <2>1
  <2> QED BY <2>3, <2>4, <2>5, <2>6 DEF SerInv
<1>2. ASSUME NEW id \in SerIds, Ser!handle(id) PROVE SerInv'
  <2>1. /\ rWire[id] # << >> /\ rWire' = [rWire EXCEPT ![id] = Tail(@)] /\ rSent' = rSent
    BY <1>2 DEF Ser!handle
  <2>2. DOMAIN rWire' = SerIds /\ rWire' = [i \in SerIds |-> rWire'[i]]
    BY <2>1 DEF SerInv
  <2>3. CASE id \notin SerHandled
    <3>1. rUnpacker' = rUnpacker /\ rResult' = rResult
      BY <1>2, <2>3 DEF Ser!handle
    <3>2. ASSUME NEW h \in SerHandled PROVE rWire'[h] = rWire[h]
      BY <2>1, <2>3, SeriesAssumption DEF SerInv
    <3> QED BY <2>1, <2>2, <3>1, <3>2 DEF SerInv
  <2>4. CASE id \in SerHandled
    <3> DEFINE u == Ser!unpack(rUnpacker[id], Head(rWire[id]))
    <3>1. /\ rUnpacker' = [rUnpacker EXCEPT ![id] = u]
          /\ rResult' = IF u.start /\ u.size > 0
                        THEN [rResult EXCEPT ![id] = Append(@, u.buf)] ELSE rResult
      BY <1>2, <2>4 DEF Ser!handle
    <3> HIDE DEF u
    <3> DEFINE r == IF u.start /\ u.size > 0 THEN Append(rResult[id], u.buf) ELSE rResult[id]
    <3>2. SerOnItsWay(rSent[id], Tail(rWire[id]), u, r)
      <4>1. rSent[id] \in Seq(Nat) /\ SerOnItsWay(rSent[id], rWire[id], rUnpacker[id], rResult[id])
        BY <2>4 DEF SerInv
      <4>2. u = Ser!unpack(rUnpacker[id], Head(rWire[id]))
        BY DEF u
      <4> QED BY <2>1, <4>1, <4>2, SerHandledOn
    <3>3. rWire'[id] = Tail(rWire[id]) /\ rUnpacker'[id] = u /\ rResult'[id] = r
      BY <2>1, <2>4, <3>1 DEF SerInv
    <3>4. ASSUME NEW h \in SerHandled, h # id
          PROVE  rWire'[h] = rWire[h] /\ rUnpacker'[h] = rUnpacker[h] /\ rResult'[h] = rResult[h]
      <4>1. h \in SerIds
        BY SeriesAssumption
      <4> QED BY <2>1, <3>1, <3>4, <4>1 DEF SerInv
    <3>5. /\ rUnpacker' = [h \in SerHandled |-> rUnpacker'[h]]
          /\ rResult' = [h \in SerHandled |-> rResult'[h]]
      BY <3>1 DEF SerInv
    <3> HIDE DEF r
    <3>6. ASSUME NEW h \in SerHandled
          PROVE  SerOnItsWay(rSent[h], rWire'[h], rUnpacker'[h], rResult'[h])
      <4>1. CASE h = id
        BY <3>2, <3>3, <4>1
      <4>2. CASE h # id
        BY <3>4, <4>2 DEF SerInv
      <4> QED BY <4>1, <4>2
    <3> QED BY <2>1, <2>2, <3>5, <3>6 DEF SerInv
  <2> QED BY <2>3, <2>4
<1>3. CASE UNCHANGED Ser!vars
  BY <1>3 DEF Ser!vars, SerInv
<1> QED BY <1>1, <1>2, <1>3 DEF Ser!Next

LEMMA SerImplies == ASSUME SerInv PROVE Ser!SeriesWhole
<1> SUFFICES ASSUME NEW id \in SerHandled
             PROVE  /\ Ser!IsPrefix(rResult[id], Ser!Filled(id))
                    /\ rWire[id] = << >> => rResult[id] = Ser!Filled(id) /\ rUnpacker[id].start
  BY DEF Ser!SeriesWhole
<1> DEFINE list == rSent[id]
           all == SeqExt!FlattenSeq(SerFills(list, Len(list)))
<1>1. list \in Seq(Nat) /\ SerOnItsWay(list, rWire[id], rUnpacker[id], rResult[id])
  BY SeriesAssumption DEF SerInv
<1>2. /\ SeqExt!IsPrefix(rResult[id], all)
      /\ (rWire[id] = << >> => rResult[id] = all /\ rUnpacker[id].start)
  BY <1>1, SerArrived
<1>3. Ser!Filled(id) = all
  <2>1. DOMAIN list = 1 .. Len(list)
    BY <1>1
  <2>2. SerFills(list, Len(list))
          = [s \in DOMAIN list |-> IF list[s] = 0 THEN << >> ELSE <<Ser!Values(s, list[s])>>]
    BY <2>1 DEF SerFills
  <2>3. \A x : Ser!FlattenSeq(x) = SeqExt!FlattenSeq(x)
    BY DEF Ser!FlattenSeq, SeqExt!FlattenSeq
  <2> QED BY <2>2, <2>3, Zenon DEF Ser!Filled
<1>4. Ser!IsPrefix(rResult[id], all)
  BY <1>2 DEF Ser!IsPrefix, SeqExt!IsPrefix
<1> QED BY <1>2, <1>3, <1>4

\* Every series is returned once and whole, whatever is on its way to whom.
THEOREM SeriesAlwaysWhole == Ser!Spec => []SeriesWhole
<1>1. SerInv /\ [Ser!Next]_(Ser!vars) => SerInv'
  BY SerNext
<1>2. SerInv => SeriesWhole
  BY SerImplies DEF SeriesWhole
<1> QED BY SerStart, <1>1, <1>2, PTL DEF Ser!Spec

=============================================================================
