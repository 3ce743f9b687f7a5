---------------------------- MODULE DeviceProofs ----------------------------
(***************************************************************************)
(* What is proved of the devices that answer.                              *)
(*                                                                         *)
(* ODrive, for all sizes of its queue and of the sink, and every period:   *)
(* answers go to their questions.                                          *)
(*                                                                         *)
(* BNO085, for all numbers of slots and operations and all lengths of      *)
(* messages, whatever a full bus drops: messages are fetched whole and in  *)
(* order, and records are read one at a time.                              *)
(*                                                                         *)
(* PDO, for all nodes, numbers and maps: node and device agree.            *)
(***************************************************************************)
EXTENDS MCDevices, Lemmas

(***************************************************************************)
(* Sequences                                                               *)
(***************************************************************************)

\* t is s without some of its elements.
Thinned(t, s) ==
  \E f \in [DOMAIN t -> DOMAIN s] :
    /\ \A i \in DOMAIN t : t[i] = s[f[i]]
    /\ \A i, j \in DOMAIN t : i < j => f[i] < f[j]

LEMMA WithoutOne ==
  ASSUME NEW S, NEW a \in Seq(S), NEW b \in Seq(S), b # << >>
  PROVE  Thinned(a \o Tail(b), a \o b)
<1> DEFINE t == a \o Tail(b)
           s == a \o b
           n == Len(a)
           m == Len(b)
           f == [i \in DOMAIN t |-> IF i <= n THEN i ELSE i + 1]
<1>1. n \in Nat /\ m \in Nat \ {0} /\ Len(Tail(b)) = m - 1 /\ Tail(b) \in Seq(S)
  BY EmptySeq
<1>2. DOMAIN t = 1 .. n + m - 1 /\ DOMAIN s = 1 .. n + m
  BY <1>1
<1>3. \A i \in 1 .. n + m : s[i] = IF i <= n THEN a[i] ELSE b[i - n]
  BY <1>1
<1>4. \A i \in 1 .. n + m - 1 : t[i] = IF i <= n THEN a[i] ELSE b[i - n + 1]
  <2>1. \A i \in 1 .. n + m - 1 : t[i] = IF i <= n THEN a[i] ELSE Tail(b)[i - n]
    BY <1>1
  <2>2. \A i \in 1 .. m - 1 : Tail(b)[i] = b[i + 1]
    BY <1>1
  <2> HIDE DEF t, s
  <2>3. SUFFICES ASSUME NEW i \in 1 .. n + m - 1, ~(i <= n)
                 PROVE  t[i] = b[i - n + 1]
    BY <2>1
  <2>4. i - n \in 1 .. m - 1
    BY <1>1, <2>3
  <2> QED BY <2>1, <2>2, <2>3, <2>4
<1> HIDE DEF t, s, n, m
<1>5. f \in [DOMAIN t -> DOMAIN s]
  BY <1>1, <1>2
<1>6. \A i \in DOMAIN t : t[i] = s[f[i]]
  <2> TAKE i \in DOMAIN t
  <2>1. CASE i <= n
    BY <1>1, <1>2, <1>3, <1>4, <2>1
  <2>2. CASE ~(i <= n)
    <3> DEFINE k == i + 1
    <3>1. f[i] = k /\ k \in 1 .. n + m /\ ~(k <= n) /\ k - n = i - n + 1
      BY <1>1, <1>2, <2>2
    <3> HIDE DEF k, f
    <3>2. s[k] = b[k - n]
      BY <1>3, <3>1
    <3>3. t[i] = b[i - n + 1]
      BY <1>2, <1>4, <2>2
    <3> QED BY <3>1, <3>2, <3>3
  <2> QED BY <2>1, <2>2
<1>7. \A i, j \in DOMAIN t : i < j => f[i] < f[j]
  BY <1>1, <1>2
<1> QED BY <1>5, <1>6, <1>7 DEF Thinned, t, s

LEMMA Concatenated ==
  ASSUME NEW S, NEW s \in Seq(S), NEW t \in Seq(S)
  PROVE  /\ s \o t \in Seq(S) /\ Len(s \o t) = Len(s) + Len(t)
         /\ \A i \in DOMAIN (s \o t) : \/ i \in DOMAIN s /\ (s \o t)[i] = s[i]
                                       \/ i - Len(s) \in DOMAIN t /\ (s \o t)[i] = t[i - Len(s)]
         /\ \A i \in DOMAIN s : i \in DOMAIN (s \o t) /\ (s \o t)[i] = s[i]
         /\ \A i \in DOMAIN t : Len(s) + i \in DOMAIN (s \o t) /\ (s \o t)[Len(s) + i] = t[i]
<1> DEFINE n == Len(s)
           m == Len(t)
           u == s \o t
<1>1. n \in Nat /\ m \in Nat /\ DOMAIN s = 1 .. n /\ DOMAIN t = 1 .. m /\ DOMAIN u = 1 .. n + m
      /\ u \in Seq(S) /\ Len(u) = n + m
  OBVIOUS
<1>2. \A i \in 1 .. n + m : u[i] = IF i <= n THEN s[i] ELSE t[i - n]
  OBVIOUS
<1> HIDE DEF n, m, u
<1>3. \A i \in 1 .. n + m : (i \in 1 .. n /\ u[i] = s[i]) \/ (i - n \in 1 .. m /\ u[i] = t[i - n])
  BY <1>1, <1>2
<1>4. \A i \in 1 .. n : i \in 1 .. n + m /\ u[i] = s[i]
  BY <1>1, <1>2
<1>5. \A i \in 1 .. m : n + i \in 1 .. n + m /\ u[n + i] = t[i]
  <2> SUFFICES ASSUME NEW i \in 1 .. m
               PROVE  n + i \in 1 .. n + m /\ u[n + i] = t[i]
    OBVIOUS
  <2> DEFINE k == n + i
  <2>1. k \in 1 .. n + m /\ ~(k <= n) /\ k - n = i
    BY <1>1
  <2> HIDE DEF k
  <2>2. u[k] = t[k - n]
    BY <1>2, <2>1
  <2>3. u[k] = t[i]
    BY <2>1, <2>2
  <2> QED BY <2>1, <2>3 DEF k
<1> QED BY <1>1, <1>3, <1>4, <1>5 DEF n, m, u

LEMMA Regrouped ==
  ASSUME NEW S, NEW s \in Seq(S), NEW t \in Seq(S), NEW u \in Seq(S)
  PROVE  (s \o t) \o u = s \o (t \o u)
OBVIOUS

LEMMA MovedOn ==
  ASSUME NEW S, NEW s \in Seq(S), NEW t \in Seq(S), t # << >>
  PROVE  Append(s, Head(t)) \o Tail(t) = s \o t
OBVIOUS

Joined(r, s, t) == (r \o s) \o t

LEMMA MovedOver ==
  ASSUME NEW S, NEW r \in Seq(S), NEW s \in Seq(S), NEW t \in Seq(S), t # << >>
  PROVE  Joined(r, Append(s, Head(t)), Tail(t)) = Joined(r, s, t)
<1> DEFINE x == Append(s, Head(t))
           y == Tail(t)
<1>1. x \in Seq(S) /\ y \in Seq(S)
  OBVIOUS
<1>2. x \o y = s \o t
  BY MovedOn
<1> HIDE DEF x, y
<1>3. (r \o x) \o y = r \o (x \o y)
  BY <1>1
<1>4. (r \o s) \o t = r \o (s \o t)
  OBVIOUS
<1> QED BY <1>2, <1>3, <1>4 DEF x, y, Joined

LEMMA TailOfBoth ==
  ASSUME NEW S, NEW s \in Seq(S), NEW t \in Seq(S), s # << >>
  PROVE  s \o t \in Seq(S) /\ s \o t # << >> /\ Tail(s \o t) = Tail(s) \o t
OBVIOUS

(***************************************************************************)
(* ODrive                                                                  *)
(***************************************************************************)

OdCmds == [cmd : {"VELO", "GET"}, n : Nat] \cup {Od!Query}
OdAsks == {c \in OdCmds : c.cmd # "VELO"}
OdReqs == [cmd : {"VELO", "GET"}, n : Nat, unsent : BOOLEAN]

OdDrive == [alive : BOOLEAN, q : Seq(OdReqs), out : Seq(OdCmds), node : Seq(OdAsks),
            in : Seq(OdAsks), ok : BOOLEAN, made : Nat, matched : BOOLEAN]

\* All that is under way, what comes first in front.
OdLine(d) == (d.in \o d.node) \o d.out

\* Of two questions under way, the first is a measurement that a drive taken for
\* dead has not answered, the second is the voltage.
OdInTurn(s) == \A i, j \in DOMAIN s :
                 i < j /\ s[i].cmd # "VELO" /\ s[j].cmd # "VELO" => s[i].cmd = "GET" /\ s[j].cmd = "VBUS"

\* A question to a living drive is the one at the front of the queue.
OdFront(s, q) == \A i \in DOMAIN s : s[i].cmd # "VELO" =>
                   /\ q # << >> /\ q[1].cmd = "GET" /\ ~q[1].unsent
                   /\ s[i].cmd = "GET" /\ s[i].n = q[1].n

\* What waits was not sent, but for a measurement at the front.
OdWaits(q) == \A k \in DOMAIN q : q[k].unsent \/ (k = 1 /\ q[k].cmd = "GET")

OdSound(d) ==
  /\ d \in OdDrive /\ d.ok /\ d.matched
  /\ OdInTurn(OdLine(d)) /\ OdWaits(d.q)
  /\ IF d.alive THEN OdFront(OdLine(d), d.q) ELSE d.q = << >>

\* The voltage would be asked for again before it was answered.
OdAsked(s) == \E k \in DOMAIN s : s[k] = Od!Query
OdAgain(d, t) == OdAsked(OdLine(d)) /\ ~d.alive /\ d.in = << >> /\ t % ODrivePeriod = 0

OdInv ==
  ~oEnv.twice /\ ~oEnv.window =>
    /\ OdSound(oDrive) /\ oTime \in Nat
    /\ oPc = "poll" => ~OdAgain(oDrive, oTime)
    /\ oPc = "send" => oDrive.alive

-----------------------------------------------------------------------------
(* What happens to what is under way                                       *)

LEMMA ThinnedInTurn ==
  ASSUME NEW s, NEW t, Thinned(t, s)
  PROVE  /\ OdInTurn(s) => OdInTurn(t)
         /\ \A q : OdFront(s, q) => OdFront(t, q)
<1> PICK f \in [DOMAIN t -> DOMAIN s] :
           /\ \A i \in DOMAIN t : t[i] = s[f[i]]
           /\ \A i, j \in DOMAIN t : i < j => f[i] < f[j]
  BY DEF Thinned
<1>1. \A i \in DOMAIN t : f[i] \in DOMAIN s /\ t[i] = s[f[i]]
  OBVIOUS
<1>2. ASSUME OdInTurn(s), NEW i \in DOMAIN t, NEW j \in DOMAIN t,
             i < j, t[i].cmd # "VELO", t[j].cmd # "VELO"
      PROVE  t[i].cmd = "GET" /\ t[j].cmd = "VBUS"
  BY <1>1, <1>2 DEF OdInTurn
<1>3. ASSUME NEW q, OdFront(s, q)
      PROVE  OdFront(t, q)
  BY <1>1, <1>3 DEF OdFront
<1> QED BY <1>2, <1>3 DEF OdInTurn

LEMMA OdLineType ==
  ASSUME NEW d \in OdDrive
  PROVE  /\ d.in \in Seq(OdCmds) /\ d.node \in Seq(OdCmds) /\ d.out \in Seq(OdCmds)
         /\ d.in \o d.node \in Seq(OdCmds) /\ OdLine(d) \in Seq(OdCmds)
<1>1. OdAsks \subseteq OdCmds
  BY DEF OdAsks
<1>2. d.in \in Seq(OdCmds) /\ d.node \in Seq(OdCmds) /\ d.out \in Seq(OdCmds)
  BY <1>1 DEF OdDrive
<1> HIDE DEF OdCmds
<1> QED BY <1>2 DEF OdLine

LEMMA AskedParts ==
  ASSUME NEW S, NEW s \in Seq(S), NEW t \in Seq(S)
  PROVE  s \o t \in Seq(S) /\ (OdAsked(s \o t) <=> OdAsked(s) \/ OdAsked(t))
<1> DEFINE u == s \o t
<1>1. u \in Seq(S)
  BY Concatenated
<1>2. ASSUME NEW k \in DOMAIN u, u[k] = Od!Query
      PROVE  OdAsked(s) \/ OdAsked(t)
  <2>1. \/ k \in DOMAIN s /\ u[k] = s[k]
        \/ k - Len(s) \in DOMAIN t /\ u[k] = t[k - Len(s)]
    BY Concatenated
  <2> QED BY <1>2, <2>1 DEF OdAsked
<1>3. ASSUME NEW k \in DOMAIN s, s[k] = Od!Query
      PROVE  OdAsked(u)
  <2>1. k \in DOMAIN u /\ u[k] = s[k]
    BY Concatenated
  <2> HIDE DEF u
  <2> QED BY <1>3, <2>1 DEF OdAsked
<1>4. ASSUME NEW k \in DOMAIN t, t[k] = Od!Query
      PROVE  OdAsked(u)
  <2>1. Len(s) + k \in DOMAIN u /\ u[Len(s) + k] = t[k]
    BY Concatenated
  <2> HIDE DEF u
  <2> QED BY <1>4, <2>1 DEF OdAsked
<1> QED BY <1>1, <1>2, <1>3, <1>4 DEF OdAsked

LEMMA OdAgainIs ==
  ASSUME NEW d \in OdDrive
  PROVE  OdAsked(OdLine(d)) <=> OdAsked(d.out \o d.node \o d.in)
<1> DEFINE C == OdCmds
           a == d.in
           b == d.node
           c == d.out
           u == (a \o b) \o c
           v == (c \o b) \o a
<1>1. a \in Seq(C) /\ b \in Seq(C) /\ c \in Seq(C)
  BY OdLineType
<1> HIDE DEF C, a, b, c
<1>2. /\ a \o b \in Seq(C) /\ c \o b \in Seq(C)
      /\ OdAsked(a \o b) <=> OdAsked(a) \/ OdAsked(b)
      /\ OdAsked(c \o b) <=> OdAsked(c) \/ OdAsked(b)
  BY <1>1, AskedParts
<1>3. /\ OdAsked(u) <=> OdAsked(a \o b) \/ OdAsked(c)
      /\ OdAsked(v) <=> OdAsked(c \o b) \/ OdAsked(a)
  BY <1>1, <1>2, AskedParts
<1> QED BY <1>2, <1>3 DEF OdLine, a, b, c

\* What comes is taken off the front.
LEMMA OdTaken ==
  ASSUME NEW d \in OdDrive, d.in # << >>
  PROVE  LET t == (Tail(d.in) \o d.node) \o d.out
         IN  /\ Head(d.in) \in OdAsks /\ Tail(d.in) \in Seq(OdAsks)
             /\ 1 \in DOMAIN OdLine(d) /\ OdLine(d)[1] = Head(d.in)
             /\ \A i \in DOMAIN t : i + 1 \in DOMAIN OdLine(d) /\ 1 < i + 1 /\ t[i] = OdLine(d)[i + 1]
<1> DEFINE C == OdCmds
           x == d.in
           y == d.node \o d.out
           s == x \o y
           t == Tail(x) \o y
<1>1. x \in Seq(C) /\ y \in Seq(C) /\ d.node \in Seq(C) /\ d.out \in Seq(C) /\ x # << >>
  BY OdLineType, ConcatProperties
<1>2. Head(d.in) \in OdAsks /\ Tail(d.in) \in Seq(OdAsks)
  BY HeadTailProperties DEF OdDrive
<1>3. OdLine(d) = s /\ (Tail(d.in) \o d.node) \o d.out = t
  <2>1. Tail(x) \in Seq(C)
    BY <1>1, HeadTailProperties
  <2> DEFINE a == Tail(x)
             b == d.node
             c == d.out
  <2>2. a \in Seq(C) /\ b \in Seq(C) /\ c \in Seq(C) /\ x \in Seq(C)
    BY <1>1, <2>1
  <2> HIDE DEF C, a, b, c, x
  <2>3. (a \o b) \o c = a \o (b \o c)
    BY <2>2
  <2>4. (x \o b) \o c = x \o (b \o c)
    BY <2>2
  <2> QED BY <2>3, <2>4 DEF OdLine, a, b, c, x
<1> HIDE DEF C, x, y
<1>4. /\ 1 \in DOMAIN s /\ s[1] = Head(x)
      /\ \A i \in DOMAIN t : i + 1 \in DOMAIN s /\ 1 < i + 1 /\ t[i] = s[i + 1]
  <2>1. Len(x) \in Nat \ {0} /\ Tail(x) \in Seq(C) /\ Len(Tail(x)) = Len(x) - 1 /\ Head(x) = x[1]
        /\ \A i \in 1 .. Len(x) - 1 : Tail(x)[i] = x[i + 1]
    BY <1>1, EmptySeq, HeadTailProperties
  <2>2. /\ 1 \in DOMAIN x
        /\ s \in Seq(C) /\ Len(s) = Len(x) + Len(y) /\ t \in Seq(C) /\ Len(t) = Len(x) - 1 + Len(y)
    BY <1>1, <2>1, Concatenated
  <2>3. 1 \in DOMAIN s /\ s[1] = Head(x)
    BY <1>1, <2>1, <2>2, Concatenated
  <2>4. ASSUME NEW i \in DOMAIN t
        PROVE  i + 1 \in DOMAIN s /\ 1 < i + 1 /\ t[i] = s[i + 1]
    <3>1. i \in 1 .. Len(x) - 1 + Len(y) /\ Len(x) \in Nat /\ Len(y) \in Nat
      BY <1>1, <2>1, <2>2
    <3>2. i + 1 \in DOMAIN s /\ 1 < i + 1
      BY <2>2, <3>1
    <3>3. t[i] = s[i + 1]
      BY <1>1, <2>1, <2>2, <3>1
    <3> QED BY <3>2, <3>3
  <2> QED BY <2>3, <2>4
<1> QED BY <1>2, <1>3, <1>4 DEF x

-----------------------------------------------------------------------------
(* The driver                                                              *)

LEMMA OdFlushed ==
  ASSUME NEW d, OdSound(d)
  PROVE  OdSound(Od!Flushed(d))
<1> DEFINE e == Od!Flushed(d)
<1>1. d \in OdDrive
  BY DEF OdSound
<1>2. /\ e \in OdDrive /\ e.ok = d.ok /\ e.matched = d.matched
      /\ e.in = d.in /\ e.node = d.node /\ e.out = d.out /\ e.q = << >> /\ e.alive = FALSE
  <2>1. e = [d EXCEPT !.alive = FALSE, !.q = << >>]
    BY DEF Od!Flushed
  <2>2. << >> \in Seq(OdReqs)
    OBVIOUS
  <2> HIDE DEF e
  <2>3. e \in OdDrive
    BY <1>1, <2>1, <2>2 DEF OdDrive
  <2> QED BY <1>1, <2>1, <2>3 DEF OdDrive
<1> HIDE DEF e
<1>3. OdLine(e) = OdLine(d) /\ OdWaits(e.q)
  BY <1>2 DEF OdLine, OdWaits
<1> QED BY <1>2, <1>3 DEF OdSound, e

LEMMA OdPushed ==
  ASSUME NEW d, OdSound(d), d.alive, NEW cmd \in {"VELO", "GET"}
  PROVE  OdSound(Od!trypush(d, cmd)) /\ Od!trypush(d, cmd).alive
<1> DEFINE e == Od!trypush(d, cmd)
           r == [cmd |-> cmd, n |-> d.made + 1, unsent |-> TRUE]
<1>1. d \in OdDrive /\ d.q \in Seq(OdReqs) /\ d.made \in Nat
  BY DEF OdSound, OdDrive
<1>2. r \in OdReqs /\ r.unsent
  BY <1>1 DEF OdReqs
<1>3. e = [d EXCEPT !.made = @ + 1, !.q = IF Len(@) < ODriveSlots THEN Append(@, r) ELSE @]
  BY DEF Od!trypush
<1> HIDE DEF e, r
<1>4. Append(d.q, r) \in Seq(OdReqs)
  BY <1>1, <1>2
<1>5. /\ e \in OdDrive /\ e.ok = d.ok /\ e.matched = d.matched /\ e.alive = d.alive
      /\ e.in = d.in /\ e.node = d.node /\ e.out = d.out
      /\ e.q = d.q \/ e.q = Append(d.q, r)
  <2> DEFINE p == IF Len(d.q) < ODriveSlots THEN Append(d.q, r) ELSE d.q
  <2>1. p \in Seq(OdReqs) /\ (p = d.q \/ p = Append(d.q, r))
    BY <1>1, <1>4
  <2>2. e = [d EXCEPT !.made = d.made + 1, !.q = p]
    BY <1>3
  <2>3. d.made + 1 \in Nat
    BY <1>1
  <2> HIDE DEF p
  <2>4. e \in OdDrive
    BY <1>1, <2>1, <2>2, <2>3 DEF OdDrive
  <2>5. /\ e.ok = d.ok /\ e.matched = d.matched /\ e.alive = d.alive
        /\ e.in = d.in /\ e.node = d.node /\ e.out = d.out /\ e.q = p
    BY <1>1, <2>2 DEF OdDrive
  <2> QED BY <2>1, <2>4, <2>5
<1>6. OdLine(e) = OdLine(d)
  BY <1>5 DEF OdLine
<1>7. OdWaits(Append(d.q, r)) /\ (d.q # << >> => Append(d.q, r)[1] = d.q[1])
  <2> DEFINE t == Append(d.q, r)
             n == Len(d.q)
  <2>1. /\ n \in Nat /\ DOMAIN t = 1 .. n + 1 /\ t[n + 1] = r
        /\ \A k \in 1 .. n : t[k] = d.q[k]
        /\ DOMAIN d.q = 1 .. n
    BY <1>1, <1>2
  <2>2. d.q # << >> => n # 0
    BY <1>1, EmptySeq
  <2> HIDE DEF t, n
  <2>3. OdWaits(d.q)
    BY DEF OdSound
  <2>4. ASSUME NEW k \in DOMAIN t
        PROVE  t[k].unsent \/ (k = 1 /\ t[k].cmd = "GET")
    <3>1. CASE k = n + 1
      BY <1>2, <2>1, <3>1
    <3>2. CASE k # n + 1
      <4>1. k \in 1 .. n
        BY <2>1, <3>2
      <4> QED BY <2>1, <2>3, <4>1 DEF OdWaits
    <3> QED BY <3>1, <3>2
  <2>5. d.q # << >> => t[1] = d.q[1]
    BY <2>1, <2>2
  <2> QED BY <2>4, <2>5 DEF OdWaits, t
<1>8. OdFront(OdLine(d), Append(d.q, r))
  <2>1. OdFront(OdLine(d), d.q)
    BY DEF OdSound
  <2>2. Append(d.q, r) # << >>
    BY <1>1, <1>2
  <2> QED BY <1>7, <2>1, <2>2 DEF OdFront
<1>9. OdInTurn(OdLine(d)) /\ OdFront(OdLine(d), d.q) /\ OdWaits(d.q) /\ d.ok /\ d.matched
  BY DEF OdSound
<1>10. OdWaits(e.q) /\ OdFront(OdLine(e), e.q)
  BY <1>5, <1>6, <1>7, <1>8, <1>9
<1> QED BY <1>5, <1>6, <1>9, <1>10 DEF OdSound, e

\* A drive that was taken for dead has answered.
LEMMA OdRevived ==
  ASSUME NEW d, OdSound(d), ~d.alive, d.in # << >>, NEW a \in BOOLEAN, a => Head(d.in) = Od!Query
  PROVE  OdSound([d EXCEPT !.in = Tail(@), !.alive = a])
<1> DEFINE e == [d EXCEPT !.in = Tail(@), !.alive = a]
           s == OdLine(d)
           t == (Tail(d.in) \o d.node) \o d.out
<1>1. d \in OdDrive
  BY DEF OdSound
<1>2. /\ Head(d.in) \in OdAsks /\ Tail(d.in) \in Seq(OdAsks) /\ 1 \in DOMAIN s /\ s[1] = Head(d.in)
      /\ \A i \in DOMAIN t : i + 1 \in DOMAIN s /\ 1 < i + 1 /\ t[i] = s[i + 1]
      /\ DOMAIN t \subseteq Nat
  <2>1. t \in Seq(OdCmds)
    <3>1. Tail(d.in) \in Seq(OdCmds)
      BY <1>1, OdLineType, HeadTailProperties
    <3> HIDE DEF OdCmds
    <3> QED BY <1>1, <3>1, OdLineType
  <2> HIDE DEF t
  <2>2. DOMAIN t \subseteq Nat
    BY <2>1
  <2> QED BY <1>1, <2>2, OdTaken DEF t
<1>3. /\ e \in OdDrive /\ e.ok = d.ok /\ e.matched = d.matched /\ e.alive = a
      /\ e.q = d.q /\ e.in = Tail(d.in) /\ e.node = d.node /\ e.out = d.out
  BY <1>1, <1>2 DEF OdDrive
<1>4. OdLine(e) = t
  BY <1>3 DEF OdLine
<1>5. OdInTurn(s) /\ d.ok /\ d.matched /\ OdWaits(d.q) /\ d.q = << >>
  BY DEF OdSound
<1> HIDE DEF e, s, t
<1>6. OdInTurn(t)
  BY <1>2, <1>5 DEF OdInTurn
<1>7. ASSUME a PROVE OdFront(t, d.q)
  <2> SUFFICES ASSUME NEW i \in DOMAIN t, t[i].cmd # "VELO"
               PROVE  FALSE
    BY DEF OdFront
  <2>1. s[1].cmd = "VBUS" /\ s[i + 1] = t[i] /\ i + 1 \in DOMAIN s /\ 1 < i + 1
    BY <1>2, <1>7 DEF Od!Query
  <2> QED BY <1>2, <1>5, <2>1 DEF OdInTurn
<1> QED BY <1>3, <1>4, <1>5, <1>6, <1>7 DEF OdSound, e

\* An answer of a living drive belongs to the front of the queue.
LEMMA OdReceived ==
  ASSUME NEW d, OdSound(d), d.alive, d.in # << >>
  PROVE  /\ d.q # << >>
         /\ OdSound(Od!Answered(d)) /\ Od!Answered(d).alive
<1> DEFINE e == Od!Answered(d)
           s == OdLine(d)
           t == (Tail(d.in) \o d.node) \o d.out
           p == Tail(d.q)
<1>1. d \in OdDrive
  BY DEF OdSound
<1>2. /\ Head(d.in) \in OdAsks /\ Tail(d.in) \in Seq(OdAsks) /\ 1 \in DOMAIN s /\ s[1] = Head(d.in)
      /\ \A i \in DOMAIN t : i + 1 \in DOMAIN s /\ 1 < i + 1 /\ t[i] = s[i + 1]
      /\ DOMAIN t \subseteq Nat
  <2>1. t \in Seq(OdCmds)
    <3>1. Tail(d.in) \in Seq(OdCmds)
      BY <1>1, OdLineType, HeadTailProperties
    <3> HIDE DEF OdCmds
    <3> QED BY <1>1, <3>1, OdLineType
  <2> HIDE DEF t
  <2>2. DOMAIN t \subseteq Nat
    BY <2>1
  <2> QED BY <1>1, <2>2, OdTaken DEF t
<1>3. OdInTurn(s) /\ OdFront(s, d.q) /\ OdWaits(d.q) /\ d.ok /\ d.matched
  BY DEF OdSound
<1>4. Head(d.in).cmd # "VELO"
  BY <1>2 DEF OdAsks
<1>5. d.q # << >> /\ d.q[1].cmd = "GET" /\ Head(d.in).n = d.q[1].n
  <2> HIDE DEF s
  <2> QED BY <1>2, <1>3, <1>4 DEF OdFront
<1>6. /\ d.q \in Seq(OdReqs) /\ p \in Seq(OdReqs) /\ Head(d.q) = d.q[1]
      /\ Len(d.q) \in Nat \ {0} /\ Len(p) = Len(d.q) - 1 /\ \A k \in 1 .. Len(p) : p[k] = d.q[k + 1]
  BY <1>1, <1>5, EmptySeq, HeadTailProperties DEF OdDrive
<1>7. OdWaits(p)
  <2>1. ASSUME NEW k \in DOMAIN p
        PROVE  p[k].unsent
    <3>1. k \in 1 .. Len(p) /\ k + 1 \in DOMAIN d.q /\ k + 1 # 1
      BY <1>6
    <3> HIDE DEF p
    <3> QED BY <1>3, <1>6, <3>1 DEF OdWaits
  <2> QED BY <2>1 DEF OdWaits
<1>8. OdInTurn(t) /\ OdFront(t, p)
  <2> HIDE DEF s, t, p
  <2>1. OdInTurn(t)
    BY <1>2, <1>3 DEF OdInTurn
  <2>2. ASSUME NEW i \in DOMAIN t, t[i].cmd # "VELO"
        PROVE  FALSE
    <3>1. s[i + 1] = t[i] /\ i + 1 \in DOMAIN s /\ 1 < i + 1
      BY <1>2
    <3>2. t[i].cmd = "VBUS"
      BY <1>2, <1>3, <1>4, <2>2, <3>1 DEF OdInTurn
    <3>3. t[i].cmd = "GET"
      BY <1>3, <2>2, <3>1 DEF OdFront
    <3> QED BY <3>2, <3>3
  <2> QED BY <2>1, <2>2 DEF OdFront
<1>9. e = [d EXCEPT !.in = Tail(d.in), !.q = p, !.matched = TRUE]
  BY <1>1, <1>3, <1>5, <1>6 DEF Od!Answered, OdDrive
<1> HIDE DEF e, p
<1>10. e \in OdDrive
  BY <1>1, <1>2, <1>6, <1>9 DEF OdDrive
<1>11. /\ e.ok = d.ok /\ e.matched = TRUE /\ e.alive = d.alive
       /\ e.in = Tail(d.in) /\ e.node = d.node /\ e.out = d.out /\ e.q = p
  BY <1>1, <1>9 DEF OdDrive
<1>12. OdLine(e) = t
  BY <1>11 DEF OdLine
<1> QED BY <1>3, <1>5, <1>7, <1>8, <1>10, <1>11, <1>12 DEF OdSound, e

\* What is appended to the line.
LEMMA OdAppended ==
  ASSUME NEW d \in OdDrive, NEW c \in OdCmds
  PROVE  /\ (d.in \o d.node) \o Append(d.out, c) = Append(OdLine(d), c)
         /\ LET s == OdLine(d)
                t == Append(s, c)
            IN  /\ DOMAIN s \subseteq Nat
                /\ \A i \in DOMAIN t : (i \in DOMAIN s /\ t[i] = s[i]) \/ (t[i] = c /\ \A j \in DOMAIN s : j < i)
                /\ \A i, j \in DOMAIN t : i < j => i \in DOMAIN s
<1> DEFINE C == OdCmds
           a == d.in \o d.node
           b == d.out
<1>1. a \in Seq(C) /\ b \in Seq(C) /\ c \in C
  BY OdLineType
<1> HIDE DEF C, a, b
<1>2. a \o Append(b, c) = Append(a \o b, c)
  BY <1>1
<1> DEFINE s == a \o b
           t == Append(s, c)
           n == Len(s)
<1>3. s \in Seq(C)
  BY <1>1
<1> HIDE DEF s
<1>4. /\ n \in Nat /\ DOMAIN s = 1 .. n /\ DOMAIN t = 1 .. n + 1 /\ t[n + 1] = c
      /\ \A i \in 1 .. n : t[i] = s[i]
  BY <1>1, <1>3
<1> HIDE DEF t, n
<1>5. ASSUME NEW i \in DOMAIN t
      PROVE  (i \in DOMAIN s /\ t[i] = s[i]) \/ (t[i] = c /\ \A j \in DOMAIN s : j < i)
  <2>1. i \in 1 .. n \/ i = n + 1
    BY <1>4
  <2>2. \A j \in DOMAIN s : j < n + 1
    BY <1>4
  <2> QED BY <1>4, <2>1, <2>2
<1>6. \A i, j \in DOMAIN t : i < j => i \in DOMAIN s
  BY <1>4
<1>7. DOMAIN s \subseteq Nat
  BY <1>4
<1> QED BY <1>2, <1>5, <1>6, <1>7 DEF OdLine, a, b, s, t

\* The voltage is asked for.
LEMMA OdAsks1 ==
  ASSUME NEW d, OdSound(d), ~d.alive, ~OdAsked(OdLine(d))
  PROVE  OdSound([d EXCEPT !.out = Append(@, Od!Query)])
<1> DEFINE c == Od!Query
           e == [d EXCEPT !.out = Append(@, c)]
           s == OdLine(d)
           t == Append(s, c)
<1>1. d \in OdDrive
  BY DEF OdSound
<1>2. c \in OdCmds /\ c.cmd = "VBUS"
  BY DEF OdCmds, Od!Query
<1>3. \A i \in DOMAIN s : s[i] \in OdCmds
  <2>1. s \in Seq(OdCmds)
    BY <1>1, OdLineType
  <2> HIDE DEF s, OdCmds
  <2> QED BY <2>1
<1>4. \A i \in DOMAIN s : s[i].cmd # "VELO" => s[i].cmd = "GET"
  <2>1. ~OdAsked(s)
    OBVIOUS
  <2> HIDE DEF s
  <2> SUFFICES ASSUME NEW i \in DOMAIN s, s[i].cmd # "VELO"
               PROVE  s[i].cmd = "GET"
    OBVIOUS
  <2>2. s[i] # Od!Query
    BY <2>1 DEF OdAsked
  <2>3. s[i] \in [cmd : {"VELO", "GET"}, n : Nat]
    BY <1>3, <2>2 DEF OdCmds
  <2> QED BY <2>3
<1>5. /\ e \in OdDrive /\ e.ok = d.ok /\ e.matched = d.matched /\ e.alive = d.alive
      /\ e.q = d.q /\ e.in = d.in /\ e.node = d.node /\ e.out = Append(d.out, c)
  <2>1. Append(d.out, c) \in Seq(OdCmds)
    BY <1>1, <1>2 DEF OdDrive
  <2> HIDE DEF c
  <2> QED BY <1>1, <2>1 DEF OdDrive
<1>6. OdLine(e) = t
  <2>1. (d.in \o d.node) \o Append(d.out, c) = t
    BY <1>1, <1>2, OdAppended
  <2> HIDE DEF e, t, c
  <2> QED BY <1>5, <2>1 DEF OdLine
<1>7. OdInTurn(s) /\ d.ok /\ d.matched /\ OdWaits(d.q) /\ d.q = << >>
  BY DEF OdSound
<1>8. /\ \A i \in DOMAIN t : (i \in DOMAIN s /\ t[i] = s[i]) \/ (t[i] = c /\ \A j \in DOMAIN s : j < i)
      /\ \A i, j \in DOMAIN t : i < j => i \in DOMAIN s
      /\ DOMAIN s \subseteq Nat
  BY <1>1, <1>2, OdAppended
<1> HIDE DEF c, e, s, t
<1>9. OdInTurn(t)
  <2> SUFFICES ASSUME NEW i \in DOMAIN t, NEW j \in DOMAIN t, i < j,
                      t[i].cmd # "VELO", t[j].cmd # "VELO"
               PROVE  t[i].cmd = "GET" /\ t[j].cmd = "VBUS"
    BY DEF OdInTurn
  <2>1. i \in DOMAIN s /\ i \in Nat
    BY <1>8
  <2>2. t[i] = s[i]
    BY <1>8, <2>1
  <2>3. CASE t[j] = c
    BY <1>2, <1>4, <2>1, <2>2, <2>3
  <2>4. CASE j \in DOMAIN s /\ t[j] = s[j]
    BY <1>7, <2>1, <2>2, <2>4 DEF OdInTurn
  <2> QED BY <1>8, <2>3, <2>4
<1> QED BY <1>5, <1>6, <1>7, <1>9 DEF OdSound, e, c

\* The front is sent, and stays if it is a measurement.  Nothing was under way
\* that is answered.
LEMMA OdSends ==
  ASSUME NEW d, OdSound(d), d.alive, d.q # << >>, d.q[1].unsent
  PROVE  OdSound(Od!Settled(Od!Sent(d))) /\ Od!Settled(Od!Sent(d)).alive
<1> DEFINE f == Od!Sent(d)
           e == Od!Settled(f)
           s == OdLine(d)
           c == Od!Command(d.q[1])
           t == Append(s, c)
           p == [d.q EXCEPT ![1].unsent = FALSE]
<1>1. d \in OdDrive
  BY DEF OdSound
<1>2. /\ d.q \in Seq(OdReqs) /\ Len(d.q) \in Nat \ {0} /\ Head(d.q) = d.q[1] /\ d.q[1] \in OdReqs
      /\ DOMAIN d.q = 1 .. Len(d.q) /\ 1 \in DOMAIN d.q
  BY <1>1, EmptySeq, HeadTailProperties DEF OdDrive
<1>3. OdInTurn(s) /\ OdFront(s, d.q) /\ OdWaits(d.q) /\ d.ok /\ d.matched
  BY DEF OdSound
<1>4. \A i \in DOMAIN s : s[i].cmd = "VELO"
  <2> HIDE DEF s
  <2> QED BY <1>3 DEF OdFront
<1>5. c \in OdCmds /\ c.cmd = d.q[1].cmd /\ c.n = d.q[1].n
  BY <1>2 DEF OdCmds, OdReqs, Od!Command
<1>6. /\ p \in Seq(OdReqs) /\ p[1].cmd = d.q[1].cmd /\ p[1].n = d.q[1].n /\ p[1].unsent = FALSE
      /\ p # << >> /\ Head(p) = p[1] /\ Tail(p) = Tail(d.q) /\ DOMAIN p = DOMAIN d.q
      /\ \A k \in DOMAIN d.q : k # 1 => p[k] = d.q[k]
  <2> DEFINE r == [d.q[1] EXCEPT !.unsent = FALSE]
  <2>1. r \in OdReqs /\ r.cmd = d.q[1].cmd /\ r.n = d.q[1].n /\ r.unsent = FALSE
    BY <1>2 DEF OdReqs
  <2>2. p = [d.q EXCEPT ![1] = r]
    BY <1>2
  <2> HIDE DEF r, p
  <2>3. /\ p \in Seq(OdReqs) /\ Len(p) = Len(d.q) /\ DOMAIN p = DOMAIN d.q /\ p[1] = r
        /\ \A k \in DOMAIN d.q : k # 1 => p[k] = d.q[k]
    BY <1>2, <2>1, <2>2, ExceptSeq
  <2>4. p # << >> /\ Head(p) = p[1]
    BY <1>2, <2>3, EmptySeq, HeadTailProperties
  <2>5. Tail(p) = Tail(d.q)
    <3>1. Len(Tail(p)) = Len(Tail(d.q)) /\ Tail(p) \in Seq(OdReqs) /\ Tail(d.q) \in Seq(OdReqs)
      BY <1>2, <2>3, <2>4, HeadTailProperties
    <3>2. ASSUME NEW k \in 1 .. Len(Tail(p))
          PROVE  Tail(p)[k] = Tail(d.q)[k]
      <4>1. Tail(p)[k] = p[k + 1] /\ Tail(d.q)[k] = d.q[k + 1]
        BY <1>2, <2>3, <2>4, <3>1, <3>2, HeadTailProperties
      <4>2. k + 1 \in DOMAIN d.q /\ k + 1 # 1
        BY <1>2, <2>3, <2>4, <3>2, HeadTailProperties
      <4> QED BY <2>3, <4>1, <4>2
    <3> QED BY <3>1, <3>2, SeqEqual
  <2> QED BY <2>1, <2>3, <2>4, <2>5
<1>7. OdWaits(Tail(d.q)) /\ Tail(d.q) \in Seq(OdReqs)
  <2>1. /\ Tail(d.q) \in Seq(OdReqs) /\ Len(Tail(d.q)) = Len(d.q) - 1
        /\ \A k \in 1 .. Len(Tail(d.q)) : Tail(d.q)[k] = d.q[k + 1]
    BY <1>2, HeadTailProperties
  <2> DEFINE u == Tail(d.q)
  <2> HIDE DEF u
  <2>2. ASSUME NEW k \in DOMAIN u
        PROVE  u[k].unsent
    <3>1. k \in 1 .. Len(u) /\ k + 1 \in DOMAIN d.q /\ k + 1 # 1
      BY <1>2, <2>1 DEF u
    <3> QED BY <1>3, <2>1, <3>1 DEF OdWaits, u
  <2> QED BY <2>1, <2>2 DEF OdWaits, u
<1>8. OdWaits(p) <=> d.q[1].cmd = "GET"
  <2> HIDE DEF p
  <2> QED BY <1>2, <1>3, <1>6 DEF OdWaits
<1>9. f = d \/ f = [d EXCEPT !.out = Append(d.out, c), !.q = p]
  BY <1>1, <1>2 DEF Od!Sent, OdDrive
<1> HIDE DEF f, p, c
<1>10. f \in OdDrive /\ f.ok = d.ok /\ f.matched = d.matched /\ f.alive = d.alive
       /\ f.in = d.in /\ f.node = d.node
       /\ ((f.out = d.out /\ f.q = d.q) \/ (f.out = Append(d.out, c) /\ f.q = p))
  <2>1. Append(d.out, c) \in Seq(OdCmds)
    <3>1. d.out \in Seq(OdCmds)
      BY <1>1 DEF OdDrive
    <3> HIDE DEF OdCmds
    <3> QED BY <1>5, <3>1
  <2>2. f \in OdDrive
    BY <1>1, <1>6, <1>9, <2>1 DEF OdDrive
  <2> QED BY <1>1, <1>9, <2>2 DEF OdDrive
<1>11. Tail(f.q) = Tail(d.q) /\ Head(f.q).cmd = d.q[1].cmd
  BY <1>2, <1>6, <1>10
<1>12. e = IF d.q[1].cmd # "GET" THEN [f EXCEPT !.q = Tail(d.q)] ELSE f
  BY <1>10, <1>11 DEF Od!Settled, OdDrive
<1> HIDE DEF e
<1>13. /\ e \in OdDrive /\ e.ok = d.ok /\ e.matched = d.matched /\ e.alive = d.alive
       /\ e.in = d.in /\ e.node = d.node /\ e.out = f.out
       /\ e.q = IF d.q[1].cmd # "GET" THEN Tail(d.q) ELSE f.q
  <2>1. CASE d.q[1].cmd # "GET"
    <3> DEFINE u == Tail(d.q)
    <3>1. u \in Seq(OdReqs) /\ f \in OdDrive
      BY <1>7, <1>10
    <3>2. e = [f EXCEPT !.q = u]
      BY <1>12, <2>1
    <3> HIDE DEF u
    <3>3. e \in OdDrive
      BY <3>1, <3>2 DEF OdDrive
    <3>4. /\ e.ok = f.ok /\ e.matched = f.matched /\ e.alive = f.alive
          /\ e.in = f.in /\ e.node = f.node /\ e.out = f.out /\ e.q = u
      BY <3>1, <3>2 DEF OdDrive
    <3> QED BY <1>10, <2>1, <3>3, <3>4 DEF u
  <2>2. CASE d.q[1].cmd = "GET"
    BY <1>10, <1>12, <2>2
  <2> QED BY <2>1, <2>2
<1>14. OdLine(e) = IF f.out = d.out THEN s ELSE t
  <2>1. (d.in \o d.node) \o Append(d.out, c) = t
    BY <1>1, <1>5, OdAppended
  <2> HIDE DEF t
  <2> QED BY <1>10, <1>13, <2>1 DEF OdLine
<1>15. /\ \A i \in DOMAIN t : (i \in DOMAIN s /\ t[i] = s[i]) \/ (t[i] = c /\ \A j \in DOMAIN s : j < i)
       /\ \A i, j \in DOMAIN t : i < j => i \in DOMAIN s
       /\ DOMAIN s \subseteq Nat
  BY <1>1, <1>5, OdAppended
<1>16. OdWaits(e.q)
  <2>1. CASE d.q[1].cmd # "GET"
    BY <1>7, <1>13, <2>1
  <2>2. CASE d.q[1].cmd = "GET"
    BY <1>3, <1>8, <1>10, <1>13, <2>2
  <2> QED BY <2>1, <2>2
<1> HIDE DEF s, t
<1>17. OdInTurn(t)
  <2> SUFFICES ASSUME NEW i \in DOMAIN t, NEW j \in DOMAIN t, i < j, t[i].cmd # "VELO"
               PROVE  FALSE
    BY DEF OdInTurn
  <2>1. i \in DOMAIN s /\ i \in Nat
    BY <1>15
  <2>2. t[i] = s[i]
    BY <1>15, <2>1
  <2> QED BY <1>4, <2>1, <2>2
<1>18. OdFront(OdLine(e), e.q)
  <2>1. CASE f.out = d.out
    BY <1>4, <1>14, <2>1 DEF OdFront
  <2>2. CASE f.out # d.out
    <3>1. f.q = p
      BY <1>10, <2>2
    <3> SUFFICES ASSUME NEW i \in DOMAIN t, t[i].cmd # "VELO"
                 PROVE  /\ e.q # << >> /\ e.q[1].cmd = "GET" /\ ~e.q[1].unsent
                        /\ t[i].cmd = "GET" /\ t[i].n = e.q[1].n
      BY <1>14, <2>2 DEF OdFront
    <3>2. t[i] = c
      BY <1>4, <1>15
    <3>3. d.q[1].cmd = "GET"
      BY <1>2, <1>5, <3>2 DEF OdReqs
    <3> QED BY <1>5, <1>6, <1>13, <3>1, <3>2, <3>3
  <2> QED BY <2>1, <2>2
<1> QED BY <1>3, <1>13, <1>14, <1>16, <1>17, <1>18 DEF OdSound, e, f

-----------------------------------------------------------------------------
(* The line and the drive                                                  *)

\* The voltage is not asked for again of e if it is not of d.
OdLess(e, d) == /\ e.alive = d.alive /\ (e.in = << >> => d.in = << >>)
                /\ OdAsked(OdLine(e)) => OdAsked(OdLine(d))

LEMMA OdLessAgain ==
  ASSUME NEW d, NEW e, OdLess(e, d), NEW t, ~OdAgain(d, t)
  PROVE  ~OdAgain(e, t)
BY DEF OdLess, OdAgain

\* Something is gone from the line, or has moved on.
LEMMA OdKept ==
  ASSUME NEW d, OdSound(d), NEW e \in OdDrive,
         e.ok = d.ok, e.matched = d.matched, e.alive = d.alive, e.q = d.q, e.in = << >> => d.in = << >>,
         OdLine(e) = OdLine(d) \/ Thinned(OdLine(e), OdLine(d))
  PROVE  OdSound(e) /\ OdLess(e, d)
<1>1. OdInTurn(OdLine(d)) => OdInTurn(OdLine(e))
  BY ThinnedInTurn
<1>2. OdFront(OdLine(d), d.q) => OdFront(OdLine(e), d.q)
  BY ThinnedInTurn
<1>3. OdAsked(OdLine(e)) => OdAsked(OdLine(d))
  BY DEF Thinned, OdAsked
<1> QED BY <1>1, <1>2, <1>3 DEF OdSound, OdLess

LEMMA OdTransmits ==
  ASSUME NEW d, OdSound(d), d.out # << >>
  PROVE  LET e == [d EXCEPT !.out = Tail(@),
                            !.node = IF Head(d.out).cmd \in {"GET", "VBUS"}
                                     THEN Append(@, Head(d.out)) ELSE @]
         IN  OdSound(e) /\ OdLess(e, d)
<1> DEFINE c == Head(d.out)
           o == Tail(d.out)
           n == IF c.cmd \in {"GET", "VBUS"} THEN Append(d.node, c) ELSE d.node
           e == [d EXCEPT !.out = o, !.node = n]
<1>1. d \in OdDrive
  BY DEF OdSound
<1>2. o \in Seq(OdCmds) /\ c \in OdCmds
  BY <1>1, HeadTailProperties DEF OdDrive
<1>3. n \in Seq(OdAsks)
  <2>1. d.node \in Seq(OdAsks)
    BY <1>1 DEF OdDrive
  <2>2. c.cmd \in {"GET", "VBUS"} => c \in OdAsks
    BY <1>2 DEF OdAsks
  <2> HIDE DEF c, OdAsks
  <2> QED BY <2>1, <2>2
<1> HIDE DEF c, o, n
<1>4. e \in OdDrive
  BY <1>1, <1>2, <1>3 DEF OdDrive
<1>5. /\ e.ok = d.ok /\ e.matched = d.matched /\ e.alive = d.alive /\ e.q = d.q
      /\ e.in = d.in /\ e.out = o /\ e.node = n
  BY <1>1 DEF OdDrive
<1> HIDE DEF e
<1>6. OdLine(e) = OdLine(d) \/ Thinned(OdLine(e), OdLine(d))
  <2>1. CASE n = Append(d.node, c)
    <3> DEFINE C == OdCmds
               a == d.in
               b == d.node
               g == d.out
    <3>1. a \in Seq(C) /\ b \in Seq(C) /\ g \in Seq(C) /\ g # << >>
      BY <1>1, OdLineType
    <3> HIDE DEF C, a, b, g
    <3>2. Joined(a, Append(b, Head(g)), Tail(g)) = Joined(a, b, g)
      BY <3>1, MovedOver
    <3>3. (a \o Append(b, Head(g))) \o Tail(g) = (a \o b) \o g
      BY <3>2 DEF Joined
    <3> QED BY <1>5, <2>1, <3>3 DEF OdLine, a, b, g, c, o
  <2>2. CASE n = d.node
    <3> DEFINE a == d.in \o d.node
    <3>1. a \in Seq(OdCmds) /\ d.out \in Seq(OdCmds)
      BY <1>1, OdLineType
    <3> HIDE DEF a, OdCmds
    <3>2. Thinned(a \o Tail(d.out), a \o d.out)
      BY <3>1, WithoutOne
    <3> QED BY <1>5, <2>2, <3>2 DEF OdLine, a, o
  <2> QED BY <2>1, <2>2 DEF n
<1>7. OdSound(e) /\ OdLess(e, d)
  BY <1>4, <1>5, <1>6, OdKept
<1> QED BY <1>7 DEF e, n, o, c

LEMMA OdReplies ==
  ASSUME NEW d, OdSound(d), d.node # << >>
  PROVE  LET e == [d EXCEPT !.node = Tail(@), !.in = Append(@, Head(d.node))]
         IN  OdSound(e) /\ OdLess(e, d)
<1> DEFINE c == Head(d.node)
           n == Tail(d.node)
           i == Append(d.in, c)
           e == [d EXCEPT !.node = n, !.in = i]
<1>1. d \in OdDrive
  BY DEF OdSound
<1>2. n \in Seq(OdAsks) /\ c \in OdAsks
  BY <1>1, HeadTailProperties DEF OdDrive
<1>3. i \in Seq(OdAsks) /\ i # << >>
  <2>1. d.in \in Seq(OdAsks)
    BY <1>1 DEF OdDrive
  <2> HIDE DEF c, OdAsks
  <2> QED BY <1>2, <2>1
<1> HIDE DEF c, n, i
<1>4. e \in OdDrive
  BY <1>1, <1>2, <1>3 DEF OdDrive
<1>5. /\ e.ok = d.ok /\ e.matched = d.matched /\ e.alive = d.alive /\ e.q = d.q
      /\ e.in = i /\ e.out = d.out /\ e.node = n
  BY <1>1 DEF OdDrive
<1> HIDE DEF e
<1>6. OdLine(e) = OdLine(d)
  <2> DEFINE C == OdCmds
             a == d.in
             b == d.node
  <2>1. a \in Seq(C) /\ b \in Seq(C) /\ b # << >>
    BY <1>1, OdLineType
  <2> HIDE DEF C, a, b
  <2>2. Append(a, Head(b)) \o Tail(b) = a \o b
    BY <2>1, MovedOn
  <2> QED BY <1>5, <2>2 DEF OdLine, a, b, c, n, i
<1>7. OdSound(e) /\ OdLess(e, d)
  BY <1>3, <1>4, <1>5, <1>6, OdKept
<1> QED BY <1>7 DEF e, n, c, i

LEMMA OdLoses ==
  ASSUME NEW d, OdSound(d), d.node # << >>
  PROVE  LET e == [d EXCEPT !.node = Tail(@)]
         IN  OdSound(e) /\ OdLess(e, d)
<1> DEFINE n == Tail(d.node)
           e == [d EXCEPT !.node = n]
<1>1. d \in OdDrive
  BY DEF OdSound
<1>2. n \in Seq(OdAsks)
  BY <1>1, HeadTailProperties DEF OdDrive
<1> HIDE DEF n
<1>3. e \in OdDrive
  BY <1>1, <1>2 DEF OdDrive
<1>4. /\ e.ok = d.ok /\ e.matched = d.matched /\ e.alive = d.alive /\ e.q = d.q
      /\ e.in = d.in /\ e.out = d.out /\ e.node = n
  BY <1>1 DEF OdDrive
<1> HIDE DEF e
<1>5. Thinned(OdLine(e), OdLine(d))
  <2> DEFINE C == OdCmds
             a == d.in
             b == d.node
             g == d.out
             h == b \o g
  <2>1. a \in Seq(C) /\ b \in Seq(C) /\ g \in Seq(C) /\ b # << >>
    BY <1>1, OdLineType
  <2> HIDE DEF C, a, b, g
  <2>2. h \in Seq(C) /\ h # << >> /\ Tail(h) = Tail(b) \o g
    BY <2>1, TailOfBoth
  <2>3. (a \o b) \o g = a \o h
    BY <2>1, Regrouped
  <2>4. (a \o Tail(b)) \o g = a \o (Tail(b) \o g)
    BY <2>1, HeadTailProperties, Regrouped
  <2> HIDE DEF h
  <2>5. Thinned(a \o Tail(h), a \o h)
    BY <2>1, <2>2, WithoutOne
  <2> QED BY <1>4, <2>2, <2>3, <2>4, <2>5 DEF OdLine, a, b, g, n
<1>6. OdSound(e) /\ OdLess(e, d)
  BY <1>3, <1>4, <1>5, OdKept
<1> QED BY <1>6 DEF e, n

-----------------------------------------------------------------------------
(* The steps                                                               *)

OdSafe == ~oEnv.twice /\ ~oEnv.window

OdPart == /\ OdSound(oDrive) /\ oTime \in Nat
          /\ oPc = "poll" => ~OdAgain(oDrive, oTime)
          /\ oPc = "send" => oDrive.alive

LEMMA OdInit == Od!Init => OdInv
<1> SUFFICES ASSUME Od!Init
             PROVE  OdPart
  BY DEF OdInv, OdPart
<1>1. /\ oDrive.alive = FALSE /\ oDrive.ok = TRUE /\ oDrive.matched = TRUE /\ oDrive.q = << >>
      /\ oDrive.in = << >> /\ oDrive.node = << >> /\ oDrive.out = << >> /\ oTime = 0 /\ oPc = "out"
  BY DEF Od!Init
<1>2. oDrive \in OdDrive
  BY DEF Od!Init, OdDrive
<1>3. OdLine(oDrive) = << >>
  BY <1>1 DEF OdLine
<1>4. OdInTurn(OdLine(oDrive)) /\ OdWaits(oDrive.q)
  BY <1>1, <1>3 DEF OdInTurn, OdWaits
<1> QED BY <1>1, <1>2, <1>4 DEF OdPart, OdSound

LEMMA OdAgainHere ==
  ASSUME oDrive \in OdDrive, NEW t
  PROVE  Od!AsksAgain(t) <=> OdAgain(oDrive, t)
BY OdAgainIs DEF Od!AsksAgain, Od!Asked, OdAgain, OdAsked

LEMMA OdCall ==
  ASSUME OdPart, NEW cmd \in {"VELO", "GET"}, Od!Call(cmd)
  PROVE  OdPart'
<1> DEFINE d == Od!alive(oDrive)
<1>1. OdSound(oDrive) /\ oTime \in Nat /\ oTime' = oTime
  BY DEF OdPart, Od!Call, Od!Go
<1>2. OdSound(d)
  BY <1>1, OdFlushed DEF Od!alive
<1> HIDE DEF d
<1>3. CASE ~d.alive /\ oDrive' = d /\ oPc' = "out"
  BY <1>1, <1>2, <1>3 DEF OdPart
<1>4. CASE d.alive /\ oDrive' = Od!trypush(d, cmd) /\ oPc' = "poll"
  BY <1>1, <1>2, <1>4, OdPushed DEF OdPart, OdAgain
<1> QED BY <1>3, <1>4 DEF Od!Call, Od!Go, d

LEMMA OdDead ==
  ASSUME OdSafe, OdPart, Od!PollDead
  PROVE  OdPart'
<1>1. /\ OdSound(oDrive) /\ oTime \in Nat /\ oTime' = oTime /\ oPc' = "out" /\ ~oDrive.alive
      /\ oDrive \in OdDrive
  BY DEF OdPart, OdSound, Od!PollDead, Od!Go
<1>2. CASE oDrive.in # << >>
  <2> DEFINE a == Od!LooksLikeVoltage(Head(oDrive.in))
  <2>1. a \in BOOLEAN /\ (a => Head(oDrive.in) = Od!Query)
    BY DEF OdSafe, Od!LooksLikeVoltage
  <2>2. oDrive' = [oDrive EXCEPT !.in = Tail(@), !.alive = a]
    BY <1>2 DEF Od!PollDead
  <2> HIDE DEF a
  <2> QED BY <1>1, <1>2, <2>1, <2>2, OdRevived DEF OdPart
<1>3. CASE oDrive.in = << >> /\ oTime % ODrivePeriod = 0 /\ Len(oDrive.out) < ODriveOut
  <2>1. oDrive' = [oDrive EXCEPT !.out = Append(@, Od!Query)]
    BY <1>3 DEF Od!PollDead
  <2>2. ~OdAsked(OdLine(oDrive))
    BY <1>1, <1>3 DEF OdPart, OdAgain, Od!PollDead, Od!At
  <2> QED BY <1>1, <2>1, <2>2, OdAsks1 DEF OdPart
<1>4. CASE oDrive' = oDrive
  BY <1>1, <1>4 DEF OdPart
<1> QED BY <1>2, <1>3, <1>4 DEF Od!PollDead

LEMMA OdMain ==
  ASSUME OdPart, Od!Receive \/ Od!Received \/ Od!Send \/ Od!Return
  PROVE  OdPart'
<1>1. OdSound(oDrive) /\ oTime \in Nat /\ oTime' = oTime
  BY DEF OdPart, Od!Receive, Od!Received, Od!Send, Od!Return, Od!Go
<1>2. CASE Od!Receive
  <2>1. oDrive.alive /\ oDrive.in # << >> /\ oPc' = "poll"
    BY <1>2 DEF Od!Receive, Od!Go
  <2>2. oDrive.q # << >> /\ OdSound(Od!Answered(oDrive)) /\ Od!Answered(oDrive).alive
    BY <1>1, <2>1, OdReceived
  <2>3. oDrive' = Od!Answered(oDrive)
    BY <1>2, <2>2 DEF Od!Receive
  <2> QED BY <1>1, <2>1, <2>2, <2>3 DEF OdPart, OdAgain
<1>3. CASE Od!Received
  BY <1>1, <1>3 DEF Od!Received, Od!Go, OdPart
<1>4. CASE Od!Send
  <2>1. oDrive.alive /\ oPc' = "send"
    BY <1>4 DEF Od!Send, Od!Go, Od!At, OdPart
  <2>2. oDrive.q # << >> /\ oDrive.q[1].unsent
    BY <1>4 DEF Od!Send, Od!Unsent
  <2>3. oDrive' = Od!Settled(Od!Sent(oDrive))
    BY <1>4 DEF Od!Send
  <2> QED BY <1>1, <2>1, <2>2, <2>3, OdSends DEF OdPart
<1>5. CASE Od!Return
  BY <1>1, <1>5 DEF Od!Return, Od!Go, OdPart
<1> QED BY <1>2, <1>3, <1>4, <1>5

LEMMA OdOutside ==
  ASSUME OdPart, Od!Transmit \/ Od!Answer \/ Od!Lose
  PROVE  OdPart'
<1>1. OdSound(oDrive) /\ oTime \in Nat /\ oTime' = oTime /\ oPc' = oPc
  BY DEF OdPart, Od!Transmit, Od!Answer, Od!Lose, Od!Outside
<1>2. OdSound(oDrive') /\ OdLess(oDrive', oDrive)
  <2>1. CASE Od!Transmit
    BY <1>1, <2>1, OdTransmits DEF Od!Transmit
  <2>2. CASE Od!Answer
    BY <1>1, <2>2, OdReplies DEF Od!Answer
  <2>3. CASE Od!Lose
    BY <1>1, <2>3, OdLoses DEF Od!Lose
  <2> QED BY <2>1, <2>2, <2>3
<1>3. ~OdAgain(oDrive, oTime) => ~OdAgain(oDrive', oTime)
  BY <1>2, OdLessAgain
<1>4. oDrive'.alive = oDrive.alive
  BY <1>2 DEF OdLess
<1> QED BY <1>1, <1>2, <1>3, <1>4 DEF OdPart

LEMMA OdNext == OdInv /\ [Od!Next]_(Od!vars) => OdInv'
<1> SUFFICES ASSUME OdInv, [Od!Next]_(Od!vars), OdSafe'
             PROVE  OdPart'
  BY DEF OdInv, OdPart, OdSafe
<1>1. oEnv' = oEnv
  BY DEF Od!Next, Od!vars, Od!Call, Od!CallPoll, Od!Main, Od!PollDead, Od!Receive, Od!Received,
         Od!Send, Od!Return, Od!Transmit, Od!Answer, Od!Lose, Od!Tick, Od!At, Od!Outside
<1>2. OdSafe /\ OdPart
  BY <1>1 DEF OdInv, OdPart, OdSafe
<1>3. CASE UNCHANGED Od!vars
  BY <1>2, <1>3 DEF OdPart, Od!vars
<1>4. CASE Od!Call("VELO") \/ Od!Call("GET")
  BY <1>2, <1>4, OdCall
<1>5. CASE Od!CallPoll
  <2>1. oDrive \in OdDrive
    BY <1>2 DEF OdPart, OdSound
  <2>2. ~OdAgain(oDrive, oTime)
    BY <1>2, <1>5, <2>1, OdAgainHere DEF Od!CallPoll, OdSafe
  <2> QED BY <1>2, <1>5, <2>2 DEF OdPart, Od!CallPoll, Od!Go
<1>6. CASE Od!Main
  BY <1>2, <1>6, OdDead, OdMain DEF Od!Main
<1>7. CASE Od!Transmit \/ Od!Answer \/ Od!Lose
  BY <1>2, <1>7, OdOutside
<1>8. CASE Od!Tick
  <2>1. oDrive \in OdDrive
    BY <1>2 DEF OdPart, OdSound
  <2>2. oPc = "poll" => ~OdAgain(oDrive, oTime + 1)
    BY <1>2, <1>8, <2>1, OdAgainHere DEF Od!Tick, OdSafe
  <2> QED BY <1>2, <1>8, <2>2 DEF OdPart, Od!Tick
<1> QED BY <1>3, <1>4, <1>5, <1>6, <1>7, <1>8 DEF Od!Next

\* Nothing comes that was not asked for, and a motor takes only the answer to its
\* own measurement (ODrive.h:106-118): whatever is lost, and although a drive that
\* was taken for dead may still answer what it was asked before.
THEOREM ODriveAlwaysMatched == Od!Spec => []ODriveMatched
<1>1. OdInv => ODriveMatched
  BY DEF OdInv, OdSound, ODriveMatched, Od!Matched
<1> QED BY <1>1, OdInit, OdNext, PTL DEF Od!Spec

(***************************************************************************)
(* BNO085                                                                  *)
(***************************************************************************)

Queues == {"write", "read"}

BnoOp    == [type : {"write", "read", "command"}, n : Nat, k : Nat]
BnoTrans == [id : Nat, active : BOOLEAN, q : Seq(BnoOp)]
BnoRq    == [read : {TRUE}, len : Int] \cup [read : {FALSE}, op : BnoOp]
BnoMsg   == [n : Nat, kind : {"write", "read", "other"}, status : Nat, len : Int]
BnoNote  == [n : Nat, whole : BOOLEAN]

BnoDrv == [bus : Seq(BnoRq), write : Seq(BnoTrans), read : Seq(BnoTrans), ok : BOOLEAN,
           made : Nat, sent : Seq(BnoOp), dropped : BOOLEAN, ended : SUBSET Nat,
           handled : Seq(BnoNote)]

\* A queue w of transactions and the operations sent.  Of a transaction that is
\* not marked none was sent; of the others the first, and of the one before the
\* last only when that one was done.
BnoWaiting(qs, w, made) ==
  \A i \in DOMAIN w :
    /\ w[i].id \in 1 .. made /\ (w[i].active => i = 1)
    /\ ~w[i].active => w[i].q # << >> /\ w[i].q[1] = [type |-> qs, n |-> w[i].id, k |-> 1]
    /\ \A j \in DOMAIN w : i < j => w[i].id < w[j].id

BnoTurns(qs, w, made, sent, ended) ==
  \A k \in DOMAIN sent : sent[k].type = qs =>
    /\ sent[k].k = 1 /\ sent[k].n \in 1 .. made
    /\ sent[k].n \in ended \/ (w # << >> /\ w[1].active /\ sent[k].n = w[1].id)
    /\ \A i \in DOMAIN w : ~w[i].active => sent[k].n < w[i].id
    /\ \A j \in DOMAIN sent : j < k /\ sent[j].type = qs => sent[j].n < sent[k].n /\ sent[j].n \in ended

BnoSide(qs, w, made, sent, ended) == /\ BnoWaiting(qs, w, made)
                                     /\ BnoTurns(qs, w, made, sent, ended)

BnoOrderly(d) == /\ d \in BnoDrv /\ d.ok
                 /\ \A qs \in Queues : BnoSide(qs, d[qs], d.made, d.sent, d.ended)

BnoAwake(w) == w # << >> => w[1].active

\* The places of s that hold a member of X
Where(s, X) == {k \in DOMAIN s : s[k] \in X}
AtMostOne(S) == \A x, y \in S : x = y

\* Requests for a record, and answers that end its transaction.
ReadRqs == {r \in BnoRq : ~r.read /\ r.op.type = "read"}
EndMsgs == {m \in BnoMsg : m.kind = "read" /\ m.status # 0}

\* There is one of them at most, and then it is for the transaction in front.
BnoReads(b, o, w) == /\ AtMostOne(Where(b, ReadRqs)) /\ AtMostOne(Where(o, EndMsgs))
                     /\ Where(b, ReadRqs) = {} \/ Where(o, EndMsgs) = {}
                     /\ Where(b, ReadRqs) # {} \/ Where(o, EndMsgs) # {} => w # << >> /\ w[1].active

-----------------------------------------------------------------------------
(* Places                                                                  *)

LEMMA AppendNotEmpty ==
  ASSUME NEW S, NEW s \in Seq(S), NEW r \in S
  PROVE  Append(s, r) # << >>
<1>1. Len(Append(s, r)) = Len(s) + 1 /\ Len(s) \in Nat
  OBVIOUS
<1>2. Len(Append(s, r)) # 0 /\ Append(s, r) \in Seq(S)
  BY <1>1
<1> QED BY <1>2, EmptySeq

LEMMA WhereAppend ==
  ASSUME NEW S, NEW s \in Seq(S), NEW r \in S, NEW X
  PROVE  /\ r \notin X => Where(Append(s, r), X) = Where(s, X)
         /\ Where(s, X) = {} => AtMostOne(Where(Append(s, r), X))
<1> DEFINE t == Append(s, r)
           n == Len(s)
<1>1. /\ n \in Nat /\ DOMAIN s = 1 .. n /\ DOMAIN t = 1 .. n + 1 /\ t[n + 1] = r
      /\ \A k \in 1 .. n : t[k] = s[k]
  OBVIOUS
<1> HIDE DEF t, n
<1>2. \A k \in DOMAIN t : k \in DOMAIN s \/ k = n + 1
  BY <1>1
<1>3. \A k \in DOMAIN s : k \in DOMAIN t /\ t[k] = s[k]
  BY <1>1
<1>4. ASSUME r \notin X PROVE Where(t, X) = Where(s, X)
  BY <1>1, <1>2, <1>3, <1>4 DEF Where
<1>5. ASSUME Where(s, X) = {} PROVE AtMostOne(Where(t, X))
  <2>1. \A k \in Where(t, X) : k = n + 1
    BY <1>2, <1>3, <1>5 DEF Where
  <2> QED BY <2>1 DEF AtMostOne
<1> QED BY <1>4, <1>5 DEF t

LEMMA WhereTail ==
  ASSUME NEW S, NEW s \in Seq(S), s # << >>, NEW X
  PROVE  /\ AtMostOne(Where(s, X)) => AtMostOne(Where(Tail(s), X))
         /\ Where(s, X) = {} => Where(Tail(s), X) = {}
         /\ AtMostOne(Where(s, X)) /\ Head(s) \in X => Where(Tail(s), X) = {}
<1> DEFINE t == Tail(s)
<1>1. /\ Len(s) \in Nat \ {0} /\ Head(s) = s[1] /\ t \in Seq(S) /\ Len(t) = Len(s) - 1
      /\ \A k \in 1 .. Len(t) : t[k] = s[k + 1]
  BY EmptySeq, HeadTailProperties
<1>2. 1 \in DOMAIN s /\ DOMAIN t \subseteq Nat
  BY <1>1
<1> HIDE DEF t
<1>3. \A k \in DOMAIN t : k \in Nat /\ k + 1 # 1 /\ k + 1 \in DOMAIN s /\ t[k] = s[k + 1]
  BY <1>1
<1>4. \A k \in Where(t, X) : k \in Nat /\ k + 1 # 1 /\ k + 1 \in Where(s, X)
  BY <1>3 DEF Where
<1>5. ASSUME AtMostOne(Where(s, X)), NEW x \in Where(t, X), NEW y \in Where(t, X)
      PROVE  x = y
  <2>1. x + 1 = y + 1 /\ x \in Nat /\ y \in Nat
    BY <1>4, <1>5 DEF AtMostOne
  <2> QED BY <2>1
<1>6. ASSUME AtMostOne(Where(s, X)), Head(s) \in X, NEW x \in Where(t, X)
      PROVE  FALSE
  <2>1. 1 \in Where(s, X)
    BY <1>1, <1>2, <1>6 DEF Where
  <2> QED BY <1>4, <1>6, <2>1 DEF AtMostOne
<1> QED BY <1>4, <1>5, <1>6 DEF AtMostOne, t

LEMMA WhereConcat ==
  ASSUME NEW S, NEW s \in Seq(S), NEW t \in Seq(S), NEW X
  PROVE  /\ Where(t, X) = {} => Where(s \o t, X) = Where(s, X)
         /\ Where(s, X) = {} /\ AtMostOne(Where(t, X)) => AtMostOne(Where(s \o t, X))
<1> DEFINE u == s \o t
           n == Len(s)
<1>1. /\ \A i \in DOMAIN u : \/ i \in DOMAIN s /\ u[i] = s[i]
                             \/ i - n \in DOMAIN t /\ u[i] = t[i - n]
      /\ \A i \in DOMAIN s : i \in DOMAIN u /\ u[i] = s[i]
      /\ DOMAIN u \subseteq Int /\ n \in Int
  <2>1. u \in Seq(S) /\ n \in Nat
    BY Concatenated
  <2> HIDE DEF u
  <2>2. DOMAIN u \subseteq Int
    BY <2>1
  <2> QED BY <2>1, <2>2, Concatenated DEF u
<1> HIDE DEF u, n
<1>2. ASSUME Where(t, X) = {} PROVE Where(u, X) = Where(s, X)
  <2>1. \A i \in Where(u, X) : i \in Where(s, X)
    BY <1>1, <1>2 DEF Where
  <2>2. \A i \in Where(s, X) : i \in Where(u, X)
    BY <1>1 DEF Where
  <2> QED BY <2>1, <2>2
<1>3. ASSUME Where(s, X) = {}, AtMostOne(Where(t, X)), NEW x \in Where(u, X), NEW y \in Where(u, X)
      PROVE  x = y
  <2>1. x - n \in Where(t, X) /\ y - n \in Where(t, X) /\ x \in Int /\ y \in Int
    BY <1>1, <1>3 DEF Where
  <2>2. x - n = y - n
    BY <1>3, <2>1 DEF AtMostOne
  <2> QED BY <1>1, <2>1, <2>2
<1> QED BY <1>2, <1>3 DEF AtMostOne, u

-----------------------------------------------------------------------------
(* The driver's functions                                                  *)

LEMMA BnoQueueSet ==
  ASSUME NEW d \in BnoDrv, NEW qs \in Queues, NEW w \in Seq(BnoTrans)
  PROVE  LET e == [d EXCEPT ![qs] = w]
         IN  /\ e \in BnoDrv /\ e[qs] = w /\ \A o \in Queues : o # qs => e[o] = d[o]
             /\ e.bus = d.bus /\ e.ok = d.ok /\ e.made = d.made /\ e.sent = d.sent
             /\ e.dropped = d.dropped /\ e.ended = d.ended /\ e.handled = d.handled
<1>1. CASE qs = "write"
  BY <1>1 DEF BnoDrv, Queues
<1>2. CASE qs = "read"
  BY <1>2 DEF BnoDrv, Queues
<1> QED BY <1>1, <1>2 DEF Queues

LEMMA BnoQueueType ==
  ASSUME NEW d \in BnoDrv
  PROVE  \A qs \in Queues : d[qs] \in Seq(BnoTrans)
BY DEF BnoDrv, Queues

\* What does not concern the bus, the answers, or what they stand for.
BnoSame(e, d) == /\ e \in BnoDrv /\ e.ok = d.ok /\ e.handled = d.handled

\* A request to write, or none
BnoAdds(e, d) == \/ e.bus = d.bus
                 \/ \E op \in BnoOp : e.bus = Append(d.bus, [read |-> FALSE, op |-> op])

LEMMA BnoSend ==
  ASSUME NEW d \in BnoDrv, NEW op \in BnoOp
  PROVE  LET e == Bno!sendMessage(d, op)
         IN  /\ BnoSame(e, d) /\ \A o \in Queues : e[o] = d[o]
             /\ e.made = d.made /\ e.ended = d.ended
             /\ \/ e.bus = d.bus /\ e.sent = d.sent
                \/ e.bus = Append(d.bus, [read |-> FALSE, op |-> op]) /\ e.sent = Append(d.sent, op)
<1> DEFINE e == Bno!sendMessage(d, op)
           r == [read |-> FALSE, op |-> op]
           b == Append(d.bus, r)
           t == Append(d.sent, op)
<1>1. r \in BnoRq
  BY DEF BnoRq
<1>2. b \in Seq(BnoRq) /\ t \in Seq(BnoOp)
  <2>1. d.bus \in Seq(BnoRq) /\ d.sent \in Seq(BnoOp)
    BY DEF BnoDrv
  <2> HIDE DEF r
  <2> QED BY <1>1, <2>1
<1>3. CASE Bno!Full(d)
  <2>1. e = [d EXCEPT !.dropped = TRUE]
    BY <1>3 DEF Bno!sendMessage, Bno!trypush
  <2> HIDE DEF e
  <2>2. e \in BnoDrv
    BY <2>1 DEF BnoDrv
  <2> QED BY <2>1, <2>2 DEF BnoDrv, BnoSame, Queues, e
<1>4. CASE ~Bno!Full(d)
  <2>1. e = [[d EXCEPT !.bus = b] EXCEPT !.sent = Append(@, op)]
    BY <1>4 DEF Bno!sendMessage, Bno!trypush
  <2>2. e = [d EXCEPT !.bus = b, !.sent = t]
    BY <2>1 DEF BnoDrv
  <2> HIDE DEF e, b, t
  <2>3. e \in BnoDrv
    BY <1>2, <2>2 DEF BnoDrv
  <2>4. /\ e.ok = d.ok /\ e.handled = d.handled /\ e.made = d.made /\ e.ended = d.ended
        /\ e.bus = b /\ e.sent = t
    BY <2>2 DEF BnoDrv
  <2>5. \A o \in Queues : e[o] = d[o]
    BY <2>2 DEF BnoDrv, Queues
  <2> QED BY <2>3, <2>4, <2>5 DEF BnoSame, e, b, t
<1> QED BY <1>3, <1>4

\* An operation of another kind is sent.
LEMMA BnoTurnsOther ==
  ASSUME NEW qs, NEW w, NEW made, NEW ended, NEW sent \in Seq(BnoOp), NEW op \in BnoOp, op.type # qs,
         BnoTurns(qs, w, made, sent, ended)
  PROVE  BnoTurns(qs, w, made, Append(sent, op), ended)
<1> DEFINE t == Append(sent, op)
           n == Len(sent)
<1>1. /\ n \in Nat /\ DOMAIN sent = 1 .. n /\ DOMAIN t = 1 .. n + 1 /\ t[n + 1] = op
      /\ \A k \in 1 .. n : t[k] = sent[k]
  OBVIOUS
<1> HIDE DEF t, n
<1>2. \A k \in DOMAIN t : t[k].type = qs => k \in DOMAIN sent /\ t[k] = sent[k]
  <2> SUFFICES ASSUME NEW k \in DOMAIN t, t[k].type = qs
               PROVE  k \in 1 .. n
    BY <1>1
  <2> QED BY <1>1
<1>3. BnoTurns(qs, w, made, t, ended)
  <2> SUFFICES ASSUME NEW k \in DOMAIN t, t[k].type = qs
               PROVE  /\ t[k].k = 1 /\ t[k].n \in 1 .. made
                      /\ t[k].n \in ended \/ (w # << >> /\ w[1].active /\ t[k].n = w[1].id)
                      /\ \A i \in DOMAIN w : ~w[i].active => t[k].n < w[i].id
                      /\ \A j \in DOMAIN t : j < k /\ t[j].type = qs => t[j].n < t[k].n /\ t[j].n \in ended
    BY DEF BnoTurns
  <2>1. k \in DOMAIN sent /\ t[k] = sent[k]
    BY <1>2
  <2>2. \A j \in DOMAIN t : j < k /\ t[j].type = qs => t[j].n < t[k].n /\ t[j].n \in ended
    BY <1>2, <2>1 DEF BnoTurns
  <2> QED BY <2>1, <2>2 DEF BnoTurns
<1> QED BY <1>3 DEF t

\* The first operation of the transaction in front is sent.
LEMMA BnoTurnsFront ==
  ASSUME NEW qs, NEW w \in Seq(BnoTrans), NEW made \in Nat, NEW ended, NEW sent \in Seq(BnoOp), NEW op \in BnoOp,
         BnoSide(qs, w, made, sent, ended), w # << >>, ~w[1].active,
         op = [type |-> qs, n |-> w[1].id, k |-> 1]
  PROVE  LET v == [w EXCEPT ![1].active = TRUE]
         IN  /\ v \in Seq(BnoTrans) /\ v # << >> /\ v[1].active /\ v[1].q = w[1].q
             /\ BnoSide(qs, v, made, sent, ended) /\ BnoSide(qs, v, made, Append(sent, op), ended)
<1> DEFINE v == [w EXCEPT ![1].active = TRUE]
           r == [w[1] EXCEPT !.active = TRUE]
           t == Append(sent, op)
           n == Len(sent)
<1>1. 1 \in DOMAIN w /\ w[1] \in BnoTrans /\ DOMAIN w \subseteq Nat
  <2>1. Len(w) \in Nat \ {0} /\ DOMAIN w = 1 .. Len(w)
    BY EmptySeq
  <2> QED BY <2>1
<1>2. r \in BnoTrans /\ r.id = w[1].id /\ r.q = w[1].q /\ r.active = TRUE
  BY <1>1 DEF BnoTrans
<1>3. v = [w EXCEPT ![1] = r]
  BY <1>1
<1> HIDE DEF v, r
<1>4. /\ v \in Seq(BnoTrans) /\ DOMAIN v = DOMAIN w /\ v[1] = r /\ Len(v) = Len(w)
      /\ \A i \in DOMAIN w : i # 1 => v[i] = w[i]
  BY <1>1, <1>2, <1>3, ExceptSeq
<1>5. v # << >>
  BY <1>1, <1>4
<1>6. \A i \in DOMAIN v : v[i].id = w[i].id /\ (~v[i].active => i # 1 /\ v[i] = w[i] /\ ~w[i].active)
  BY <1>1, <1>2, <1>4
<1>7. BnoWaiting(qs, v, made)
  <2> SUFFICES ASSUME NEW i \in DOMAIN v
               PROVE  /\ v[i].id \in 1 .. made /\ (v[i].active => i = 1)
                      /\ ~v[i].active => v[i].q # << >> /\ v[i].q[1] = [type |-> qs, n |-> v[i].id, k |-> 1]
                      /\ \A j \in DOMAIN v : i < j => v[i].id < v[j].id
    BY DEF BnoWaiting
  <2>1. BnoWaiting(qs, w, made) /\ i \in DOMAIN w
    BY <1>4 DEF BnoSide
  <2>2. v[i].id \in 1 .. made /\ \A j \in DOMAIN v : i < j => v[i].id < v[j].id
    BY <1>4, <1>6, <2>1 DEF BnoWaiting
  <2>3. v[i].active => i = 1
    BY <1>4, <2>1 DEF BnoWaiting
  <2>4. ~v[i].active => v[i].q # << >> /\ v[i].q[1] = [type |-> qs, n |-> v[i].id, k |-> 1]
    BY <1>6, <2>1 DEF BnoWaiting
  <2> QED BY <2>2, <2>3, <2>4
<1>8. \A k \in DOMAIN sent : sent[k].type = qs => /\ sent[k].k = 1 /\ sent[k].n \in 1 .. made
        /\ sent[k].n \in ended /\ sent[k].n < w[1].id
        /\ \A i \in DOMAIN v : ~v[i].active => sent[k].n < v[i].id
  BY <1>1, <1>4, <1>6 DEF BnoSide, BnoTurns
<1>9. BnoTurns(qs, v, made, sent, ended)
  <2> SUFFICES ASSUME NEW k \in DOMAIN sent, sent[k].type = qs
               PROVE  /\ sent[k].k = 1 /\ sent[k].n \in 1 .. made
                      /\ sent[k].n \in ended \/ (v # << >> /\ v[1].active /\ sent[k].n = v[1].id)
                      /\ \A i \in DOMAIN v : ~v[i].active => sent[k].n < v[i].id
                      /\ \A j \in DOMAIN sent : j < k /\ sent[j].type = qs =>
                           sent[j].n < sent[k].n /\ sent[j].n \in ended
    BY DEF BnoTurns
  <2>1. sent[k].k = 1 /\ sent[k].n \in 1 .. made /\ sent[k].n \in ended
    BY <1>8
  <2>2. \A i \in DOMAIN v : ~v[i].active => sent[k].n < v[i].id
    BY <1>8
  <2>3. \A j \in DOMAIN sent : j < k /\ sent[j].type = qs => sent[j].n < sent[k].n /\ sent[j].n \in ended
    BY DEF BnoSide, BnoTurns
  <2> QED BY <2>1, <2>2, <2>3
<1>10. /\ n \in Nat /\ DOMAIN sent = 1 .. n /\ DOMAIN t = 1 .. n + 1 /\ t[n + 1] = op
       /\ \A k \in 1 .. n : t[k] = sent[k]
  OBVIOUS
<1>11. op.type = qs /\ op.n = w[1].id /\ op.k = 1
  OBVIOUS
<1> HIDE DEF t, n
<1>12. BnoTurns(qs, v, made, t, ended)
  <2> SUFFICES ASSUME NEW k \in DOMAIN t, t[k].type = qs
               PROVE  /\ t[k].k = 1 /\ t[k].n \in 1 .. made
                      /\ t[k].n \in ended \/ (v # << >> /\ v[1].active /\ t[k].n = v[1].id)
                      /\ \A i \in DOMAIN v : ~v[i].active => t[k].n < v[i].id
                      /\ \A j \in DOMAIN t : j < k /\ t[j].type = qs => t[j].n < t[k].n /\ t[j].n \in ended
    BY DEF BnoTurns
  <2>1. CASE k \in DOMAIN sent
    <3>1. t[k] = sent[k] /\ k <= n /\ k \in Nat
      BY <1>10, <2>1
    <3>2. \A j \in DOMAIN t : j < k => j \in DOMAIN sent /\ t[j] = sent[j]
      BY <1>10, <3>1
    <3>3. sent[k].type = qs
      BY <3>1
    <3>4. t[k].k = 1 /\ t[k].n \in 1 .. made /\ t[k].n \in ended
      BY <1>8, <2>1, <3>1, <3>3
    <3>5. \A i \in DOMAIN v : ~v[i].active => t[k].n < v[i].id
      BY <1>8, <2>1, <3>1, <3>3
    <3>6. \A j \in DOMAIN t : j < k /\ t[j].type = qs => t[j].n < t[k].n /\ t[j].n \in ended
      <4> SUFFICES ASSUME NEW j \in DOMAIN t, j < k, t[j].type = qs
                   PROVE  t[j].n < t[k].n /\ t[j].n \in ended
        OBVIOUS
      <4>1. j \in DOMAIN sent /\ sent[j].type = qs /\ t[j] = sent[j]
        BY <3>2
      <4>2. sent[j].n < sent[k].n /\ sent[j].n \in ended
        BY <2>1, <3>3, <4>1 DEF BnoSide, BnoTurns
      <4> QED BY <3>1, <4>1, <4>2
    <3> QED BY <3>4, <3>5, <3>6
  <2>2. CASE k = n + 1
    <3>1. t[k] = op
      BY <1>10, <2>2
    <3>2. t[k].k = 1 /\ t[k].n = w[1].id /\ w[1].id \in 1 .. made
      BY <1>1, <1>11, <3>1 DEF BnoSide, BnoWaiting
    <3>3. v # << >> /\ v[1].active /\ t[k].n = v[1].id
      BY <1>2, <1>4, <1>5, <3>2
    <3>4. \A i \in DOMAIN v : ~v[i].active => t[k].n < v[i].id
      <4> SUFFICES ASSUME NEW i \in DOMAIN v, ~v[i].active
                   PROVE  w[1].id < v[i].id
        BY <3>2
      <4>1. 1 < i /\ i \in DOMAIN w
        BY <1>1, <1>4, <1>6
      <4> QED BY <1>1, <1>6, <4>1 DEF BnoSide, BnoWaiting
    <3>5. \A j \in DOMAIN t : j < k /\ t[j].type = qs => t[j].n < t[k].n /\ t[j].n \in ended
      <4> SUFFICES ASSUME NEW j \in DOMAIN t, j < k, t[j].type = qs
                   PROVE  t[j].n < w[1].id /\ t[j].n \in ended
        BY <3>2
      <4>1. j \in DOMAIN sent /\ t[j] = sent[j]
        BY <1>10, <2>2
      <4> QED BY <1>8, <4>1
    <3> QED BY <3>2, <3>3, <3>4, <3>5
  <2>3. k \in DOMAIN sent \/ k = n + 1
    BY <1>10
  <2> QED BY <2>1, <2>2, <2>3
<1> QED BY <1>2, <1>4, <1>5, <1>7, <1>9, <1>12 DEF BnoSide, v, t

\* A queue is looked after: the transaction in front is marked, and its first
\* operation sent when it was not.
LEMMA BnoQueued ==
  ASSUME NEW d, BnoOrderly(d), NEW qs \in Queues
  PROVE  LET e == Bno!sendQueued(d, qs)
         IN  /\ BnoOrderly(e) /\ BnoSame(e, d) /\ BnoAwake(e[qs])
             /\ \A o \in Queues : o # qs => e[o] = d[o]
             /\ d[qs] # << >> => e[qs] # << >> /\ e[qs][1].active
             /\ \/ e.bus = d.bus
                \/ /\ d[qs] # << >> /\ ~d[qs][1].active
                   /\ \E op \in BnoOp : op.type = qs /\ e.bus = Append(d.bus, [read |-> FALSE, op |-> op])
<1> DEFINE e == Bno!sendQueued(d, qs)
           w == d[qs]
           v == [w EXCEPT ![1].active = TRUE]
           f == [d EXCEPT ![qs] = v]
           op == [type |-> qs, n |-> w[1].id, k |-> 1]
           g == Bno!sendMessage(f, op)
<1>1. /\ d \in BnoDrv /\ d.ok /\ w \in Seq(BnoTrans) /\ d.made \in Nat /\ d.sent \in Seq(BnoOp)
      /\ \A o \in Queues : BnoSide(o, d[o], d.made, d.sent, d.ended)
  <2>1. d \in BnoDrv
    BY DEF BnoOrderly
  <2>2. w \in Seq(BnoTrans)
    BY <2>1, BnoQueueType
  <2>3. d.made \in Nat /\ d.sent \in Seq(BnoOp)
    BY <2>1 DEF BnoDrv
  <2> QED BY <2>1, <2>2, <2>3 DEF BnoOrderly
<1>2. CASE w = << >> \/ w[1].active
  <2>1. e = d
    BY <1>2 DEF Bno!sendQueued
  <2> QED BY <1>1, <1>2, <2>1 DEF BnoSame, BnoAwake
<1>3. CASE w # << >> /\ ~w[1].active
  <2>1. BnoSide(qs, w, d.made, d.sent, d.ended)
    BY <1>1
  <2>2. 1 \in DOMAIN w /\ w[1] \in BnoTrans
    BY <1>1, <1>3, EmptySeq
  <2>3. w[1].q # << >> /\ w[1].q[1] = op
    BY <1>3, <2>1, <2>2 DEF BnoSide, BnoWaiting
  <2>4. op \in BnoOp
    BY <2>2 DEF BnoOp, BnoTrans, Queues
  <2> HIDE DEF op
  <2>5. /\ v \in Seq(BnoTrans) /\ v # << >> /\ v[1].active /\ v[1].q = w[1].q
        /\ BnoSide(qs, v, d.made, d.sent, d.ended) /\ BnoSide(qs, v, d.made, Append(d.sent, op), d.ended)
    BY <1>1, <1>3, <2>1, <2>4, BnoTurnsFront DEF op
  <2> HIDE DEF v
  <2>6. /\ f \in BnoDrv /\ f[qs] = v /\ \A o \in Queues : o # qs => f[o] = d[o]
        /\ f.bus = d.bus /\ f.ok = d.ok /\ f.made = d.made /\ f.sent = d.sent
        /\ f.ended = d.ended /\ f.handled = d.handled
    <3>1. d \in BnoDrv /\ v \in Seq(BnoTrans)
      BY <1>1, <2>5
    <3> QED BY <3>1, BnoQueueSet
  <2>7. e = g
    <3>1. f = [d EXCEPT ![qs][1].active = TRUE]
      BY DEF v
    <3>2. f[qs][1].q # << >> /\ f[qs][1].q[1] = op
      BY <2>3, <2>5, <2>6
    <3> HIDE DEF f
    <3> QED BY <1>3, <3>1, <3>2 DEF Bno!sendQueued
  <2> HIDE DEF f, e
  <2>8. /\ BnoSame(g, f) /\ \A o \in Queues : g[o] = f[o]
        /\ g.made = f.made /\ g.ended = f.ended
        /\ \/ g.bus = f.bus /\ g.sent = f.sent
           \/ g.bus = Append(f.bus, [read |-> FALSE, op |-> op]) /\ g.sent = Append(f.sent, op)
    BY <2>4, <2>6, BnoSend
  <2> HIDE DEF g
  <2>9. op.type = qs
    BY DEF op
  <2>10. \A o \in Queues : BnoSide(o, g[o], g.made, g.sent, g.ended)
    <3> TAKE o \in Queues
    <3>1. CASE o = qs
      BY <2>5, <2>6, <2>8, <3>1
    <3>2. CASE o # qs
      <4>1. g[o] = d[o] /\ BnoSide(o, d[o], d.made, d.sent, d.ended)
        BY <1>1, <2>6, <2>8, <3>2
      <4>2. BnoTurns(o, d[o], d.made, Append(d.sent, op), d.ended)
        BY <1>1, <2>4, <2>9, <3>2, <4>1, BnoTurnsOther DEF BnoSide
      <4>3. BnoSide(o, d[o], d.made, Append(d.sent, op), d.ended)
        BY <4>1, <4>2 DEF BnoSide
      <4> QED BY <2>6, <2>8, <4>1, <4>3
    <3> QED BY <3>1, <3>2
  <2>11. BnoOrderly(e) /\ BnoSame(e, d)
    BY <1>1, <2>6, <2>7, <2>8, <2>10 DEF BnoOrderly, BnoSame
  <2>12. e[qs] = v /\ \A o \in Queues : o # qs => e[o] = d[o]
    BY <2>6, <2>7, <2>8
  <2>13. e.bus = d.bus \/ e.bus = Append(d.bus, [read |-> FALSE, op |-> op])
    BY <2>6, <2>7, <2>8
  <2> QED BY <1>3, <2>4, <2>5, <2>9, <2>11, <2>12, <2>13 DEF BnoAwake, e
<1> QED BY <1>2, <1>3

\* The queue of reads is looked after: what is asked of it stays the only one.
LEMMA BnoQueuedReads ==
  ASSUME NEW d, BnoOrderly(d), NEW qs \in Queues, NEW o, BnoReads(d.bus, o, d.read)
  PROVE  LET e == Bno!sendQueued(d, qs) IN BnoReads(e.bus, o, e.read) /\ BnoAdds(e, d)
<1> DEFINE e == Bno!sendQueued(d, qs)
<1>1. /\ BnoOrderly(e) /\ BnoSame(e, d) /\ BnoAwake(e[qs])
      /\ \A q \in Queues : q # qs => e[q] = d[q]
      /\ d[qs] # << >> => e[qs] # << >> /\ e[qs][1].active
      /\ \/ e.bus = d.bus
         \/ /\ d[qs] # << >> /\ ~d[qs][1].active
            /\ \E op \in BnoOp : op.type = qs /\ e.bus = Append(d.bus, [read |-> FALSE, op |-> op])
  BY BnoQueued
<1> HIDE DEF e
<1>2. d.bus \in Seq(BnoRq)
  BY DEF BnoOrderly, BnoDrv
<1>3. BnoAdds(e, d)
  BY <1>1 DEF BnoAdds
<1>4. d.read # << >> /\ d.read[1].active => e.read # << >> /\ e.read[1].active
  BY <1>1 DEF Queues
<1>5. ASSUME e.bus = d.bus PROVE BnoReads(e.bus, o, e.read)
  BY <1>4, <1>5 DEF BnoReads
<1>6. ASSUME e.bus # d.bus PROVE BnoReads(e.bus, o, e.read)
  <2>1. PICK op \in BnoOp : op.type = qs /\ e.bus = Append(d.bus, [read |-> FALSE, op |-> op])
    BY <1>1, <1>6
  <2> DEFINE r == [read |-> FALSE, op |-> op]
  <2>2. r \in BnoRq /\ ~r.read /\ r.op = op
    BY DEF BnoRq
  <2>3. r \in ReadRqs <=> qs = "read"
    BY <2>1, <2>2 DEF ReadRqs
  <2> HIDE DEF r
  <2>4. e.bus = Append(d.bus, r)
    BY <2>1 DEF r
  <2>5. CASE qs = "write"
    <3>1. Where(e.bus, ReadRqs) = Where(d.bus, ReadRqs)
      BY <1>2, <2>2, <2>3, <2>4, <2>5, WhereAppend
    <3> QED BY <1>4, <3>1 DEF BnoReads
  <2>6. CASE qs = "read"
    <3>1. d.read # << >> /\ ~d.read[1].active /\ e.read # << >> /\ e.read[1].active
      BY <1>1, <1>6, <2>6
    <3>2. Where(d.bus, ReadRqs) = {} /\ Where(o, EndMsgs) = {}
      BY <3>1 DEF BnoReads
    <3>3. AtMostOne(Where(e.bus, ReadRqs))
      BY <1>2, <2>2, <2>4, <3>2, WhereAppend
    <3>4. AtMostOne(Where(o, EndMsgs))
      BY DEF BnoReads
    <3> QED BY <3>1, <3>2, <3>3, <3>4 DEF BnoReads
  <2> QED BY <2>5, <2>6 DEF Queues
<1> QED BY <1>3, <1>5, <1>6 DEF e

\* A transaction joins its queue.
LEMMA BnoSideAppended ==
  ASSUME NEW qs, NEW w \in Seq(BnoTrans), NEW made \in Nat, NEW ended, NEW sent \in Seq(BnoOp),
         BnoSide(qs, w, made, sent, ended),
         NEW t \in BnoTrans, t.id = made + 1, ~t.active, t.q # << >>,
         t.q[1] = [type |-> qs, n |-> t.id, k |-> 1]
  PROVE  BnoSide(qs, Append(w, t), made + 1, sent, ended)
<1> DEFINE v == Append(w, t)
           n == Len(w)
<1>1. /\ n \in Nat /\ DOMAIN w = 1 .. n /\ DOMAIN v = 1 .. n + 1 /\ v[n + 1] = t
      /\ \A k \in 1 .. n : v[k] = w[k]
  OBVIOUS
<1>2. v # << >> /\ (w # << >> => v[1] = w[1])
  <2>1. v # << >>
    BY AppendNotEmpty
  <2>2. w # << >> => 1 \in 1 .. n
    BY <1>1, EmptySeq
  <2> QED BY <1>1, <2>1, <2>2
<1> HIDE DEF v, n
<1>3. \A i \in DOMAIN v : (i \in DOMAIN w /\ v[i] = w[i]) \/ (i = n + 1 /\ v[i] = t)
  BY <1>1
<1>4. \A i \in DOMAIN w : w[i].id \in 1 .. made
  BY DEF BnoSide, BnoWaiting
<1>5. BnoWaiting(qs, v, made + 1)
  <2> SUFFICES ASSUME NEW i \in DOMAIN v
               PROVE  /\ v[i].id \in 1 .. made + 1 /\ (v[i].active => i = 1)
                      /\ ~v[i].active => v[i].q # << >> /\ v[i].q[1] = [type |-> qs, n |-> v[i].id, k |-> 1]
                      /\ \A j \in DOMAIN v : i < j => v[i].id < v[j].id
    BY DEF BnoWaiting
  <2>1. CASE i \in DOMAIN w /\ v[i] = w[i]
    <3>1. w[i].id \in 1 .. made
      BY <1>4, <2>1
    <3>2. (v[i].active => i = 1)
          /\ (~v[i].active => v[i].q # << >> /\ v[i].q[1] = [type |-> qs, n |-> v[i].id, k |-> 1])
      BY <2>1 DEF BnoSide, BnoWaiting
    <3>3. \A j \in DOMAIN v : i < j => v[i].id < v[j].id
      <4> TAKE j \in DOMAIN v
      <4>1. CASE j \in DOMAIN w /\ v[j] = w[j]
        BY <2>1, <4>1 DEF BnoSide, BnoWaiting
      <4>2. CASE v[j] = t
        BY <2>1, <3>1, <4>2
      <4> QED BY <1>3, <4>1, <4>2
    <3> QED BY <2>1, <3>1, <3>2, <3>3
  <2>2. CASE i = n + 1 /\ v[i] = t
    <3>1. \A j \in DOMAIN v : ~(i < j)
      BY <1>1, <2>2
    <3> QED BY <2>2, <3>1
  <2> QED BY <1>3, <2>1, <2>2
<1>6. BnoTurns(qs, v, made + 1, sent, ended)
  <2> SUFFICES ASSUME NEW k \in DOMAIN sent, sent[k].type = qs
               PROVE  /\ sent[k].k = 1 /\ sent[k].n \in 1 .. made + 1
                      /\ sent[k].n \in ended \/ (v # << >> /\ v[1].active /\ sent[k].n = v[1].id)
                      /\ \A i \in DOMAIN v : ~v[i].active => sent[k].n < v[i].id
                      /\ \A j \in DOMAIN sent : j < k /\ sent[j].type = qs =>
                           sent[j].n < sent[k].n /\ sent[j].n \in ended
    BY DEF BnoTurns
  <2>1. /\ sent[k].k = 1 /\ sent[k].n \in 1 .. made
        /\ sent[k].n \in ended \/ (w # << >> /\ w[1].active /\ sent[k].n = w[1].id)
        /\ \A j \in DOMAIN sent : j < k /\ sent[j].type = qs => sent[j].n < sent[k].n /\ sent[j].n \in ended
    BY DEF BnoSide, BnoTurns
  <2>2. \A i \in DOMAIN w : ~w[i].active => sent[k].n < w[i].id
    BY DEF BnoSide, BnoTurns
  <2>3. sent[k].n < t.id /\ sent[k].n \in 1 .. made + 1
    BY <2>1
  <2>4. \A i \in DOMAIN v : ~v[i].active => sent[k].n < v[i].id
    BY <1>3, <2>2, <2>3
  <2> QED BY <1>2, <2>1, <2>3, <2>4
<1> QED BY <1>5, <1>6 DEF BnoSide, v

\* A transaction of another kind, or a command, is made.
LEMMA BnoSideMade ==
  ASSUME NEW qs, NEW w \in Seq(BnoTrans), NEW made \in Nat, NEW ended, NEW sent \in Seq(BnoOp),
         BnoSide(qs, w, made, sent, ended)
  PROVE  BnoSide(qs, w, made + 1, sent, ended)
<1>1. 1 .. made \subseteq 1 .. made + 1
  OBVIOUS
<1>2. BnoWaiting(qs, w, made + 1)
  BY <1>1 DEF BnoSide, BnoWaiting
<1>3. BnoTurns(qs, w, made + 1, sent, ended)
  BY <1>1 DEF BnoSide, BnoTurns
<1> QED BY <1>2, <1>3 DEF BnoSide

\* The transaction in front is done.
LEMMA BnoSideDone ==
  ASSUME NEW qs, NEW w \in Seq(BnoTrans), NEW made \in Nat, NEW ended, NEW sent \in Seq(BnoOp),
         BnoSide(qs, w, made, sent, ended), w # << >>
  PROVE  BnoSide(qs, Tail(w), made, sent, ended \cup {w[1].id})
<1> DEFINE v == Tail(w)
           x == ended \cup {w[1].id}
<1>1. /\ Len(w) \in Nat \ {0} /\ v \in Seq(BnoTrans) /\ Len(v) = Len(w) - 1
      /\ \A k \in 1 .. Len(v) : v[k] = w[k + 1]
  BY EmptySeq, HeadTailProperties
<1>2. DOMAIN v \subseteq Nat \ {0}
  BY <1>1
<1> HIDE DEF v
<1>3. \A k \in DOMAIN v : k \in Nat /\ k + 1 > 1 /\ k + 1 \in DOMAIN w /\ v[k] = w[k + 1]
  BY <1>1
<1>4. ASSUME NEW k \in DOMAIN v PROVE ~v[k].active
  <2>1. k + 1 \in DOMAIN w /\ v[k] = w[k + 1] /\ k + 1 # 1
    BY <1>3
  <2>2. w[k + 1].active => k + 1 = 1
    BY <2>1 DEF BnoSide, BnoWaiting
  <2> QED BY <2>1, <2>2
<1>5. BnoWaiting(qs, v, made)
  <2> SUFFICES ASSUME NEW i \in DOMAIN v
               PROVE  /\ v[i].id \in 1 .. made
                      /\ v[i].q # << >> /\ v[i].q[1] = [type |-> qs, n |-> v[i].id, k |-> 1]
                      /\ \A j \in DOMAIN v : i < j => v[i].id < v[j].id
    BY <1>4 DEF BnoWaiting
  <2>1. i + 1 \in DOMAIN w /\ v[i] = w[i + 1] /\ ~w[i + 1].active
    BY <1>3, <1>4
  <2>2. /\ v[i].id \in 1 .. made
        /\ v[i].q # << >> /\ v[i].q[1] = [type |-> qs, n |-> v[i].id, k |-> 1]
    BY <2>1 DEF BnoSide, BnoWaiting
  <2>3. ASSUME NEW j \in DOMAIN v, i < j PROVE v[i].id < v[j].id
    <3>1. j + 1 \in DOMAIN w /\ v[j] = w[j + 1] /\ i + 1 < j + 1
      BY <1>2, <1>3, <2>3
    <3> QED BY <2>1, <3>1 DEF BnoSide, BnoWaiting
  <2> QED BY <2>2, <2>3
<1>6. BnoTurns(qs, v, made, sent, x)
  <2> SUFFICES ASSUME NEW k \in DOMAIN sent, sent[k].type = qs
               PROVE  /\ sent[k].k = 1 /\ sent[k].n \in 1 .. made /\ sent[k].n \in x
                      /\ \A i \in DOMAIN v : ~v[i].active => sent[k].n < v[i].id
                      /\ \A j \in DOMAIN sent : j < k /\ sent[j].type = qs => sent[j].n < sent[k].n /\ sent[j].n \in x
    BY DEF BnoTurns
  <2>1. sent[k].k = 1 /\ sent[k].n \in 1 .. made /\ sent[k].n \in x
    BY DEF BnoSide, BnoTurns
  <2>2. \A i \in DOMAIN v : ~v[i].active => sent[k].n < v[i].id
    BY <1>3 DEF BnoSide, BnoTurns
  <2>3. \A j \in DOMAIN sent : j < k /\ sent[j].type = qs => sent[j].n < sent[k].n /\ sent[j].n \in x
    BY DEF BnoSide, BnoTurns
  <2> QED BY <2>1, <2>2, <2>3
<1> QED BY <1>5, <1>6 DEF BnoSide, v

\* A transaction of the other kind is done.
LEMMA BnoSideElse ==
  ASSUME NEW qs, NEW w, NEW made, NEW ended, NEW sent, NEW id,
         BnoSide(qs, w, made, sent, ended)
  PROVE  BnoSide(qs, w, made, sent, ended \cup {id})
<1>1. BnoTurns(qs, w, made, sent, ended \cup {id})
  BY DEF BnoSide, BnoTurns
<1> QED BY <1>1 DEF BnoSide

\* All that is known of the driver, whatever the sensor has still to say (o).
BnoGood(d, o) == /\ BnoOrderly(d) /\ BnoReads(d.bus, o, d.read)
                 /\ \A qs \in Queues : BnoAwake(d[qs])

\* The transactions are as they were.
BnoOnly(e, d) == /\ e \in BnoDrv /\ e.ok = d.ok /\ \A qs \in Queues : e[qs] = d[qs]
                 /\ e.made = d.made /\ e.sent = d.sent /\ e.ended = d.ended

LEMMA BnoLike ==
  ASSUME NEW d, NEW o, BnoGood(d, o), NEW e, BnoOnly(e, d), NEW p, BnoReads(e.bus, p, d.read)
  PROVE  BnoGood(e, p)
<1>1. e.read = d.read
  BY DEF BnoOnly, Queues
<1>2. BnoOrderly(e)
  BY DEF BnoGood, BnoOrderly, BnoOnly
<1>3. \A qs \in Queues : BnoAwake(e[qs])
  BY DEF BnoGood, BnoOnly
<1> QED BY <1>1, <1>2, <1>3 DEF BnoGood

LEMMA BnoLookedAfter ==
  ASSUME NEW d, BnoOrderly(d), NEW o, BnoReads(d.bus, o, d.read),
         NEW qs \in Queues, \A q \in Queues : q # qs => BnoAwake(d[q])
  PROVE  LET e == Bno!sendQueued(d, qs)
         IN  BnoGood(e, o) /\ BnoSame(e, d) /\ BnoAdds(e, d)
<1> DEFINE e == Bno!sendQueued(d, qs)
<1>1. /\ BnoOrderly(e) /\ BnoSame(e, d) /\ BnoAwake(e[qs])
      /\ \A q \in Queues : q # qs => e[q] = d[q]
  BY BnoQueued
<1>2. BnoReads(e.bus, o, e.read) /\ BnoAdds(e, d)
  BY BnoQueuedReads
<1> HIDE DEF e
<1>3. \A q \in Queues : BnoAwake(e[q])
  <2> TAKE q \in Queues
  <2>1. q = qs \/ (e[q] = d[q] /\ BnoAwake(d[q]))
    BY <1>1
  <2> QED BY <1>1, <2>1
<1> QED BY <1>1, <1>2, <1>3 DEF BnoGood, e

LEMMA BnoMade ==
  ASSUME NEW d \in BnoDrv
  PROVE  LET m == Bno!Made(d)
         IN  /\ m \in BnoDrv /\ m.made = d.made + 1 /\ m.bus = d.bus /\ m.ok = d.ok /\ m.sent = d.sent
             /\ m.ended = d.ended /\ m.handled = d.handled /\ \A q \in Queues : m[q] = d[q]
<1> DEFINE n == d.made + 1
           m == [d EXCEPT !.made = n]
<1>1. Bno!Made(d) = m
  BY DEF Bno!Made
<1>2. n \in Nat
  BY DEF BnoDrv
<1> HIDE DEF n
<1>3. m \in BnoDrv
  BY <1>2 DEF BnoDrv
<1>4. m.made = n /\ m.bus = d.bus /\ m.ok = d.ok /\ m.sent = d.sent
  BY DEF BnoDrv
<1>5. m.ended = d.ended /\ m.handled = d.handled
  BY DEF BnoDrv
<1>6. \A q \in Queues : m[q] = d[q]
  BY DEF BnoDrv, Queues
<1> HIDE DEF m
<1> QED BY <1>1, <1>3, <1>4, <1>5, <1>6 DEF n

\* A transaction is made.
LEMMA BnoTransaction ==
  ASSUME NEW d, NEW o, BnoGood(d, o), NEW qs \in Queues,
         NEW t \in BnoTrans, t.id = d.made + 1, ~t.active, t.q # << >>,
         t.q[1] = [type |-> qs, n |-> t.id, k |-> 1]
  PROVE  LET e == Bno!sendTransaction(Bno!Made(d), qs, t)
         IN  BnoGood(e, o) /\ BnoSame(e, d) /\ BnoAdds(e, d)
<1> DEFINE m == Bno!Made(d)
           w == Append(d[qs], t)
           f == [m EXCEPT ![qs] = w]
           e == Bno!sendTransaction(m, qs, t)
<1>1. /\ d \in BnoDrv /\ d.ok /\ d[qs] \in Seq(BnoTrans) /\ d.made \in Nat /\ d.sent \in Seq(BnoOp)
      /\ \A q \in Queues : d[q] \in Seq(BnoTrans) /\ BnoSide(q, d[q], d.made, d.sent, d.ended) /\ BnoAwake(d[q])
  <2>1. d \in BnoDrv
    BY DEF BnoGood, BnoOrderly
  <2>2. d.made \in Nat /\ d.sent \in Seq(BnoOp)
    BY <2>1 DEF BnoDrv
  <2> QED BY <2>1, <2>2, BnoQueueType DEF BnoGood, BnoOrderly
<1>2. /\ m \in BnoDrv /\ m.made = d.made + 1 /\ m.bus = d.bus /\ m.ok = d.ok /\ m.sent = d.sent
      /\ m.ended = d.ended /\ m.handled = d.handled /\ \A q \in Queues : m[q] = d[q]
  <2>1. d \in BnoDrv
    BY <1>1
  <2> QED BY <2>1, BnoMade
<1> HIDE DEF m
<1>3. CASE Len(m[qs]) = BnoSlots
  <2>1. e = [m EXCEPT !.dropped = TRUE]
    BY <1>3 DEF Bno!sendTransaction
  <2> HIDE DEF e
  <2>2. e \in BnoDrv
    BY <1>2, <2>1 DEF BnoDrv
  <2>3. /\ e.made = d.made + 1 /\ e.bus = d.bus /\ e.ok = d.ok /\ e.sent = d.sent
        /\ e.ended = d.ended /\ e.handled = d.handled /\ \A q \in Queues : e[q] = d[q]
    BY <1>2, <2>1 DEF BnoDrv, Queues
  <2>4. \A q \in Queues : BnoSide(q, e[q], e.made, e.sent, e.ended)
    BY <1>1, <2>3, BnoSideMade
  <2>5. BnoOrderly(e) /\ \A q \in Queues : BnoAwake(e[q])
    BY <1>1, <2>2, <2>3, <2>4 DEF BnoOrderly
  <2>6. BnoReads(e.bus, o, e.read)
    BY <2>3 DEF BnoGood, Queues
  <2>7. BnoGood(e, o) /\ BnoSame(e, d) /\ BnoAdds(e, d)
    BY <2>2, <2>3, <2>5, <2>6 DEF BnoGood, BnoSame, BnoAdds
  <2> QED BY <2>7 DEF e, m
<1>4. CASE Len(m[qs]) # BnoSlots
  <2>1. w \in Seq(BnoTrans)
    BY <1>1
  <2>2. e = Bno!sendQueued(f, qs)
    <3>1. f = [m EXCEPT ![qs] = Append(@, t)]
      BY <1>2, <1>1 DEF BnoDrv, Queues
    <3> QED BY <1>4, <3>1 DEF Bno!sendTransaction
  <2>3. w # << >> /\ (d[qs] # << >> => w[1] = d[qs][1])
    <3>1. w # << >>
      BY <1>1, AppendNotEmpty
    <3>2. d[qs] # << >> => Len(d[qs]) \in Nat \ {0}
      BY <1>1, EmptySeq
    <3>3. \A k \in 1 .. Len(d[qs]) : w[k] = d[qs][k]
      BY <1>1
    <3> QED BY <3>1, <3>2, <3>3
  <2> HIDE DEF w, e
  <2>4. /\ f \in BnoDrv /\ f[qs] = w /\ \A q \in Queues : q # qs => f[q] = d[q]
        /\ f.bus = d.bus /\ f.ok = d.ok /\ f.made = d.made + 1 /\ f.sent = d.sent
        /\ f.ended = d.ended /\ f.handled = d.handled
    BY <1>2, <2>1, BnoQueueSet
  <2> HIDE DEF f
  <2>5. \A q \in Queues : BnoSide(q, f[q], f.made, f.sent, f.ended)
    <3> TAKE q \in Queues
    <3>1. CASE q = qs
      <4>1. BnoSide(qs, w, d.made + 1, d.sent, d.ended)
        BY <1>1, BnoSideAppended DEF w
      <4> QED BY <2>4, <3>1, <4>1
    <3>2. CASE q # qs
      <4>1. BnoSide(q, d[q], d.made + 1, d.sent, d.ended)
        BY <1>1, BnoSideMade
      <4> QED BY <2>4, <3>2, <4>1
    <3> QED BY <3>1, <3>2
  <2>6. BnoOrderly(f)
    BY <1>1, <2>4, <2>5 DEF BnoOrderly
  <2>7. (f.read # << >> /\ f.read[1].active) \/ ~(d.read # << >> /\ d.read[1].active)
    BY <2>3, <2>4 DEF Queues
  <2>8. BnoReads(f.bus, o, f.read)
    BY <2>4, <2>7 DEF BnoReads, BnoGood
  <2>9. \A q \in Queues : q # qs => BnoAwake(f[q])
    BY <1>1, <2>4
  <2>10. BnoGood(e, o) /\ BnoSame(e, f) /\ BnoAdds(e, f)
    BY <2>2, <2>6, <2>8, <2>9, BnoLookedAfter
  <2>11. BnoGood(e, o) /\ BnoSame(e, d) /\ BnoAdds(e, d)
    BY <2>4, <2>10 DEF BnoSame, BnoAdds
  <2> QED BY <2>11 DEF e, m
<1> QED BY <1>3, <1>4

\* What Request does.
LEMMA BnoRequested ==
  ASSUME NEW d, NEW o, BnoGood(d, o), NEW e \in {Bno!configure(d), Bno!readFRS(d), Bno!Command(d)}
  PROVE  BnoGood(e, o) /\ BnoSame(e, d) /\ BnoAdds(e, d)
<1> DEFINE n == d.made + 1
           ops(type, len) == [k \in 1 .. len |-> [type |-> type, n |-> n, k |-> k]]
           trans(type, len) == [id |-> n, active |-> FALSE, q |-> ops(type, len)]
<1>1. d \in BnoDrv /\ d.made \in Nat
  BY DEF BnoGood, BnoOrderly, BnoDrv
<1>2. ASSUME NEW qs \in Queues, NEW len \in Nat \ {0}
      PROVE  LET t == trans(qs, len)
             IN  /\ t \in BnoTrans /\ t.id = n /\ ~t.active /\ t.q # << >>
                 /\ t.q[1] = [type |-> qs, n |-> t.id, k |-> 1]
  <2> DEFINE q == ops(qs, len)
             t == trans(qs, len)
  <2>1. \A k \in 1 .. len : q[k] = [type |-> qs, n |-> n, k |-> k] /\ q[k] \in BnoOp
    BY <1>1 DEF BnoOp, Queues
  <2>2. q \in Seq(BnoOp) /\ q # << >> /\ 1 \in 1 .. len
    <3>1. q \in [1 .. len -> BnoOp] /\ DOMAIN q = 1 .. len
      BY <2>1
    <3> HIDE DEF q
    <3> QED BY <3>1
  <2> HIDE DEF q
  <2>3. t = [id |-> n, active |-> FALSE, q |-> q]
    BY DEF q
  <2> HIDE DEF t
  <2>4. t \in BnoTrans /\ t.id = n /\ ~t.active /\ t.q = q
    BY <1>1, <2>2, <2>3 DEF BnoTrans
  <2> QED BY <2>1, <2>2, <2>4 DEF t
<1>3. CASE e = Bno!configure(d)
  <2>1. e = Bno!sendTransaction(Bno!Made(d), "write", trans("write", BnoOps))
    BY <1>3 DEF Bno!configure, Bno!Operations
  <2>2. BnoOps \in Nat \ {0}
    BY DevicesAssumption
  <2> DEFINE t == trans("write", BnoOps)
  <2>3. /\ t \in BnoTrans /\ t.id = n /\ ~t.active /\ t.q # << >>
        /\ t.q[1] = [type |-> "write", n |-> t.id, k |-> 1]
    BY <1>2, <2>2 DEF Queues
  <2> HIDE DEF t
  <2>4. "write" \in Queues /\ e = Bno!sendTransaction(Bno!Made(d), "write", t)
    BY <2>1 DEF Queues, t
  <2> QED BY <2>3, <2>4, BnoTransaction
<1>4. CASE e = Bno!readFRS(d)
  <2>1. e = Bno!sendTransaction(Bno!Made(d), "read", trans("read", 1))
    BY <1>4 DEF Bno!readFRS, Bno!Operations
  <2> DEFINE t == trans("read", 1)
  <2>3. /\ t \in BnoTrans /\ t.id = n /\ ~t.active /\ t.q # << >>
        /\ t.q[1] = [type |-> "read", n |-> t.id, k |-> 1]
    <3>1. "read" \in Queues /\ 1 \in Nat \ {0}
      BY DEF Queues
    <3> HIDE DEF trans
    <3> QED BY <1>2, <3>1
  <2> HIDE DEF t
  <2>4. "read" \in Queues /\ e = Bno!sendTransaction(Bno!Made(d), "read", t)
    BY <2>1 DEF Queues, t
  <2> QED BY <2>3, <2>4, BnoTransaction
<1>5. CASE e = Bno!Command(d)
  <2> DEFINE m == Bno!Made(d)
             op == [type |-> "command", n |-> n, k |-> 1]
  <2>1. /\ m \in BnoDrv /\ m.made = n /\ m.bus = d.bus /\ m.ok = d.ok /\ m.sent = d.sent
        /\ m.ended = d.ended /\ m.handled = d.handled /\ \A q \in Queues : m[q] = d[q]
    BY <1>1, BnoMade
  <2>2. e = Bno!sendMessage(m, op)
    BY <1>5 DEF Bno!Command
  <2>3. op \in BnoOp /\ op.type = "command"
    BY <1>1 DEF BnoOp
  <2> HIDE DEF m, op
  <2>4. /\ BnoSame(e, m) /\ \A q \in Queues : e[q] = m[q]
        /\ e.made = m.made /\ e.ended = m.ended
        /\ \/ e.bus = m.bus /\ e.sent = m.sent
           \/ e.bus = Append(m.bus, [read |-> FALSE, op |-> op]) /\ e.sent = Append(m.sent, op)
    BY <2>1, <2>2, <2>3, BnoSend
  <2>5. \A q \in Queues : BnoSide(q, e[q], e.made, e.sent, e.ended) /\ BnoAwake(e[q])
    <3> TAKE q \in Queues
    <3>1. /\ d[q] \in Seq(BnoTrans) /\ BnoSide(q, d[q], d.made, d.sent, d.ended) /\ BnoAwake(d[q])
          /\ d.sent \in Seq(BnoOp)
      BY <1>1, BnoQueueType DEF BnoGood, BnoOrderly, BnoDrv
    <3>2. BnoSide(q, d[q], n, d.sent, d.ended)
      BY <1>1, <3>1, BnoSideMade
    <3>3. BnoTurns(q, d[q], n, Append(d.sent, op), d.ended)
      BY <2>3, <3>1, <3>2, BnoTurnsOther DEF BnoSide, Queues
    <3>4. BnoSide(q, d[q], n, Append(d.sent, op), d.ended)
      BY <3>2, <3>3 DEF BnoSide
    <3> QED BY <2>1, <2>4, <3>1, <3>2, <3>4
  <2>6. d.ok
    BY DEF BnoGood, BnoOrderly
  <2>7. BnoOrderly(e) /\ BnoSame(e, d) /\ BnoAdds(e, d)
    BY <2>1, <2>3, <2>4, <2>5, <2>6 DEF BnoOrderly, BnoSame, BnoAdds
  <2>8. Where(e.bus, ReadRqs) = Where(d.bus, ReadRqs)
    <3> DEFINE r == [read |-> FALSE, op |-> op]
    <3>1. r \in BnoRq /\ r \notin ReadRqs /\ d.bus \in Seq(BnoRq)
      BY <1>1, <2>3 DEF BnoRq, ReadRqs, BnoDrv
    <3> HIDE DEF r
    <3>2. e.bus = d.bus \/ e.bus = Append(d.bus, r)
      BY <2>1, <2>4 DEF r
    <3>3. Where(Append(d.bus, r), ReadRqs) = Where(d.bus, ReadRqs)
      BY <3>1, WhereAppend
    <3> QED BY <3>2, <3>3
  <2>9. e.read = d.read
    BY <2>1, <2>4 DEF Queues
  <2>10. BnoReads(e.bus, o, e.read)
    BY <2>8, <2>9 DEF BnoGood, BnoReads
  <2> QED BY <2>5, <2>7, <2>10 DEF BnoGood
<1> QED BY <1>3, <1>4, <1>5

\* A transaction ends, and a read only when nothing is under way for it.
LEMMA BnoEnded ==
  ASSUME NEW d, NEW o, BnoGood(d, o), NEW qs \in Queues, d[qs] # << >>,
         NEW p, BnoReads(d.bus, p, d.read),
         qs = "read" => Where(d.bus, ReadRqs) = {} /\ Where(p, EndMsgs) = {}
  PROVE  LET e == Bno!EndTransaction(d, qs)
         IN  BnoGood(e, p) /\ BnoSame(e, d) /\ BnoAdds(e, d)
<1> DEFINE w == Tail(d[qs])
           x == d.ended \cup {d[qs][1].id}
           f == [d EXCEPT ![qs] = w]
           g == [f EXCEPT !.ended = x]
           e == Bno!EndTransaction(d, qs)
<1>1. /\ d \in BnoDrv /\ d.ok /\ d[qs] \in Seq(BnoTrans) /\ d.made \in Nat /\ d.sent \in Seq(BnoOp)
      /\ \A q \in Queues : d[q] \in Seq(BnoTrans) /\ BnoSide(q, d[q], d.made, d.sent, d.ended) /\ BnoAwake(d[q])
  <2>1. d \in BnoDrv
    BY DEF BnoGood, BnoOrderly
  <2>2. d.made \in Nat /\ d.sent \in Seq(BnoOp)
    BY <2>1 DEF BnoDrv
  <2> QED BY <2>1, <2>2, BnoQueueType DEF BnoGood, BnoOrderly
<1>2. w \in Seq(BnoTrans) /\ 1 \in DOMAIN d[qs] /\ d[qs][1] \in BnoTrans
  BY <1>1, EmptySeq
<1>3. x \in SUBSET Nat
  BY <1>1, <1>2 DEF BnoDrv, BnoTrans
<1>4. BnoSide(qs, w, d.made, d.sent, x)
  BY <1>1, BnoSideDone
<1>5. e = Bno!sendQueued(g, qs)
  <2>1. g = [d EXCEPT ![qs] = Tail(@), !.ended = @ \cup {d[qs][1].id}]
    <3>1. CASE qs = "write"
      BY <1>1, <3>1 DEF BnoDrv
    <3>2. CASE qs = "read"
      BY <1>1, <3>2 DEF BnoDrv
    <3> QED BY <3>1, <3>2 DEF Queues
  <2> QED BY <2>1 DEF Bno!EndTransaction
<1>6. \A q \in Queues : BnoSide(q, d[q], d.made, d.sent, x)
  BY <1>1, BnoSideElse
<1> HIDE DEF w, x, e
<1>7. /\ f \in BnoDrv /\ f[qs] = w /\ \A q \in Queues : q # qs => f[q] = d[q]
      /\ f.bus = d.bus /\ f.ok = d.ok /\ f.made = d.made /\ f.sent = d.sent
      /\ f.ended = d.ended /\ f.handled = d.handled
  <2>1. d \in BnoDrv /\ w \in Seq(BnoTrans)
    BY <1>1, <1>2
  <2> QED BY <2>1, BnoQueueSet
<1> HIDE DEF f
<1>8. /\ g \in BnoDrv /\ \A q \in Queues : g[q] = f[q]
      /\ g.bus = f.bus /\ g.ok = f.ok /\ g.made = f.made /\ g.sent = f.sent
      /\ g.ended = x /\ g.handled = f.handled
  BY <1>3, <1>7 DEF BnoDrv, Queues
<1> HIDE DEF g
<1>9. \A q \in Queues : BnoSide(q, g[q], g.made, g.sent, g.ended)
  <2> TAKE q \in Queues
  <2>1. CASE q = qs
    BY <1>4, <1>7, <1>8, <2>1
  <2>2. CASE q # qs
    BY <1>6, <1>7, <1>8, <2>2
  <2> QED BY <2>1, <2>2
<1>10. BnoOrderly(g)
  BY <1>1, <1>7, <1>8, <1>9 DEF BnoOrderly
<1>11. BnoReads(g.bus, p, g.read)
  <2>1. CASE qs = "read"
    BY <1>7, <1>8, <2>1 DEF BnoReads
  <2>2. CASE qs = "write"
    BY <1>7, <1>8, <2>2 DEF Queues
  <2> QED BY <2>1, <2>2 DEF Queues
<1>12. \A q \in Queues : q # qs => BnoAwake(g[q])
  BY <1>1, <1>7, <1>8
<1>13. BnoGood(e, p) /\ BnoSame(e, g) /\ BnoAdds(e, g)
  BY <1>5, <1>10, <1>11, <1>12, BnoLookedAfter
<1> QED BY <1>7, <1>8, <1>13 DEF BnoSame, BnoAdds, e

\* The sensor's first message is handled.
LEMMA BnoHandles ==
  ASSUME NEW d, NEW o \in Seq(BnoMsg), o # << >>, BnoGood(d, o)
  PROVE  LET e == Bno!handle(d, o[1])
         IN  BnoGood(e, Tail(o)) /\ BnoSame(e, d) /\ BnoAdds(e, d)
<1> DEFINE p == Tail(o)
           m == o[1]
<1>1. p \in Seq(BnoMsg) /\ Head(o) = m /\ m \in BnoMsg
  BY EmptySeq, HeadTailProperties
<1>2. /\ BnoReads(d.bus, p, d.read)
      /\ m \in EndMsgs => d.read # << >> /\ Where(d.bus, ReadRqs) = {} /\ Where(p, EndMsgs) = {}
  <2>1. /\ AtMostOne(Where(p, EndMsgs)) /\ (Where(o, EndMsgs) = {} => Where(p, EndMsgs) = {})
        /\ m \in EndMsgs => Where(p, EndMsgs) = {}
    BY <1>1, WhereTail DEF BnoGood, BnoReads
  <2>2. m \in EndMsgs => Where(o, EndMsgs) # {}
    <3>1. 1 \in DOMAIN o
      BY EmptySeq
    <3> QED BY <3>1 DEF Where
  <2> HIDE DEF p, m
  <2> QED BY <2>1, <2>2 DEF BnoGood, BnoReads
<1>3. d \in BnoDrv /\ d.ok
  BY DEF BnoGood, BnoOrderly
<1>4. BnoGood(d, p) /\ BnoSame(d, d) /\ BnoAdds(d, d)
  BY <1>2, <1>3 DEF BnoGood, BnoSame, BnoAdds
<1> HIDE DEF p, m
<1>5. CASE m.kind = "write"
  <2> DEFINE e == Bno!handleFRSWriteResponse(d, m.status)
  <2>1. Bno!handle(d, m) = e
    BY <1>5 DEF Bno!handle
  <2>2. CASE d.write = << >> \/ (d.write # << >> /\ d.write[1].q = << >>)
    <3>1. e = d
      BY <2>2 DEF Bno!handleFRSWriteResponse
    <3> QED BY <1>4, <2>1, <3>1 DEF m, p
  <2>3. CASE d.write # << >> /\ d.write[1].q # << >> /\ m.status = 0
    <3> DEFINE w == d.write
               r == [w[1] EXCEPT !.q = Tail(@)]
               v == [w EXCEPT ![1] = r]
               f == [d EXCEPT !.write = v]
    <3>1. 1 \in DOMAIN w /\ w \in Seq(BnoTrans) /\ w[1] \in BnoTrans /\ w[1].active /\ DOMAIN w \subseteq Nat
      <4>1. w \in Seq(BnoTrans)
        BY <1>3 DEF BnoDrv
      <4>2. w[1].active
        BY <2>3 DEF BnoGood, BnoAwake, Queues
      <4> QED BY <2>3, <4>1, <4>2, EmptySeq
    <3>2. r \in BnoTrans /\ r.id = w[1].id /\ r.active
      <4>1. Tail(w[1].q) \in Seq(BnoOp)
        BY <2>3, <3>1 DEF BnoTrans
      <4> QED BY <3>1, <4>1 DEF BnoTrans
    <3>3. e = Bno!sendQueued(f, "write")
      <4>1. f = [d EXCEPT !.write[1].q = Tail(@)]
        BY <1>3, <3>1 DEF BnoDrv
      <4>2. e = Bno!EndOperation(d)
        BY <2>3 DEF Bno!handleFRSWriteResponse, Bno!Progress
      <4> QED BY <4>1, <4>2 DEF Bno!EndOperation
    <3> HIDE DEF r
    <3>4. /\ v \in Seq(BnoTrans) /\ DOMAIN v = DOMAIN w /\ v[1] = r
          /\ \A i \in DOMAIN w : i # 1 => v[i] = w[i]
      BY <3>1, <3>2, ExceptSeq
    <3> HIDE DEF v, w, e
    <3>5. \A i \in DOMAIN v : v[i].id = w[i].id /\ (v[i].active <=> w[i].active)
                              /\ (~v[i].active => v[i] = w[i])
      BY <3>1, <3>2, <3>4
    <3>6. v # << >> /\ v[1].active
      <4>1. v # << >>
        BY <3>1, <3>4
      <4> QED BY <3>2, <3>4, <4>1
    <3>7. /\ f \in BnoDrv /\ f.write = v /\ f.read = d.read
          /\ f.bus = d.bus /\ f.ok = d.ok /\ f.made = d.made /\ f.sent = d.sent
          /\ f.ended = d.ended /\ f.handled = d.handled
      BY <1>3, <3>4 DEF BnoDrv
    <3> HIDE DEF f
    <3>8. BnoSide("write", w, d.made, d.sent, d.ended)
      BY DEF BnoGood, BnoOrderly, Queues, w
    <3>9. BnoWaiting("write", v, d.made)
      BY <3>4, <3>5, <3>8 DEF BnoSide, BnoWaiting
    <3>10. BnoTurns("write", v, d.made, d.sent, d.ended)
      <4>1. v[1].id = w[1].id
        BY <3>1, <3>4, <3>5
      <4> QED BY <3>4, <3>5, <3>6, <3>8, <4>1 DEF BnoSide, BnoTurns
    <3>11. BnoOrderly(f)
      <4>1. BnoSide("write", f.write, f.made, f.sent, f.ended)
        BY <3>7, <3>9, <3>10 DEF BnoSide
      <4>2. BnoSide("read", f.read, f.made, f.sent, f.ended)
        BY <3>7 DEF BnoGood, BnoOrderly, Queues
      <4> QED BY <1>3, <3>7, <4>1, <4>2 DEF BnoOrderly, Queues
    <3>12. BnoReads(f.bus, p, f.read) /\ \A q \in Queues : q # "write" => BnoAwake(f[q])
      BY <1>2, <3>7 DEF BnoGood, Queues
    <3>13. BnoGood(e, p) /\ BnoSame(e, f) /\ BnoAdds(e, f)
      <4>1. "write" \in Queues
        BY DEF Queues
      <4> QED BY <3>3, <3>11, <3>12, <4>1, BnoLookedAfter
    <3>14. BnoGood(e, p) /\ BnoSame(e, d) /\ BnoAdds(e, d)
      BY <3>7, <3>13 DEF BnoSame, BnoAdds
    <3> QED BY <2>1, <3>14 DEF m, p, e
  <2>4. CASE d.write # << >> /\ d.write[1].q # << >> /\ m.status = Bno!Progress
    <3>1. e = d
      BY <2>4 DEF Bno!handleFRSWriteResponse, Bno!Progress
    <3> QED BY <1>4, <2>1, <3>1 DEF m, p
  <2>5. CASE d.write # << >> /\ d.write[1].q # << >> /\ m.status # 0 /\ m.status # Bno!Progress
    <3>1. e = Bno!EndTransaction(d, "write")
      BY <2>5 DEF Bno!handleFRSWriteResponse
    <3>2. "write" \in Queues /\ d["write"] # << >>
      BY <2>5 DEF Queues
    <3>3. BnoGood(e, p) /\ BnoSame(e, d) /\ BnoAdds(e, d)
      BY <1>2, <3>1, <3>2, BnoEnded
    <3> QED BY <2>1, <3>3 DEF m, p
  <2> QED BY <2>2, <2>3, <2>4, <2>5
<1>6. CASE m.kind = "read"
  <2> DEFINE e == Bno!handleFRSReadResponse(d, m.status)
  <2>1. Bno!handle(d, m) = e
    BY <1>6 DEF Bno!handle
  <2>2. CASE m.status = 0
    <3>1. e = d
      BY <2>2 DEF Bno!handleFRSReadResponse
    <3> QED BY <1>4, <2>1, <3>1 DEF m, p
  <2>3. CASE m.status # 0
    <3>1. m \in EndMsgs
      BY <1>1, <1>6, <2>3 DEF EndMsgs
    <3>2. d.read # << >> /\ Where(d.bus, ReadRqs) = {} /\ Where(p, EndMsgs) = {}
      BY <1>2, <3>1
    <3>3. e = Bno!EndTransaction(d, "read")
      BY <2>3, <3>2 DEF Bno!handleFRSReadResponse
    <3>4. "read" \in Queues
      BY DEF Queues
    <3>5. BnoGood(e, p) /\ BnoSame(e, d) /\ BnoAdds(e, d)
      BY <1>2, <3>2, <3>3, <3>4, BnoEnded
    <3> QED BY <2>1, <3>5 DEF m, p
  <2> QED BY <2>2, <2>3
<1>7. CASE m.kind # "write" /\ m.kind # "read"
  <2>1. Bno!handle(d, m) = d
    BY <1>7 DEF Bno!handle
  <2> QED BY <1>4, <2>1 DEF m, p
<1> QED BY <1>5, <1>6, <1>7

-----------------------------------------------------------------------------
(* The bus, and what is known of the sensor                                *)

LEMMA BnoHandled ==
  ASSUME NEW d, NEW o \in Seq(BnoMsg), o # << >>, BnoGood(d, o), NEW whole \in BOOLEAN
  PROVE  LET e == Bno!Handled(d, o[1], whole)
         IN  /\ BnoGood(e, Tail(o)) /\ e \in BnoDrv /\ BnoAdds(e, d)
             /\ e.handled = Append(d.handled, [n |-> o[1].n, whole |-> whole])
<1> DEFINE m == o[1]
           h == Append(d.handled, [n |-> m.n, whole |-> whole])
           f == [d EXCEPT !.handled = h]
           e == Bno!Handled(d, m, whole)
<1>1. d \in BnoDrv /\ m \in BnoMsg /\ Tail(o) \in Seq(BnoMsg)
  BY EmptySeq DEF BnoGood, BnoOrderly
<1>2. h \in Seq(BnoNote)
  <2>1. [n |-> m.n, whole |-> whole] \in BnoNote /\ d.handled \in Seq(BnoNote)
    BY <1>1 DEF BnoNote, BnoMsg, BnoDrv
  <2> QED BY <2>1
<1>3. e = IF whole THEN Bno!handle(f, m) ELSE f
  BY <1>1 DEF Bno!Handled, BnoDrv
<1> HIDE DEF h
<1>4. BnoOnly(f, d) /\ f.bus = d.bus /\ f.handled = h /\ f \in BnoDrv
  BY <1>1, <1>2 DEF BnoOnly, BnoDrv, Queues
<1> HIDE DEF f, e
<1>5. BnoReads(f.bus, o, d.read) /\ BnoReads(f.bus, Tail(o), d.read)
  <2>1. AtMostOne(Where(Tail(o), EndMsgs)) /\ (Where(o, EndMsgs) = {} => Where(Tail(o), EndMsgs) = {})
    BY WhereTail DEF BnoGood, BnoReads
  <2> QED BY <1>4, <2>1 DEF BnoGood, BnoReads
<1>6. BnoGood(f, o) /\ BnoGood(f, Tail(o))
  BY <1>4, <1>5, BnoLike
<1>7. CASE whole
  <2>1. BnoGood(e, Tail(o)) /\ BnoSame(e, f) /\ BnoAdds(e, f)
    BY <1>3, <1>6, <1>7, BnoHandles DEF m
  <2> QED BY <1>4, <2>1 DEF BnoSame, BnoAdds, h, e
<1>8. CASE ~whole
  <2>1. e = f
    BY <1>3, <1>8
  <2> QED BY <1>4, <1>6, <2>1 DEF BnoAdds, h, e
<1> QED BY <1>7, <1>8

\* A fetch is put on the bus.
LEMMA BnoPushes ==
  ASSUME NEW d, NEW o, BnoGood(d, o), NEW len \in Int
  PROVE  LET e == Bno!trypush(d, Bno!Read(len))
         IN  /\ BnoGood(e, o) /\ e.handled = d.handled
             /\ e.bus = d.bus \/ e.bus = Append(d.bus, [read |-> TRUE, len |-> len])
<1> DEFINE r == [read |-> TRUE, len |-> len]
           e == Bno!trypush(d, Bno!Read(len))
<1>1. d \in BnoDrv /\ d.bus \in Seq(BnoRq)
  BY DEF BnoGood, BnoOrderly, BnoDrv
<1>2. r \in BnoRq /\ r \notin ReadRqs
  BY DEF BnoRq, ReadRqs
<1> HIDE DEF r
<1>3. e = [d EXCEPT !.dropped = TRUE] \/ e = [d EXCEPT !.bus = Append(d.bus, r)]
  BY <1>1 DEF Bno!trypush, Bno!Read, BnoDrv, r
<1> HIDE DEF e
<1>4. BnoOnly(e, d) /\ e.handled = d.handled /\ (e.bus = d.bus \/ e.bus = Append(d.bus, r))
  <2>1. CASE e = [d EXCEPT !.dropped = TRUE]
    <3>1. e \in BnoDrv
      BY <1>1, <2>1 DEF BnoDrv
    <3> QED BY <1>1, <2>1, <3>1 DEF BnoOnly, BnoDrv, Queues
  <2>2. CASE e = [d EXCEPT !.bus = Append(d.bus, r)]
    <3> DEFINE b == Append(d.bus, r)
    <3>1. b \in Seq(BnoRq)
      BY <1>1, <1>2
    <3> HIDE DEF b
    <3>2. e = [d EXCEPT !.bus = b]
      BY <2>2 DEF b
    <3>3. e \in BnoDrv
      BY <1>1, <3>1, <3>2 DEF BnoDrv
    <3>4. e.bus = b
      BY <1>1, <3>2 DEF BnoDrv
    <3>5. BnoOnly(e, d) /\ e.handled = d.handled
      BY <1>1, <3>2, <3>3 DEF BnoOnly, BnoDrv, Queues
    <3> QED BY <3>4, <3>5 DEF b
  <2> QED BY <1>3, <2>1, <2>2
<1>5. Where(e.bus, ReadRqs) = Where(d.bus, ReadRqs)
  <2>1. Where(Append(d.bus, r), ReadRqs) = Where(d.bus, ReadRqs)
    BY <1>1, <1>2, WhereAppend
  <2> QED BY <1>4, <2>1
<1>6. BnoReads(e.bus, o, d.read)
  BY <1>5 DEF BnoGood, BnoReads
<1> QED BY <1>4, <1>6, BnoLike DEF e, r

\* A request leaves the bus.
LEMMA BnoLeaves ==
  ASSUME NEW d, NEW o, BnoGood(d, o), d.bus # << >>, NEW p,
         AtMostOne(Where(p, EndMsgs)),
         Where(p, EndMsgs) # {} => Where(o, EndMsgs) # {} \/ Head(d.bus) \in ReadRqs
  PROVE  LET e == [d EXCEPT !.bus = Tail(@)]
         IN  BnoGood(e, p) /\ e.handled = d.handled /\ e.bus = Tail(d.bus)
<1> DEFINE b == Tail(d.bus)
           e == [d EXCEPT !.bus = b]
<1>1. d \in BnoDrv /\ d.bus \in Seq(BnoRq)
  BY DEF BnoGood, BnoOrderly, BnoDrv
<1>2. b \in Seq(BnoRq)
  BY <1>1
<1>3. /\ AtMostOne(Where(b, ReadRqs)) /\ (Where(d.bus, ReadRqs) = {} => Where(b, ReadRqs) = {})
      /\ Head(d.bus) \in ReadRqs => Where(b, ReadRqs) = {} /\ Where(d.bus, ReadRqs) # {}
  <2>1. AtMostOne(Where(d.bus, ReadRqs))
    BY DEF BnoGood, BnoReads
  <2>2. 1 \in DOMAIN d.bus /\ Head(d.bus) = d.bus[1]
    BY <1>1, EmptySeq, HeadTailProperties
  <2>3. Head(d.bus) \in ReadRqs => Where(d.bus, ReadRqs) # {}
    BY <2>2 DEF Where
  <2> QED BY <1>1, <2>1, <2>3, WhereTail
<1> HIDE DEF b
<1>4. e = [d EXCEPT !.bus = Tail(@)]
  BY <1>1 DEF BnoDrv, b
<1>5. e \in BnoDrv
  BY <1>1, <1>2 DEF BnoDrv
<1>6. BnoOnly(e, d) /\ e.handled = d.handled /\ e.bus = b
  BY <1>1, <1>5 DEF BnoOnly, BnoDrv, Queues
<1> HIDE DEF e
<1>7. BnoReads(e.bus, p, d.read)
  <2>1. BnoReads(d.bus, o, d.read)
    BY DEF BnoGood
  <2> QED BY <1>3, <1>6, <2>1 DEF BnoReads
<1>8. BnoGood(e, p)
  BY <1>6, <1>7, BnoLike
<1> QED BY <1>4, <1>6, <1>8 DEF b

\* The sensor, and what has come of it (h): nothing is left out, nothing read in
\* part.  When all messages have one length, this is Size.
BnoNode == [out : Seq(BnoMsg), got : Int, said : Nat]
BnoSize == CHOOSE l \in BnoLens : TRUE

BnoTold(nd, h, equal) ==
  /\ nd.got = 0 /\ nd.said = Len(h) + Len(nd.out)
  /\ \A k \in DOMAIN h : h[k] = [n |-> k, whole |-> TRUE]
  /\ \A k \in DOMAIN nd.out : /\ nd.out[k].n = Len(h) + k /\ nd.out[k].len > 0
                              /\ equal => nd.out[k].len = BnoSize

\* A fetch is for a header, or for the whole of the first message; and the only
\* one when poll() waits for it.
BnoMayFetch(len, o, overlap, equal) ==
  /\ len \in Nat /\ (equal => len \in {1, BnoSize + 1})
  /\ overlap \/ len = 1 \/ (o # << >> /\ len = o[1].len + 1)

BnoFetches(b, o, overlap, equal) ==
  \A k \in DOMAIN b : b[k].read =>
    /\ BnoMayFetch(b[k].len, o, overlap, equal)
    /\ overlap \/ \A j \in DOMAIN b : b[j].read => j = k

BnoNoFetch(b) == \A k \in DOMAIN b : ~b[k].read

LEMMA BnoFetchAdded ==
  ASSUME NEW b \in Seq(BnoRq), NEW o, NEW overlap \in BOOLEAN, NEW equal, NEW r \in BnoRq,
         BnoFetches(b, o, overlap, equal),
         r.read => BnoMayFetch(r.len, o, overlap, equal) /\ (overlap \/ BnoNoFetch(b))
  PROVE  BnoFetches(Append(b, r), o, overlap, equal)
<1> DEFINE c == Append(b, r)
           n == Len(b)
<1>1. /\ n \in Nat /\ DOMAIN b = 1 .. n /\ DOMAIN c = 1 .. n + 1 /\ c[n + 1] = r
      /\ \A k \in 1 .. n : c[k] = b[k]
  OBVIOUS
<1> HIDE DEF c, n
<1>2. \A k \in DOMAIN c : (k \in DOMAIN b /\ c[k] = b[k]) \/ (k = n + 1 /\ c[k] = r)
  BY <1>1
<1>3. ASSUME NEW k \in DOMAIN c, c[k].read
      PROVE  BnoMayFetch(c[k].len, o, overlap, equal)
  BY <1>2, <1>3 DEF BnoFetches
<1>4. ASSUME NEW k \in DOMAIN c, c[k].read, ~overlap, NEW j \in DOMAIN c, c[j].read
      PROVE  j = k
  <2>1. CASE r.read
    <3>1. \A i \in DOMAIN c : c[i].read => i = n + 1
      BY <1>2, <1>4, <2>1 DEF BnoNoFetch
    <3> QED BY <1>4, <3>1
  <2>2. CASE ~r.read
    <3>1. j \in DOMAIN b /\ b[j].read /\ k \in DOMAIN b /\ b[k].read
      BY <1>2, <1>4, <2>2
    <3> QED BY <1>4, <3>1 DEF BnoFetches
  <2> QED BY <2>1, <2>2
<1> QED BY <1>3, <1>4 DEF BnoFetches, c

LEMMA BnoFetchLess ==
  ASSUME NEW b \in Seq(BnoRq), b # << >>, NEW o, NEW overlap \in BOOLEAN, NEW equal,
         BnoFetches(b, o, overlap, equal)
  PROVE  /\ BnoFetches(Tail(b), o, overlap, equal)
         /\ Head(b).read => overlap \/ BnoNoFetch(Tail(b))
<1> DEFINE c == Tail(b)
<1>1. /\ Len(b) \in Nat \ {0} /\ Head(b) = b[1] /\ c \in Seq(BnoRq) /\ Len(c) = Len(b) - 1
      /\ \A k \in 1 .. Len(c) : c[k] = b[k + 1]
  BY EmptySeq, HeadTailProperties
<1>2. 1 \in DOMAIN b /\ DOMAIN c \subseteq Nat \ {0}
  BY <1>1
<1> HIDE DEF c
<1>3. \A k \in DOMAIN c : k \in Nat /\ k + 1 # 1 /\ k + 1 \in DOMAIN b /\ c[k] = b[k + 1]
  BY <1>1, <1>2
<1>4. ASSUME NEW k \in DOMAIN c, c[k].read
      PROVE  /\ BnoMayFetch(c[k].len, o, overlap, equal)
             /\ overlap \/ \A j \in DOMAIN c : c[j].read => j = k
  <2>1. k + 1 \in DOMAIN b /\ c[k] = b[k + 1] /\ k \in Nat
    BY <1>3
  <2>2. BnoMayFetch(c[k].len, o, overlap, equal)
    BY <1>4, <2>1 DEF BnoFetches
  <2>3. ASSUME ~overlap, NEW j \in DOMAIN c, c[j].read PROVE j = k
    <3>1. j + 1 \in DOMAIN b /\ c[j] = b[j + 1] /\ j \in Nat
      BY <1>3
    <3>2. j + 1 = k + 1
      BY <1>4, <2>1, <2>3, <3>1 DEF BnoFetches
    <3> QED BY <2>1, <3>1, <3>2
  <2> QED BY <2>2, <2>3
<1>5. ASSUME b[1].read, ~overlap, NEW k \in DOMAIN c
      PROVE  ~c[k].read
  BY <1>2, <1>3, <1>5 DEF BnoFetches
<1> QED BY <1>1, <1>4, <1>5 DEF BnoFetches, BnoNoFetch, c

\* What is fetched depends on the first message alone.
LEMMA BnoFetchSame ==
  ASSUME NEW b, NEW o, NEW p, NEW overlap \in BOOLEAN, NEW equal, BnoFetches(b, o, overlap, equal),
         (o # << >> => p # << >> /\ p[1] = o[1]) \/ overlap \/ BnoNoFetch(b)
  PROVE  BnoFetches(b, p, overlap, equal)
<1> SUFFICES ASSUME NEW k \in DOMAIN b, b[k].read
             PROVE  /\ BnoMayFetch(b[k].len, p, overlap, equal)
                    /\ overlap \/ \A j \in DOMAIN b : b[j].read => j = k
  BY DEF BnoFetches
<1>1. /\ BnoMayFetch(b[k].len, o, overlap, equal)
      /\ overlap \/ \A j \in DOMAIN b : b[j].read => j = k
  BY DEF BnoFetches
<1>2. BnoMayFetch(b[k].len, p, overlap, equal)
  BY <1>1 DEF BnoMayFetch, BnoNoFetch
<1> QED BY <1>1, <1>2

\* The sensor says something: what kinds of messages, of which status.
BnoSays == {"write", "read", "other"} \X Nat

BnoWords(nd, says, len) ==
  [k \in DOMAIN says |-> [n |-> nd.said + k, kind |-> says[k][1], status |-> says[k][2], len |-> len]]

BnoSpoken(nd, says, len) ==
  [nd EXCEPT !.said = @ + Len(says), !.out = @ \o BnoWords(nd, says, len)]

LEMMA BnoTells ==
  ASSUME NEW nd \in BnoNode, NEW says \in Seq(BnoSays), NEW len \in Nat \ {0}
  PROVE  LET x == BnoWords(nd, says, len)
             e == BnoSpoken(nd, says, len)
         IN  /\ e \in BnoNode /\ e.out = nd.out \o x /\ x \in Seq(BnoMsg) /\ DOMAIN x = DOMAIN says
             /\ nd.out # << >> => e.out # << >> /\ e.out[1] = nd.out[1]
             /\ \A h \in Seq(BnoNote), equal \in BOOLEAN :
                  BnoTold(nd, h, equal) /\ (equal => len = BnoSize) => BnoTold(e, h, equal)
<1> DEFINE x == BnoWords(nd, says, len)
           o == nd.out
           p == o \o x
           s == nd.said + Len(says)
           e == [nd EXCEPT !.said = s, !.out = p]
<1>1. /\ o \in Seq(BnoMsg) /\ nd.said \in Nat /\ nd.got \in Int
      /\ Len(says) \in Nat /\ DOMAIN says = 1 .. Len(says)
  <2>1. o \in Seq(BnoMsg) /\ nd.said \in Nat /\ nd.got \in Int
    BY DEF BnoNode
  <2>2. Len(says) \in Nat /\ DOMAIN says = 1 .. Len(says)
    OBVIOUS
  <2> QED BY <2>1, <2>2
<1>2. \A k \in DOMAIN says : k \in Nat /\ says[k] \in BnoSays
  BY <1>1
<1>3. ASSUME NEW k \in DOMAIN says
      PROVE  x[k] \in BnoMsg /\ x[k].n = nd.said + k /\ x[k].len = len
  <2>1. x[k] = [n |-> nd.said + k, kind |-> says[k][1], status |-> says[k][2], len |-> len]
    BY DEF BnoWords
  <2>2. says[k][1] \in {"write", "read", "other"} /\ says[k][2] \in Nat /\ nd.said + k \in Nat
    BY <1>1, <1>2 DEF BnoSays
  <2> QED BY <2>1, <2>2 DEF BnoMsg
<1>4. x \in Seq(BnoMsg) /\ DOMAIN x = DOMAIN says /\ Len(x) = Len(says)
  <2>1. x \in [1 .. Len(says) -> BnoMsg] /\ DOMAIN says = 1 .. Len(says)
    BY <1>3 DEF BnoWords
  <2> HIDE DEF x
  <2> QED BY <1>1, <2>1
<1> HIDE DEF x
<1>5. /\ p \in Seq(BnoMsg) /\ Len(p) = Len(o) + Len(says) /\ DOMAIN o = 1 .. Len(o) /\ Len(o) \in Nat
      /\ \A i \in DOMAIN p : \/ i \in DOMAIN o /\ p[i] = o[i]
                             \/ i - Len(o) \in DOMAIN x /\ p[i] = x[i - Len(o)]
      /\ \A i \in DOMAIN o : i \in DOMAIN p /\ p[i] = o[i]
  <2>1. o \in Seq(BnoMsg) /\ x \in Seq(BnoMsg) /\ Len(x) = Len(says)
    BY <1>1, <1>4
  <2>2. Len(o) \in Nat /\ DOMAIN o = 1 .. Len(o)
    BY <2>1
  <2> HIDE DEF o
  <2>3. p \in Seq(BnoMsg) /\ Len(p) = Len(o) + Len(x)
    BY <2>1, Concatenated
  <2>4. \A i \in DOMAIN p : \/ i \in DOMAIN o /\ p[i] = o[i]
                            \/ i - Len(o) \in DOMAIN x /\ p[i] = x[i - Len(o)]
    BY <2>1, Concatenated
  <2>5. \A i \in DOMAIN o : i \in DOMAIN p /\ p[i] = o[i]
    BY <2>1, Concatenated
  <2> HIDE DEF p
  <2> QED BY <2>1, <2>2, <2>3, <2>4, <2>5
<1>6. DOMAIN p \subseteq Int
  BY <1>5
<1>7. o # << >> => p # << >> /\ p[1] = o[1]
  <2> SUFFICES ASSUME o # << >> PROVE p # << >> /\ p[1] = o[1]
    OBVIOUS
  <2>1. Len(o) \in Nat \ {0}
    BY <1>1, EmptySeq
  <2>2. 1 \in DOMAIN o /\ Len(p) # 0
    BY <1>1, <1>5, <2>1
  <2> QED BY <1>5, <2>2, EmptySeq
<1> HIDE DEF p, s, o
<1>8. s \in Nat
  BY <1>1 DEF s
<1>9. e \in BnoNode /\ e.out = p /\ e.got = nd.got /\ e.said = s
  BY <1>5, <1>8 DEF BnoNode
<1> HIDE DEF e
<1>10. ASSUME NEW h \in Seq(BnoNote), NEW equal \in BOOLEAN, BnoTold(nd, h, equal), equal => len = BnoSize
       PROVE  BnoTold(e, h, equal)
  <2>1. Len(h) \in Nat
    OBVIOUS
  <2>2. /\ nd.got = 0 /\ nd.said = Len(h) + Len(o)
        /\ \A k \in DOMAIN h : h[k] = [n |-> k, whole |-> TRUE]
    BY <1>10 DEF BnoTold, o
  <2>3. s = Len(h) + Len(p)
    BY <1>1, <1>5, <2>1, <2>2 DEF s
  <2>4. ASSUME NEW k \in DOMAIN p
        PROVE  p[k].n = Len(h) + k /\ p[k].len > 0 /\ (equal => p[k].len = BnoSize)
    <3>1. CASE k \in DOMAIN o /\ p[k] = o[k]
      BY <1>10, <3>1 DEF BnoTold, o
    <3>2. CASE k - Len(o) \in DOMAIN x /\ p[k] = x[k - Len(o)]
      <4> DEFINE i == k - Len(o)
      <4>1. i \in DOMAIN says /\ k = Len(o) + i /\ i \in Nat
        BY <1>2, <1>4, <1>5, <1>6, <3>2
      <4>2. p[k] = x[i]
        BY <3>2
      <4> HIDE DEF i
      <4>3. p[k].n = nd.said + i /\ p[k].len = len
        BY <1>3, <4>1, <4>2
      <4> QED BY <1>5, <1>10, <2>1, <2>2, <4>1, <4>3
    <3> QED BY <1>5, <3>1, <3>2
  <2> QED BY <1>9, <2>2, <2>3, <2>4 DEF BnoTold
<1>11. e = BnoSpoken(nd, says, len)
  BY DEF BnoSpoken, e, s, p, o, x
<1> QED BY <1>4, <1>7, <1>9, <1>10, <1>5, <1>11 DEF p, o, x

\* The first message was handled.
LEMMA BnoTalked ==
  ASSUME NEW nd \in BnoNode, nd.out # << >>
  PROVE  LET e == [nd EXCEPT !.out = Tail(@), !.got = 0]
         IN  /\ e \in BnoNode /\ e.out = Tail(nd.out)
             /\ \A h \in Seq(BnoNote), equal \in BOOLEAN :
                  BnoTold(nd, h, equal) => BnoTold(e, Append(h, [n |-> nd.out[1].n, whole |-> TRUE]), equal)
<1> DEFINE o == nd.out
           p == Tail(o)
           e == [nd EXCEPT !.out = p, !.got = 0]
<1>1. /\ o \in Seq(BnoMsg) /\ nd.said \in Nat /\ Len(o) \in Nat \ {0}
      /\ p \in Seq(BnoMsg) /\ Len(p) = Len(o) - 1 /\ \A k \in 1 .. Len(p) : p[k] = o[k + 1]
  BY EmptySeq, HeadTailProperties DEF BnoNode
<1>2. DOMAIN o = 1 .. Len(o) /\ DOMAIN p = 1 .. Len(p)
  BY <1>1
<1> HIDE DEF p
<1>3. e \in BnoNode /\ e.out = p /\ e.got = 0 /\ e.said = nd.said
  <2>1. p \in Seq(BnoMsg)
    BY <1>1
  <2>2. e \in BnoNode
    <3>1. nd.said \in Nat /\ 0 \in Int
      BY <1>1
    <3> QED BY <2>1, <3>1 DEF BnoNode
  <2>3. e.out = p /\ e.got = 0
    BY DEF BnoNode
  <2>4. e.said = nd.said
    BY DEF BnoNode
  <2> QED BY <2>2, <2>3, <2>4
<1> HIDE DEF e, o
<1>4. ASSUME NEW h \in Seq(BnoNote), NEW equal \in BOOLEAN, BnoTold(nd, h, equal)
      PROVE  BnoTold(e, Append(h, [n |-> o[1].n, whole |-> TRUE]), equal)
  <2> DEFINE r == [n |-> o[1].n, whole |-> TRUE]
             g == Append(h, r)
  <2>1. Len(h) \in Nat /\ Len(g) = Len(h) + 1 /\ DOMAIN h = 1 .. Len(h) /\ DOMAIN g = 1 .. Len(h) + 1
        /\ g[Len(h) + 1] = r /\ \A k \in 1 .. Len(h) : g[k] = h[k]
    OBVIOUS
  <2>2. /\ nd.got = 0 /\ nd.said = Len(h) + Len(o)
        /\ \A k \in DOMAIN h : h[k] = [n |-> k, whole |-> TRUE]
        /\ \A k \in DOMAIN o : /\ o[k].n = Len(h) + k /\ o[k].len > 0
                               /\ equal => o[k].len = BnoSize
    BY <1>4 DEF BnoTold, o
  <2>3. r = [n |-> Len(h) + 1, whole |-> TRUE]
    <3>1. 1 \in DOMAIN o
      BY <1>1, <1>2
    <3> QED BY <2>2, <3>1
  <2> HIDE DEF r, g
  <2>4. e.said = Len(g) + Len(p)
    BY <1>1, <1>3, <2>1, <2>2
  <2>5. \A k \in DOMAIN g : g[k] = [n |-> k, whole |-> TRUE]
    BY <2>1, <2>2, <2>3
  <2>6. ASSUME NEW k \in DOMAIN p
        PROVE  p[k].n = Len(g) + k /\ p[k].len > 0 /\ (equal => p[k].len = BnoSize)
    <3>1. k + 1 \in DOMAIN o /\ p[k] = o[k + 1] /\ k \in Nat
      BY <1>1, <1>2
    <3>2. o[k + 1].n = Len(h) + (k + 1) /\ o[k + 1].len > 0 /\ (equal => o[k + 1].len = BnoSize)
      BY <2>2, <3>1
    <3> QED BY <2>1, <3>1, <3>2
  <2> QED BY <1>3, <2>4, <2>5, <2>6 DEF BnoTold, g, r
<1> QED BY <1>3, <1>4 DEF e, p, o

\* What the sensor has to say about an operation: an answer that ends a
\* transaction only about a read.
LEMMA BnoAnswers ==
  ASSUME bEnv \in BnoEnvs, NEW op \in BnoOp
  PROVE  LET says == Bno!Answers(op)
         IN  /\ says \in Seq(BnoSays)
             /\ op.type = "read" => says = << <<"read", 0>>, <<"read", 3>> >>
             /\ op.type # "read" => \A k \in DOMAIN says : says[k][1] # "read"
<1> DEFINE says == Bno!Answers(op)
<1>1. bEnv.ready \in BOOLEAN
  BY DevicesAssumption
<1>2. /\ <<"write", 4>> \in BnoSays /\ <<"write", 0>> \in BnoSays /\ <<"write", 8>> \in BnoSays
      /\ <<"write", 3>> \in BnoSays /\ <<"read", 0>> \in BnoSays /\ <<"read", 3>> \in BnoSays
      /\ <<"other", 0>> \in BnoSays
  BY DEF BnoSays
<1>3. CASE op.type = "read"
  <2>1. says = << <<"read", 0>>, <<"read", 3>> >>
    BY <1>3 DEF Bno!Answers
  <2> QED BY <1>2, <1>3, <2>1
<1>4. CASE op.type # "read"
  <2> DEFINE ready == <<"write", 4>>
             done == <<"write", 0>>
             progress == <<"write", 8>>
             over == <<"write", 3>>
             other == <<"other", 0>>
  <2>1. \/ says = << <<"write", 4>> >>
        \/ says = << <<"write", 0>> >>
        \/ says = << <<"write", 0>>, <<"write", 8>>, <<"write", 3>> >>
        \/ says = << <<"other", 0>> >>
    BY <1>1, <1>4 DEF Bno!Answers, Bno!Progress
  <2>2. /\ ready \in BnoSays /\ done \in BnoSays /\ progress \in BnoSays /\ over \in BnoSays
        /\ other \in BnoSays
    BY <1>2
  <2>3. /\ ready[1] # "read" /\ done[1] # "read" /\ progress[1] # "read" /\ over[1] # "read"
        /\ other[1] # "read"
    OBVIOUS
  <2> HIDE DEF ready, done, progress, over, other
  <2>4. /\ << ready >> \in Seq(BnoSays) /\ << done >> \in Seq(BnoSays) /\ << other >> \in Seq(BnoSays)
        /\ << done, progress, over >> \in Seq(BnoSays)
    BY <2>2
  <2>5. /\ \A k \in DOMAIN << ready >> : << ready >>[k][1] # "read"
        /\ \A k \in DOMAIN << done >> : << done >>[k][1] # "read"
        /\ \A k \in DOMAIN << other >> : << other >>[k][1] # "read"
        /\ \A k \in DOMAIN << done, progress, over >> : << done, progress, over >>[k][1] # "read"
    BY <2>3
  <2>6. says = << ready >> \/ says = << done >> \/ says = << done, progress, over >> \/ says = << other >>
    BY <2>1 DEF ready, done, progress, over, other
  <2> HIDE DEF says
  <2>7. says \in Seq(BnoSays) /\ \A k \in DOMAIN says : says[k][1] # "read"
    BY <2>4, <2>5, <2>6
  <2> QED BY <1>4, <2>7 DEF says
<1> QED BY <1>3, <1>4

-----------------------------------------------------------------------------
(* The invariant                                                           *)

BnoSure == ~bEnv.overlap \/ bEnv.equal

BnoInv == /\ bEnv \in BnoEnvs /\ bNode \in BnoNode
          /\ BnoGood(bDrv, bNode.out)
          /\ BnoSure => /\ BnoTold(bNode, bDrv.handled, bEnv.equal)
                        /\ BnoFetches(bDrv.bus, bNode.out, bEnv.overlap, bEnv.equal)

LEMMA BnoHere ==
  ASSUME BnoInv
  PROVE  /\ bEnv.overlap \in BOOLEAN /\ bEnv.equal \in BOOLEAN
         /\ bDrv \in BnoDrv /\ bDrv.bus \in Seq(BnoRq) /\ bDrv.handled \in Seq(BnoNote)
         /\ bNode.out \in Seq(BnoMsg) /\ bNode.got \in Int
BY DevicesAssumption DEF BnoInv, BnoGood, BnoOrderly, BnoDrv, BnoNode

LEMMA BnoSizes ==
  ASSUME bEnv \in BnoEnvs, NEW len \in Bno!Sizes
  PROVE  len \in Nat \ {0} /\ (bEnv.equal => len = BnoSize)
<1>1. BnoLens \subseteq Nat \ {0} /\ BnoLens # {} /\ bEnv.equal \in BOOLEAN
  BY DevicesAssumption
<1>2. BnoSize \in BnoLens
  BY <1>1 DEF BnoSize
<1> QED BY <1>1, <1>2 DEF Bno!Sizes, BnoSize

LEMMA BnoInit == Bno!Init => BnoInv
<1> SUFFICES ASSUME Bno!Init PROVE BnoInv
  OBVIOUS
<1>1. /\ bDrv = [bus |-> << >>, write |-> << >>, read |-> << >>, ok |-> TRUE, made |-> 0,
                 sent |-> << >>, dropped |-> FALSE, ended |-> {}, handled |-> << >>]
      /\ bNode = [out |-> << >>, got |-> 0, said |-> 0] /\ bEnv \in BnoEnvs
  BY DEF Bno!Init
<1>2. bDrv \in BnoDrv /\ bNode \in BnoNode
  BY <1>1 DEF BnoDrv, BnoNode
<1>3. \A qs \in Queues : bDrv[qs] = << >>
  BY <1>1 DEF Queues
<1>4. \A qs \in Queues : BnoSide(qs, << >>, 0, << >>, {}) /\ BnoAwake(<< >>)
  BY DEF BnoSide, BnoWaiting, BnoTurns, BnoAwake
<1>5. BnoOrderly(bDrv) /\ \A qs \in Queues : BnoAwake(bDrv[qs])
  BY <1>1, <1>2, <1>3, <1>4 DEF BnoOrderly
<1>6. Where(<< >>, ReadRqs) = {} /\ Where(<< >>, EndMsgs) = {}
  BY DEF Where
<1>7. BnoReads(bDrv.bus, bNode.out, bDrv.read)
  BY <1>1, <1>6 DEF BnoReads, AtMostOne
<1>8. BnoTold(bNode, bDrv.handled, bEnv.equal)
  BY <1>1 DEF BnoTold
<1>9. BnoFetches(bDrv.bus, bNode.out, bEnv.overlap, bEnv.equal)
  BY <1>1 DEF BnoFetches
<1> QED BY <1>1, <1>2, <1>5, <1>7, <1>8, <1>9 DEF BnoInv, BnoGood

\* A request to write changes nothing of what is fetched.
LEMMA BnoAddsFetches ==
  ASSUME NEW d, d.bus \in Seq(BnoRq), NEW e, BnoAdds(e, d), NEW o, NEW overlap \in BOOLEAN, NEW equal,
         BnoFetches(d.bus, o, overlap, equal)
  PROVE  BnoFetches(e.bus, o, overlap, equal)
<1>1. CASE e.bus = d.bus
  BY <1>1
<1>2. ASSUME NEW op \in BnoOp, e.bus = Append(d.bus, [read |-> FALSE, op |-> op])
      PROVE  BnoFetches(e.bus, o, overlap, equal)
  <2> DEFINE r == [read |-> FALSE, op |-> op]
  <2>1. r \in BnoRq /\ ~r.read /\ e.bus = Append(d.bus, r)
    BY <1>2 DEF BnoRq
  <2> HIDE DEF r
  <2> QED BY <2>1, BnoFetchAdded
<1> QED BY <1>1, <1>2 DEF BnoAdds

LEMMA BnoPoll == BnoInv /\ Bno!poll => BnoInv'
<1> SUFFICES ASSUME BnoInv, Bno!poll PROVE BnoInv'
  OBVIOUS
<1>1. /\ bDrv' = Bno!trypush(bDrv, Bno!Read(1)) /\ bNode' = bNode /\ bEnv' = bEnv
      /\ bEnv.overlap \/ BnoNoFetch(bDrv.bus)
  BY DEF Bno!poll, Bno!Idle, Bno!Fetching, BnoNoFetch
<1>2. /\ BnoGood(bDrv', bNode.out) /\ bDrv'.handled = bDrv.handled
      /\ bDrv'.bus = bDrv.bus \/ bDrv'.bus = Append(bDrv.bus, [read |-> TRUE, len |-> 1])
  BY <1>1, BnoPushes DEF BnoInv
<1>3. ASSUME BnoSure
      PROVE  BnoFetches(bDrv'.bus, bNode.out, bEnv.overlap, bEnv.equal)
  <2> DEFINE r == [read |-> TRUE, len |-> 1]
  <2>1. r \in BnoRq /\ r.len = 1
    BY DEF BnoRq
  <2>2. BnoMayFetch(1, bNode.out, bEnv.overlap, bEnv.equal)
    BY DEF BnoMayFetch
  <2>3. BnoFetches(bDrv.bus, bNode.out, bEnv.overlap, bEnv.equal)
    BY <1>3 DEF BnoInv
  <2>4. bDrv'.bus = bDrv.bus \/ bDrv'.bus = Append(bDrv.bus, r)
    BY <1>2
  <2> HIDE DEF r
  <2> QED BY <1>1, <2>1, <2>2, <2>3, <2>4, BnoFetchAdded, BnoHere
<1>4. BnoSure' = BnoSure
  BY <1>1 DEF BnoSure
<1> QED BY <1>1, <1>2, <1>3, <1>4 DEF BnoInv

LEMMA BnoRequest == BnoInv /\ Bno!Request => BnoInv'
<1> SUFFICES ASSUME BnoInv, Bno!Request PROVE BnoInv'
  OBVIOUS
<1>1. /\ bDrv' \in {Bno!configure(bDrv), Bno!readFRS(bDrv), Bno!Command(bDrv)}
      /\ bNode' = bNode /\ bEnv' = bEnv
  BY DEF Bno!Request, Bno!Idle
<1>2. BnoGood(bDrv', bNode.out) /\ BnoSame(bDrv', bDrv) /\ BnoAdds(bDrv', bDrv)
  BY <1>1, BnoRequested DEF BnoInv
<1>3. BnoFetches(bDrv.bus, bNode.out, bEnv.overlap, bEnv.equal) =>
        BnoFetches(bDrv'.bus, bNode.out, bEnv.overlap, bEnv.equal)
  <2>1. bDrv.bus \in Seq(BnoRq) /\ bEnv.overlap \in BOOLEAN
    BY BnoHere
  <2>2. BnoAdds(bDrv', bDrv)
    BY <1>2
  <2> QED BY <2>1, <2>2, BnoAddsFetches
<1>4. BnoSure' = BnoSure /\ bDrv'.handled = bDrv.handled
  BY <1>1, <1>2 DEF BnoSure, BnoSame
<1> QED BY <1>1, <1>2, <1>3, <1>4 DEF BnoInv

\* The sensor says what does not end a transaction, or what ends the one whose
\* request leaves the bus.
LEMMA BnoWordsEnd ==
  ASSUME NEW nd \in BnoNode, NEW says \in Seq(BnoSays), NEW len \in Nat \ {0}
  PROVE  /\ (\A k \in DOMAIN says : says[k][1] # "read") => Where(BnoWords(nd, says, len), EndMsgs) = {}
         /\ says = << <<"read", 0>>, <<"read", 3>> >> => AtMostOne(Where(BnoWords(nd, says, len), EndMsgs))
<1> DEFINE x == BnoWords(nd, says, len)
<1>1. \A k \in DOMAIN x : k \in DOMAIN says /\ x[k].kind = says[k][1] /\ x[k].status = says[k][2]
  BY DEF BnoWords
<1> HIDE DEF x
<1>2. ASSUME \A k \in DOMAIN says : says[k][1] # "read" PROVE Where(x, EndMsgs) = {}
  BY <1>1, <1>2 DEF Where, EndMsgs
<1>3. ASSUME says = << <<"read", 0>>, <<"read", 3>> >> PROVE AtMostOne(Where(x, EndMsgs))
  <2>1. \A k \in DOMAIN says : k = 2 \/ says[k][2] = 0
    BY <1>3
  <2>2. \A k \in Where(x, EndMsgs) : k = 2
    BY <1>1, <2>1 DEF Where, EndMsgs
  <2> QED BY <2>2 DEF AtMostOne
<1> QED BY <1>2, <1>3 DEF x

LEMMA BnoWrote == BnoInv /\ Bno!Wrote => BnoInv'
<1> SUFFICES ASSUME BnoInv, Bno!Wrote PROVE BnoInv'
  OBVIOUS
<1> DEFINE b == bDrv.bus
           o == bNode.out
           op == b[1].op
           says == Bno!Answers(op)
<1>1. PICK len \in Bno!Sizes : Bno!Say(says, len)
  BY DEF Bno!Wrote
<1> DEFINE x == BnoWords(bNode, says, len)
<1>2. /\ b # << >> /\ ~b[1].read /\ bEnv' = bEnv
      /\ bDrv' = [bDrv EXCEPT !.bus = Tail(@)]
  BY DEF Bno!Wrote, Bno!Idle
<1>3. bNode' = [bNode EXCEPT !.said = @ + Len(says), !.out = @ \o x]
  BY <1>1 DEF Bno!Say, BnoWords
<1>4. b[1] \in BnoRq /\ op \in BnoOp /\ Head(b) = b[1]
  <2>1. b \in Seq(BnoRq)
    BY BnoHere
  <2>2. b[1] \in BnoRq /\ Head(b) = b[1]
    BY <1>2, <2>1, EmptySeq, HeadTailProperties
  <2> QED BY <1>2, <2>2 DEF BnoRq
<1>5. len \in Nat \ {0} /\ (bEnv.equal => len = BnoSize)
  BY BnoSizes DEF BnoInv
<1> HIDE DEF op
<1>6. /\ says \in Seq(BnoSays)
      /\ op.type = "read" => says = << <<"read", 0>>, <<"read", 3>> >>
      /\ op.type # "read" => \A k \in DOMAIN says : says[k][1] # "read"
  BY <1>4, BnoAnswers DEF BnoInv
<1>7. (op.type = "read") <=> Head(b) \in ReadRqs
  BY <1>2, <1>4 DEF ReadRqs, op
<1> HIDE DEF says, x
<1>8. /\ bNode' \in BnoNode /\ bNode'.out = o \o x /\ x \in Seq(BnoMsg)
      /\ o # << >> => bNode'.out # << >> /\ bNode'.out[1] = o[1]
      /\ \A h \in Seq(BnoNote), equal \in BOOLEAN :
           BnoTold(bNode, h, equal) /\ (equal => len = BnoSize) => BnoTold(bNode', h, equal)
  <2> DEFINE e == BnoSpoken(bNode, says, len)
  <2>1. bNode \in BnoNode /\ says \in Seq(BnoSays) /\ len \in Nat \ {0}
    BY <1>5, <1>6 DEF BnoInv
  <2>2. /\ e \in BnoNode /\ e.out = o \o x /\ x \in Seq(BnoMsg)
        /\ o # << >> => e.out # << >> /\ e.out[1] = o[1]
        /\ \A h \in Seq(BnoNote), equal \in BOOLEAN :
             BnoTold(bNode, h, equal) /\ (equal => len = BnoSize) => BnoTold(e, h, equal)
    <3>1. /\ e \in BnoNode /\ e.out = o \o x /\ x \in Seq(BnoMsg)
          /\ o # << >> => e.out # << >> /\ e.out[1] = o[1]
      BY <2>1, BnoTells DEF x
    <3>2. \A h \in Seq(BnoNote), equal \in BOOLEAN :
            BnoTold(bNode, h, equal) /\ (equal => len = BnoSize) => BnoTold(e, h, equal)
      BY <2>1, BnoTells DEF x
    <3> HIDE DEF e
    <3> QED BY <3>1, <3>2
  <2> HIDE DEF e
  <2>3. bNode' = e
    BY <1>3 DEF e, x, BnoSpoken
  <2> QED BY <2>2, <2>3
<1>9. /\ (\A k \in DOMAIN says : says[k][1] # "read") => Where(x, EndMsgs) = {}
      /\ says = << <<"read", 0>>, <<"read", 3>> >> => AtMostOne(Where(x, EndMsgs))
  BY <1>5, <1>6, BnoWordsEnd DEF BnoInv, x
<1>10. o \in Seq(BnoMsg) /\ b \in Seq(BnoRq) /\ BnoReads(b, o, bDrv.read)
  BY BnoHere DEF BnoInv, BnoGood
<1>11. /\ AtMostOne(Where(bNode'.out, EndMsgs))
       /\ Where(bNode'.out, EndMsgs) # {} => Where(o, EndMsgs) # {} \/ Head(b) \in ReadRqs
  <2>1. CASE op.type # "read"
    <3>1. Where(x, EndMsgs) = {}
      BY <1>6, <1>9, <2>1
    <3>2. Where(o \o x, EndMsgs) = Where(o, EndMsgs)
      BY <1>8, <1>10, <3>1, WhereConcat
    <3>3. Where(bNode'.out, EndMsgs) = Where(o, EndMsgs)
      BY <1>8, <3>2
    <3> QED BY <1>10, <3>3 DEF BnoReads
  <2>2. CASE op.type = "read"
    <3>1. Where(b, ReadRqs) # {}
      <4>1. 1 \in DOMAIN b
        BY <1>2, <1>10, EmptySeq
      <4> QED BY <1>4, <1>7, <2>2, <4>1 DEF Where
    <3>2. Where(o, EndMsgs) = {}
      BY <1>10, <3>1 DEF BnoReads
    <3>3. AtMostOne(Where(bNode'.out, EndMsgs))
      BY <1>6, <1>8, <1>9, <1>10, <2>2, <3>2, WhereConcat
    <3> QED BY <1>7, <2>2, <3>3
  <2> QED BY <2>1, <2>2
<1>12. BnoGood(bDrv', bNode'.out) /\ bDrv'.handled = bDrv.handled /\ bDrv'.bus = Tail(b)
  BY <1>2, <1>11, BnoLeaves DEF BnoInv
<1>13. ASSUME BnoSure
       PROVE  /\ BnoTold(bNode', bDrv'.handled, bEnv.equal)
              /\ BnoFetches(bDrv'.bus, bNode'.out, bEnv.overlap, bEnv.equal)
  <2>1. BnoTold(bNode, bDrv.handled, bEnv.equal) /\ BnoFetches(b, o, bEnv.overlap, bEnv.equal)
    BY <1>13 DEF BnoInv
  <2>2. BnoTold(bNode', bDrv'.handled, bEnv.equal)
    BY <1>5, <1>8, <1>12, <2>1, BnoHere
  <2>3. BnoFetches(Tail(b), o, bEnv.overlap, bEnv.equal)
    BY <1>2, <1>10, <2>1, BnoHere, BnoFetchLess
  <2>4. BnoFetches(Tail(b), bNode'.out, bEnv.overlap, bEnv.equal)
    <3>1. bEnv.overlap \in BOOLEAN
      BY BnoHere
    <3> QED BY <1>8, <2>3, <3>1, BnoFetchSame
  <2> QED BY <1>12, <2>2, <2>4
<1>14. BnoSure' = BnoSure
  BY <1>2 DEF BnoSure
<1> QED BY <1>2, <1>8, <1>12, <1>13, <1>14 DEF BnoInv

LEMMA BnoReport == BnoInv /\ Bno!Report => BnoInv'
<1> SUFFICES ASSUME BnoInv, Bno!Report PROVE BnoInv'
  OBVIOUS
<1> DEFINE b == bDrv.bus
           o == bNode.out
           says == << <<"other", 0>> >>
<1>1. PICK len \in Bno!Sizes : Bno!Say(says, len)
  BY DEF Bno!Report
<1> DEFINE x == BnoWords(bNode, says, len)
<1>2. bEnv' = bEnv /\ bDrv' = bDrv
  BY DEF Bno!Report, Bno!Idle
<1>3. bNode' = [bNode EXCEPT !.said = @ + Len(says), !.out = @ \o x]
  BY <1>1 DEF Bno!Say, BnoWords
<1>4. len \in Nat \ {0} /\ (bEnv.equal => len = BnoSize)
  BY BnoSizes DEF BnoInv
<1>5. says \in Seq(BnoSays) /\ \A k \in DOMAIN says : says[k][1] # "read"
  BY DEF BnoSays
<1> HIDE DEF says, x
<1>6. /\ bNode' \in BnoNode /\ bNode'.out = o \o x /\ x \in Seq(BnoMsg)
      /\ o # << >> => bNode'.out # << >> /\ bNode'.out[1] = o[1]
      /\ \A h \in Seq(BnoNote), equal \in BOOLEAN :
           BnoTold(bNode, h, equal) /\ (equal => len = BnoSize) => BnoTold(bNode', h, equal)
  <2> DEFINE e == BnoSpoken(bNode, says, len)
  <2>1. bNode \in BnoNode /\ says \in Seq(BnoSays) /\ len \in Nat \ {0}
    BY <1>4, <1>5 DEF BnoInv
  <2>2. /\ e \in BnoNode /\ e.out = o \o x /\ x \in Seq(BnoMsg)
        /\ o # << >> => e.out # << >> /\ e.out[1] = o[1]
        /\ \A h \in Seq(BnoNote), equal \in BOOLEAN :
             BnoTold(bNode, h, equal) /\ (equal => len = BnoSize) => BnoTold(e, h, equal)
    <3>1. /\ e \in BnoNode /\ e.out = o \o x /\ x \in Seq(BnoMsg)
          /\ o # << >> => e.out # << >> /\ e.out[1] = o[1]
      BY <2>1, BnoTells DEF x
    <3>2. \A h \in Seq(BnoNote), equal \in BOOLEAN :
            BnoTold(bNode, h, equal) /\ (equal => len = BnoSize) => BnoTold(e, h, equal)
      BY <2>1, BnoTells DEF x
    <3> HIDE DEF e
    <3> QED BY <3>1, <3>2
  <2> HIDE DEF e
  <2>3. bNode' = e
    BY <1>3 DEF e, x, BnoSpoken
  <2> QED BY <2>2, <2>3
<1>7. Where(x, EndMsgs) = {}
  BY <1>4, <1>5, BnoWordsEnd DEF BnoInv, x
<1>8. o \in Seq(BnoMsg) /\ BnoReads(b, o, bDrv.read)
  BY BnoHere DEF BnoInv, BnoGood
<1>9. Where(bNode'.out, EndMsgs) = Where(o, EndMsgs)
  BY <1>6, <1>7, <1>8, WhereConcat
<1>10. BnoReads(b, bNode'.out, bDrv.read)
  BY <1>8, <1>9 DEF BnoReads
<1>11. BnoGood(bDrv', bNode'.out)
  BY <1>2, <1>10 DEF BnoInv, BnoGood
<1>12. ASSUME BnoSure
       PROVE  /\ BnoTold(bNode', bDrv'.handled, bEnv.equal)
              /\ BnoFetches(bDrv'.bus, bNode'.out, bEnv.overlap, bEnv.equal)
  <2>1. BnoTold(bNode, bDrv.handled, bEnv.equal) /\ BnoFetches(b, o, bEnv.overlap, bEnv.equal)
    BY <1>12 DEF BnoInv
  <2>2. BnoTold(bNode', bDrv'.handled, bEnv.equal)
    BY <1>2, <1>4, <1>6, <2>1, BnoHere
  <2>3. BnoFetches(b, bNode'.out, bEnv.overlap, bEnv.equal)
    <3>1. bEnv.overlap \in BOOLEAN
      BY BnoHere
    <3> QED BY <1>6, <2>1, <3>1, BnoFetchSame
  <2> QED BY <1>2, <2>2, <2>3
<1>13. BnoSure' = BnoSure
  BY <1>2 DEF BnoSure
<1> QED BY <1>2, <1>6, <1>11, <1>12, <1>13 DEF BnoInv

LEMMA TailAppend ==
  ASSUME NEW S, NEW s \in Seq(S), s # << >>, NEW r \in S
  PROVE  Append(s, r) # << >> /\ Head(Append(s, r)) = Head(s) /\ Tail(Append(s, r)) = Append(Tail(s), r)
OBVIOUS

LEMMA BnoFetchedNext == BnoInv /\ Bno!Fetched => BnoInv'
<1> SUFFICES ASSUME BnoInv, Bno!Fetched PROVE BnoInv'
  OBVIOUS
<1> DEFINE b == bDrv.bus
           o == bNode.out
           n == b[1].len
           left == o[1].len - bNode.got
           d == Bno!callback(bDrv, n)
           t == Tail(b)
<1>1. /\ b # << >> /\ b[1].read /\ bEnv' = bEnv
      /\ bDrv' = [d EXCEPT !.bus = Tail(@)]
  BY DEF Bno!Fetched, Bno!Idle
<1>2. /\ BnoGood(bDrv, o) /\ b \in Seq(BnoRq) /\ o \in Seq(BnoMsg) /\ bNode \in BnoNode
      /\ bDrv.handled \in Seq(BnoNote) /\ bEnv.overlap \in BOOLEAN /\ bEnv.equal \in BOOLEAN
      /\ bNode.got \in Int
  BY BnoHere DEF BnoInv
<1>3. b[1] \in BnoRq /\ Head(b) = b[1] /\ n \in Int /\ t \in Seq(BnoRq) /\ 1 \in DOMAIN b
  <2>1. b[1] \in BnoRq /\ Head(b) = b[1] /\ t \in Seq(BnoRq) /\ 1 \in DOMAIN b
    BY <1>1, <1>2, EmptySeq, HeadTailProperties
  <2>2. n \in Int
    BY <1>1, <2>1 DEF BnoRq
  <2> QED BY <2>1, <2>2
<1>4. Head(b) \notin ReadRqs
  BY <1>1, <1>3 DEF ReadRqs
<1>5. ASSUME BnoSure
      PROVE  /\ BnoTold(bNode, bDrv.handled, bEnv.equal)
             /\ BnoMayFetch(n, o, bEnv.overlap, bEnv.equal)
             /\ BnoFetches(t, o, bEnv.overlap, bEnv.equal)
             /\ bEnv.overlap \/ BnoNoFetch(t)
  <2>1. BnoTold(bNode, bDrv.handled, bEnv.equal) /\ BnoFetches(b, o, bEnv.overlap, bEnv.equal)
    BY <1>5 DEF BnoInv
  <2>2. BnoMayFetch(n, o, bEnv.overlap, bEnv.equal)
    BY <1>1, <1>3, <2>1 DEF BnoFetches
  <2>3. BnoFetches(t, o, bEnv.overlap, bEnv.equal) /\ (bEnv.overlap \/ BnoNoFetch(t))
    BY <1>1, <1>2, <1>3, <2>1, BnoFetchLess
  <2> QED BY <2>1, <2>2, <2>3
<1>6. BnoSure' = BnoSure
  BY <1>1 DEF BnoSure
<1>7. ASSUME NEW p \in Seq(BnoMsg), BnoGood(d, p), d.bus # << >>, Head(d.bus) = Head(b)
      PROVE  BnoGood(bDrv', p) /\ bDrv'.handled = d.handled /\ bDrv'.bus = Tail(d.bus)
  <2>1. AtMostOne(Where(p, EndMsgs))
    BY <1>7 DEF BnoGood, BnoReads
  <2> QED BY <1>1, <1>4, <1>7, <2>1, BnoLeaves
<1>8. CASE o = << >>
  <2>1. d = bDrv /\ bNode' = bNode
    BY <1>8 DEF Bno!callback, Bno!Fetched
  <2>2. BnoGood(bDrv', o) /\ bDrv'.handled = bDrv.handled /\ bDrv'.bus = t
    BY <1>1, <1>2, <1>7, <2>1
  <2> QED BY <1>1, <1>2, <1>5, <1>6, <2>1, <2>2 DEF BnoInv
<1>9. CASE o # << >> /\ left + 1 > n
  <2> DEFINE r == [read |-> TRUE, len |-> left + 1]
  <2>1. d = Bno!trypush(bDrv, Bno!Read(left + 1)) /\ bNode' = [bNode EXCEPT !.got = @ + n - 1]
    BY <1>9 DEF Bno!callback, Bno!Fetched, Bno!Left
  <2>2. left \in Int /\ o[1].len \in Int
    <3>1. o[1] \in BnoMsg
      BY <1>2, <1>9, EmptySeq
    <3> QED BY <1>2, <3>1 DEF BnoMsg
  <2>3. /\ BnoGood(d, o) /\ d.handled = bDrv.handled
        /\ d.bus = b \/ d.bus = Append(b, r)
    BY <1>2, <2>1, <2>2, BnoPushes
  <2>4. r \in BnoRq /\ r.len = left + 1
    BY <2>2 DEF BnoRq
  <2>5. bNode' \in BnoNode /\ bNode'.out = o /\ bNode'.got = bNode.got + n - 1 /\ bNode'.said = bNode.said
    BY <1>2, <1>3, <2>1 DEF BnoNode
  <2> HIDE DEF r, d, left
  <2>6. d.bus # << >> /\ Head(d.bus) = Head(b) /\ (Tail(d.bus) = t \/ Tail(d.bus) = Append(t, r))
    <3>1. CASE d.bus = b
      BY <1>1, <3>1
    <3>2. CASE d.bus = Append(b, r)
      <4>1. b \in Seq(BnoRq) /\ b # << >> /\ r \in BnoRq
        BY <1>1, <1>2, <2>4
      <4>2. Append(b, r) # << >> /\ Head(Append(b, r)) = Head(b) /\ Tail(Append(b, r)) = Append(t, r)
        BY <4>1, TailAppend
      <4> QED BY <3>2, <4>2
    <3> QED BY <2>3, <3>1, <3>2
  <2>7. BnoGood(bDrv', o) /\ bDrv'.handled = bDrv.handled /\ bDrv'.bus = Tail(d.bus)
    BY <1>2, <1>7, <2>3, <2>6
  <2>8. ASSUME BnoSure
        PROVE  /\ BnoTold(bNode', bDrv'.handled, bEnv.equal)
               /\ BnoFetches(bDrv'.bus, bNode'.out, bEnv.overlap, bEnv.equal)
    <3>1. bNode.got = 0 /\ o[1].len > 0 /\ (bEnv.equal => o[1].len = BnoSize) /\ left = o[1].len
      <4>1. 1 \in DOMAIN o
        BY <1>2, <1>9, EmptySeq
      <4>2. bNode.got = 0 /\ o[1].len > 0 /\ (bEnv.equal => o[1].len = BnoSize)
        BY <1>5, <2>8, <4>1 DEF BnoTold
      <4> QED BY <2>2, <4>2 DEF left
    <3>2. n = 1
      <4>1. BnoMayFetch(n, o, bEnv.overlap, bEnv.equal)
        BY <1>5, <2>8
      <4>2. ~bEnv.overlap => n = 1
        BY <1>3, <1>9, <2>2, <3>1, <4>1 DEF BnoMayFetch
      <4>3. bEnv.equal => n = 1
        BY <1>3, <1>9, <2>2, <3>1, <4>1 DEF BnoMayFetch
      <4> QED BY <2>8, <4>2, <4>3 DEF BnoSure
    <3>3. bNode'.got = 0
      BY <2>5, <3>1, <3>2
    <3>4. BnoTold(bNode', bDrv'.handled, bEnv.equal)
      BY <1>5, <2>5, <2>7, <2>8, <3>3 DEF BnoTold
    <3>5. BnoMayFetch(r.len, o, bEnv.overlap, bEnv.equal)
      BY <1>9, <2>2, <2>4, <3>1 DEF BnoMayFetch
    <3>6. BnoFetches(Tail(d.bus), o, bEnv.overlap, bEnv.equal)
      BY <1>2, <1>3, <1>5, <2>4, <2>6, <2>8, <3>5, BnoFetchAdded
    <3> QED BY <2>5, <2>7, <3>4, <3>6
  <2> QED BY <1>1, <1>2, <1>6, <2>5, <2>7, <2>8 DEF BnoInv
<1>10. CASE o # << >> /\ ~(left + 1 > n)
  <2> DEFINE whole == bNode.got = 0
             p == Tail(o)
  <2>1. d = Bno!Handled(bDrv, o[1], whole) /\ bNode' = [bNode EXCEPT !.out = Tail(@), !.got = 0]
    BY <1>10 DEF Bno!callback, Bno!Fetched, Bno!Left
  <2>2. /\ BnoGood(d, p) /\ BnoAdds(d, bDrv)
        /\ d.handled = Append(bDrv.handled, [n |-> o[1].n, whole |-> whole])
    BY <1>2, <1>10, <2>1, BnoHandled
  <2>3. /\ bNode' \in BnoNode /\ bNode'.out = p
        /\ \A h \in Seq(BnoNote), equal \in BOOLEAN :
             BnoTold(bNode, h, equal) => BnoTold(bNode', Append(h, [n |-> o[1].n, whole |-> TRUE]), equal)
    BY <1>2, <1>10, <2>1, BnoTalked
  <2>4. p \in Seq(BnoMsg)
    BY <1>2, <1>10
  <2> HIDE DEF d, p
  <2>5. /\ d.bus # << >> /\ Head(d.bus) = Head(b)
        /\ BnoAdds([bus |-> Tail(d.bus)], [bus |-> t])
    <3>1. CASE d.bus = b
      BY <1>1, <3>1 DEF BnoAdds
    <3>2. ASSUME NEW op \in BnoOp, d.bus = Append(b, [read |-> FALSE, op |-> op])
          PROVE  /\ d.bus # << >> /\ Head(d.bus) = Head(b)
                 /\ BnoAdds([bus |-> Tail(d.bus)], [bus |-> t])
      <4> DEFINE r == [read |-> FALSE, op |-> op]
      <4>1. r \in BnoRq
        BY DEF BnoRq
      <4>2. d.bus = Append(b, r)
        BY <3>2
      <4> HIDE DEF r
      <4>3. d.bus # << >> /\ Head(d.bus) = Head(b) /\ Tail(d.bus) = Append(t, r)
        BY <1>1, <1>2, <4>1, <4>2, TailAppend
      <4> QED BY <4>3 DEF BnoAdds, r
    <3> QED BY <2>2, <3>1, <3>2 DEF BnoAdds
  <2>6. BnoGood(bDrv', p) /\ bDrv'.handled = d.handled /\ bDrv'.bus = Tail(d.bus)
    BY <1>7, <2>2, <2>4, <2>5
  <2>7. ASSUME BnoSure
        PROVE  /\ BnoTold(bNode', bDrv'.handled, bEnv.equal)
               /\ BnoFetches(bDrv'.bus, bNode'.out, bEnv.overlap, bEnv.equal)
    <3>1. whole
      BY <1>5, <2>7 DEF BnoTold
    <3>2. d.handled = Append(bDrv.handled, [n |-> o[1].n, whole |-> TRUE])
      BY <2>2, <3>1
    <3>3. BnoTold(bNode', bDrv'.handled, bEnv.equal)
      BY <1>2, <1>5, <2>3, <2>6, <2>7, <3>2
    <3>4. BnoFetches(t, p, bEnv.overlap, bEnv.equal)
      BY <1>2, <1>5, <2>7, BnoFetchSame
    <3>5. BnoFetches(Tail(d.bus), p, bEnv.overlap, bEnv.equal)
      <4> DEFINE f == [bus |-> t]
                 g == [bus |-> Tail(d.bus)]
      <4>1. f.bus = t /\ g.bus = Tail(d.bus) /\ BnoAdds(g, f)
        BY <2>5
      <4>2. f.bus \in Seq(BnoRq) /\ BnoFetches(f.bus, p, bEnv.overlap, bEnv.equal)
        BY <1>3, <3>4
      <4> HIDE DEF f, g
      <4>3. BnoFetches(g.bus, p, bEnv.overlap, bEnv.equal)
        <5>1. bEnv.overlap \in BOOLEAN /\ BnoAdds(g, f)
          BY <1>2, <4>1
        <5> QED BY <4>2, <5>1, BnoAddsFetches
      <4> QED BY <4>1, <4>3
    <3> QED BY <2>3, <2>6, <3>3, <3>5
  <2> QED BY <1>1, <1>2, <1>6, <2>3, <2>6, <2>7 DEF BnoInv
<1> QED BY <1>8, <1>9, <1>10

LEMMA BnoNext == BnoInv /\ [Bno!Next]_(Bno!vars) => BnoInv'
<1> SUFFICES ASSUME BnoInv, [Bno!Next]_(Bno!vars) PROVE BnoInv'
  OBVIOUS
<1>1. CASE Bno!poll BY <1>1, BnoPoll
<1>2. CASE Bno!Request BY <1>2, BnoRequest
<1>3. CASE Bno!Wrote BY <1>3, BnoWrote
<1>4. CASE Bno!Fetched BY <1>4, BnoFetchedNext
<1>5. CASE Bno!Report BY <1>5, BnoReport
<1>6. CASE UNCHANGED Bno!vars
  <2>1. bEnv' = bEnv /\ bDrv' = bDrv /\ bNode' = bNode
    BY <1>6 DEF Bno!vars
  <2> QED BY <2>1 DEF BnoInv, BnoSure
<1> QED BY <1>1, <1>2, <1>3, <1>4, <1>5, <1>6 DEF Bno!Next

\* Each message of the sensor is handled once, whole and in order, and of each
\* transaction one operation is sent, when the one before was done: for all
\* sizes of the bus and the queues, any number of requests and messages, and
\* whatever the bus drops; messages are whole unless poll() overlaps with one of
\* another length (BNO085.h:408-477, 609-677).
THEOREM BnoAlwaysFetched == Bno!Spec => []BnoFetched
<1>1. BnoInv => BnoFetched
  <2> SUFFICES ASSUME BnoInv PROVE BnoFetched
    OBVIOUS
  <2>1. Bno!Whole
    BY BnoHere DEF BnoInv, BnoSure, BnoTold, Bno!Whole
  <2>2. bDrv.ok /\ bDrv.sent \in Seq(BnoOp)
       /\ BnoSide("write", bDrv.write, bDrv.made, bDrv.sent, bDrv.ended)
       /\ BnoSide("read", bDrv.read, bDrv.made, bDrv.sent, bDrv.ended)
    BY DEF BnoInv, BnoGood, BnoOrderly, Queues, BnoDrv
  <2>3. ASSUME NEW j \in DOMAIN bDrv.sent, NEW k \in DOMAIN bDrv.sent, bDrv.sent[k].type # "command"
        PROVE  /\ bDrv.sent[k].k = 1
               /\ j < k /\ bDrv.sent[j].type = bDrv.sent[k].type =>
                    bDrv.sent[j].n < bDrv.sent[k].n /\ bDrv.sent[j].n \in bDrv.ended
    <3>1. bDrv.sent[k].type \in {"write", "read", "command"}
      <4>1. bDrv.sent[k] \in BnoOp
        BY <2>2
      <4> QED BY <4>1 DEF BnoOp
    <3>2. CASE bDrv.sent[k].type = "write"
      BY <2>2, <3>2 DEF BnoSide, BnoTurns
    <3>3. CASE bDrv.sent[k].type = "read"
      BY <2>2, <3>3 DEF BnoSide, BnoTurns
    <3> QED BY <2>3, <3>1, <3>2, <3>3
  <2>4. Bno!OneByOne
    BY <2>2, <2>3 DEF Bno!OneByOne
  <2> QED BY <2>1, <2>4 DEF BnoFetched
<1> QED BY <1>1, BnoInit, BnoNext, PTL DEF Bno!Spec

-----------------------------------------------------------------------------

(***************************************************************************)
(* PDO: nodes, numbers and maps                                            *)
(***************************************************************************)

PdoObjects == DOMAIN PdoWidth
PdoLen(d)  == Len(PdoMap[d])
PdoCell    == [cob : Nat, map : Seq(PdoObjects), count : Nat]
PdoNode    == [PdoNodes -> [Pdo!Dirs -> [PdoNs -> PdoCell]]]

\* The writes of enablePDO one by one, and all that there are.
PdoWriteAt(i, d, n, y) ==
  IF y \in 4 .. PdoLen(d) + 3 THEN Pdo!Write(i, d, n, "map", <<y - 3, PdoMap[d][y - 3]>>)
  ELSE CASE y = 1 -> Pdo!Write(i, d, n, "disable", 0)
         [] y = 2 -> Pdo!Write(i, d, n, "type", 0)
         [] y = 3 -> Pdo!Write(i, d, n, "count", 0)
         [] y = PdoLen(d) + 4 -> Pdo!Write(i, d, n, "count", PdoLen(d))
         [] OTHER -> Pdo!Write(i, d, n, "enable", Pdo!COB(i, d, n))

PdoOf(w) == <<w.node, w.dir, w.n>>

PdoWrites == {PdoWriteAt(i, d, n, y) : i \in PdoNodes, d \in Pdo!Dirs, n \in PdoNs, y \in Nat}

LEMMA PdoNumbers ==
  /\ PdoNodes \subseteq Nat /\ PdoNs \subseteq Nat
  /\ \A d \in Pdo!Dirs : PdoMap[d] \in Seq(PdoObjects) /\ PdoLen(d) \in Nat
                         /\ DOMAIN PdoMap[d] = 1 .. PdoLen(d)
  /\ \A i \in PdoNodes, d \in Pdo!Dirs, n \in PdoNs : Pdo!COB(i, d, n) \in Nat \ {0}
<1>1. PdoNodes \subseteq 1 .. 127 /\ PdoNs \subseteq 1 .. 4
  BY PdoAssumption
<1>2. ASSUME NEW d \in Pdo!Dirs
      PROVE  PdoMap[d] \in Seq(PdoObjects) /\ PdoLen(d) \in Nat /\ DOMAIN PdoMap[d] = 1 .. PdoLen(d)
  <2>1. PdoMap[d] \in Seq(PdoObjects)
    BY PdoAssumption DEF Pdo!Dirs, PdoObjects
  <2> QED BY <2>1 DEF PdoLen
<1>3. ASSUME NEW i \in PdoNodes, NEW d \in Pdo!Dirs, NEW n \in PdoNs
      PROVE  Pdo!COB(i, d, n) \in Nat \ {0}
  <2>1. i \in 1 .. 127 /\ n \in 1 .. 4
    BY <1>1
  <2> QED BY <2>1 DEF Pdo!COB
<1> QED BY <1>1, <1>2, <1>3

LEMMA PdoOfWrite ==
  ASSUME NEW i, NEW d, NEW n, NEW y
  PROVE  PdoOf(PdoWriteAt(i, d, n, y)) = <<i, d, n>>
BY DEF PdoOf, PdoWriteAt, Pdo!Write

LEMMA PdoWritesOf ==
  ASSUME NEW w \in PdoWrites
  PROVE  w.node \in PdoNodes /\ w.dir \in Pdo!Dirs /\ w.n \in PdoNs
<1>1. PICK i \in PdoNodes, d \in Pdo!Dirs, n \in PdoNs, y \in Nat : w = PdoWriteAt(i, d, n, y)
  BY DEF PdoWrites
<1>2. PdoOf(w) = <<i, d, n>>
  BY <1>1, PdoOfWrite
<1> QED BY <1>2 DEF PdoOf

\* Tpdos of different nodes or numbers have different ids, and none that of an
\* answer to an SDO: what the ranges of IDs and numbers are for.
LEMMA PdoIdsDiffer ==
  ASSUME NEW i \in PdoNodes, NEW n \in PdoNs, NEW j \in PdoNodes, NEW m \in PdoNs
  PROVE  /\ Pdo!COB(i, "tx", n) = Pdo!COB(j, "tx", m) => i = j /\ n = m
         /\ Pdo!COB(i, "tx", n) # Pdo!SDOAnswer(j)
<1>1. i \in 1 .. 127 /\ j \in 1 .. 127 /\ n \in 1 .. 4 /\ m \in 1 .. 4
  BY PdoAssumption
<1> QED BY <1>1 DEF Pdo!COB, Pdo!SDOAnswer

LEMMA PdoWriteKinds ==
  ASSUME NEW i \in PdoNodes, NEW d \in Pdo!Dirs, NEW n \in PdoNs
  PROVE  /\ PdoWriteAt(i, d, n, 1) = Pdo!Write(i, d, n, "disable", 0)
         /\ PdoWriteAt(i, d, n, 2) = Pdo!Write(i, d, n, "type", 0)
         /\ PdoWriteAt(i, d, n, 3) = Pdo!Write(i, d, n, "count", 0)
         /\ \A k \in 1 .. PdoLen(d) : PdoWriteAt(i, d, n, k + 3) = Pdo!Write(i, d, n, "map", <<k, PdoMap[d][k]>>)
         /\ PdoWriteAt(i, d, n, PdoLen(d) + 4) = Pdo!Write(i, d, n, "count", PdoLen(d))
         /\ PdoWriteAt(i, d, n, PdoLen(d) + 5) = Pdo!Write(i, d, n, "enable", Pdo!COB(i, d, n))
<1> DEFINE l == PdoLen(d)
<1>1. l \in Nat
  BY PdoNumbers
<1> HIDE DEF l
<1>2. ASSUME NEW k \in 1 .. l
      PROVE  PdoWriteAt(i, d, n, k + 3) = Pdo!Write(i, d, n, "map", <<k, PdoMap[d][k]>>)
  <2> DEFINE y == k + 3
  <2>1. y \in 4 .. l + 3 /\ y - 3 = k /\ y # 1 /\ y # 2 /\ y # 3
    BY <1>1
  <2> HIDE DEF y
  <2>2. PdoWriteAt(i, d, n, y) = Pdo!Write(i, d, n, "map", <<y - 3, PdoMap[d][y - 3]>>)
    BY <2>1, Zenon DEF PdoWriteAt, l
  <2>3. PdoWriteAt(i, d, n, y) = Pdo!Write(i, d, n, "map", <<k, PdoMap[d][k]>>)
    BY <2>1, <2>2
  <2> QED BY <2>3 DEF y
<1>3. PdoWriteAt(i, d, n, l + 4) = Pdo!Write(i, d, n, "count", l)
  <2> DEFINE y == l + 4
  <2>1. y \notin 4 .. l + 3 /\ y # 1 /\ y # 2 /\ y # 3
    BY <1>1
  <2>2. y = l + 4
    OBVIOUS
  <2> HIDE DEF y
  <2> QED BY <2>1, <2>2 DEF PdoWriteAt, l
<1>4. PdoWriteAt(i, d, n, l + 5) = Pdo!Write(i, d, n, "enable", Pdo!COB(i, d, n))
  <2> DEFINE y == l + 5
  <2>1. y \notin 4 .. l + 3 /\ y # 1 /\ y # 2 /\ y # 3 /\ y # l + 4
    BY <1>1
  <2>2. y = l + 5
    OBVIOUS
  <2> HIDE DEF y
  <2> QED BY <2>1, <2>2 DEF PdoWriteAt, l
<1>5. 1 \notin 4 .. l + 3 /\ 2 \notin 4 .. l + 3 /\ 3 \notin 4 .. l + 3
  BY <1>1
<1>6. PdoWriteAt(i, d, n, 1) = Pdo!Write(i, d, n, "disable", 0)
  BY <1>1, <1>5 DEF PdoWriteAt, l
<1>7. PdoWriteAt(i, d, n, 2) = Pdo!Write(i, d, n, "type", 0)
  BY <1>1, <1>5 DEF PdoWriteAt, l
<1>8. PdoWriteAt(i, d, n, 3) = Pdo!Write(i, d, n, "count", 0)
  BY <1>1, <1>5 DEF PdoWriteAt, l
<1> QED BY <1>2, <1>3, <1>4, <1>6, <1>7, <1>8 DEF l

\* enablePDO makes the writes of PdoWriteAt.
LEMMA PdoWritesAre ==
  ASSUME NEW i \in PdoNodes, NEW d \in Pdo!Dirs, NEW n \in PdoNs
  PROVE  /\ Pdo!Writes(i, d, n) \in Seq(PdoWrites)
         /\ Len(Pdo!Writes(i, d, n)) = PdoLen(d) + 5
         /\ \A y \in 1 .. PdoLen(d) + 5 : Pdo!Writes(i, d, n)[y] = PdoWriteAt(i, d, n, y)
<1> DEFINE l == PdoLen(d)
           Item(y) == PdoWriteAt(i, d, n, y)
           a == <<Pdo!Write(i, d, n, "disable", 0), Pdo!Write(i, d, n, "type", 0),
                  Pdo!Write(i, d, n, "count", 0)>>
           b == [k \in DOMAIN PdoMap[d] |-> Pdo!Write(i, d, n, "map", <<k, PdoMap[d][k]>>)]
           c == <<Pdo!Write(i, d, n, "count", Len(PdoMap[d])),
                  Pdo!Write(i, d, n, "enable", Pdo!COB(i, d, n))>>
<1>1. l \in Nat /\ DOMAIN PdoMap[d] = 1 .. l
  BY PdoNumbers
<1>2. \A y \in Nat : Item(y) \in PdoWrites
  BY DEF PdoWrites
<1>3. a = <<Item(1), Item(2), Item(3)>>
  BY PdoWriteKinds
<1>4. c = <<Item(l + 4), Item(l + 5)>>
  BY PdoWriteKinds DEF PdoLen
<1>5. \A k \in 1 .. l : b[k] = Item(k + 3)
  BY <1>1, PdoWriteKinds
<1>6. DOMAIN b = 1 .. l /\ b = [k \in 1 .. l |-> b[k]]
  BY <1>1
<1>7. Pdo!Writes(i, d, n) = (a \o b) \o c
  BY DEF Pdo!Writes
<1> HIDE DEF a, b, c, Item, l
<1>8. a \in Seq(PdoWrites) /\ Len(a) = 3 /\ a[1] = Item(1) /\ a[2] = Item(2) /\ a[3] = Item(3)
  <2>1. Item(1) \in PdoWrites /\ Item(2) \in PdoWrites /\ Item(3) \in PdoWrites
    BY <1>2
  <2> QED BY <1>3, <2>1
<1>9. c \in Seq(PdoWrites) /\ Len(c) = 2 /\ c[1] = Item(l + 4) /\ c[2] = Item(l + 5)
  <2>1. Item(l + 4) \in PdoWrites /\ Item(l + 5) \in PdoWrites
    BY <1>1, <1>2
  <2> QED BY <1>4, <2>1
<1>10. b \in Seq(PdoWrites) /\ Len(b) = l
  <2>1. \A k \in 1 .. l : b[k] \in PdoWrites
    <3> SUFFICES ASSUME NEW k \in 1 .. l PROVE b[k] \in PdoWrites
      OBVIOUS
    <3>1. k + 3 \in Nat
      BY <1>1
    <3> QED BY <1>2, <1>5, <3>1
  <2>2. b \in [1 .. l -> PdoWrites]
    BY <1>6, <2>1
  <2>3. b \in Seq(PdoWrites)
    BY <1>1, <2>2, SeqDef
  <2> QED BY <1>1, <1>6, <2>3
<1>11. /\ a \o b \in Seq(PdoWrites) /\ Len(a \o b) = 3 + l
       /\ \A y \in 1 .. 3 + l : (a \o b)[y] = IF y <= 3 THEN a[y] ELSE b[y - 3]
  <2>1. /\ a \o b \in Seq(PdoWrites) /\ Len(a \o b) = Len(a) + Len(b)
        /\ \A y \in 1 .. Len(a) + Len(b) : (a \o b)[y] = IF y <= Len(a) THEN a[y] ELSE b[y - Len(a)]
    BY <1>8, <1>10, ConcatProperties
  <2> QED BY <1>8, <1>10, <2>1
<1> DEFINE ab == a \o b
<1> HIDE DEF ab
<1>12. /\ ab \o c \in Seq(PdoWrites) /\ Len(ab \o c) = l + 5
       /\ \A y \in 1 .. l + 5 : (ab \o c)[y] = IF y <= l + 3 THEN ab[y] ELSE c[y - (l + 3)]
  <2>1. ab \in Seq(PdoWrites) /\ Len(ab) = l + 3 /\ Len(c) = 2 /\ c \in Seq(PdoWrites) /\ l \in Nat
    BY <1>1, <1>9, <1>11 DEF ab
  <2>2. /\ ab \o c \in Seq(PdoWrites) /\ Len(ab \o c) = Len(ab) + Len(c)
        /\ \A y \in 1 .. Len(ab) + Len(c) :
             (ab \o c)[y] = IF y <= Len(ab) THEN ab[y] ELSE c[y - Len(ab)]
    BY <2>1, ConcatProperties
  <2>3. Len(ab) + Len(c) = l + 5
    BY <2>1
  <2> QED BY <2>1, <2>2, <2>3
<1>13. ASSUME NEW y \in 1 .. l + 5
       PROVE  (ab \o c)[y] = Item(y)
  <2>1. CASE y <= 3
    <3>1. y \in 1 .. 3 + l /\ y <= l + 3 /\ (y = 1 \/ y = 2 \/ y = 3)
      BY <1>1, <2>1
    <3> QED BY <1>8, <1>11, <1>12, <2>1, <3>1 DEF ab
  <2>2. CASE ~(y <= 3) /\ y <= l + 3
    <3>1. y \in 1 .. 3 + l /\ y - 3 \in 1 .. l /\ y - 3 + 3 = y
      BY <1>1, <2>2
    <3>2. ab[y] = b[y - 3]
      BY <1>11, <2>2, <3>1 DEF ab
    <3>3. b[y - 3] = Item(y - 3 + 3)
      BY <1>5, <3>1
    <3> QED BY <1>12, <2>2, <3>1, <3>2, <3>3
  <2>3. CASE ~(y <= l + 3)
    <3>1. (y = l + 4 /\ y - (l + 3) = 1) \/ (y = l + 5 /\ y - (l + 3) = 2)
      BY <1>1, <2>3
    <3> QED BY <1>9, <1>12, <2>3, <3>1
  <2> QED BY <2>1, <2>2, <2>3
<1> QED BY <1>7, <1>12, <1>13 DEF ab, Item, l

(***************************************************************************)
(* PDO: the invariant.  While no write is lost, every PDO that was enabled *)
(* has a block of writes in the wire, of which some are carried out and    *)
(* the node is as far as these lead; nobody else writes to it.             *)
(***************************************************************************)

\* The writes to a PDO are those at p + 1, p + 2, ... of w, as far as w has them:
\* -p of them are not in w any more.
PdoBlock(w, i, d, n, p) ==
  /\ p + PdoLen(d) + 5 <= Len(w)
  /\ \A x \in DOMAIN w : IF x - p \in 1 .. PdoLen(d) + 5 THEN w[x] = PdoWriteAt(i, d, n, x - p)
                         ELSE PdoOf(w[x]) # <<i, d, n>>

PdoFilled(c, d, m) == \A k \in 1 .. PdoLen(d) : k <= m => k \in DOMAIN c.map /\ c.map[k] = PdoMap[d][k]

PdoDone(c, i, d, n) == /\ c.cob = Pdo!COB(i, d, n)
                       /\ c.count = PdoLen(d) /\ PdoFilled(c, d, PdoLen(d))

\* A PDO of a node after m writes of its block.
PdoStage(c, i, d, n, m) ==
  LET e == PdoLen(d) + 5 IN
  /\ m <= 0 /\ ~pEnv.preset => c.cob = Pdo!Disabled \/ PdoDone(c, i, d, n)
  /\ m >= 1 /\ m < e => c.cob = Pdo!Disabled
  /\ m >= 3 /\ m < e - 1 => c.count = 0 /\ PdoFilled(c, d, m - 3)
  /\ m = e - 1 => c.count = PdoLen(d) /\ PdoFilled(c, d, PdoLen(d))
  /\ m >= e => PdoDone(c, i, d, n)

PdoId(c, i, d, n) == c.cob \in {Pdo!Disabled, Pdo!COB(i, d, n)}

PdoUntouched(w, i, d, n) == \A x \in DOMAIN w : PdoOf(w[x]) # <<i, d, n>>

PdoOne(w, c, enabled, i, d, n) ==
  /\ PdoId(c, i, d, n)
  /\ IF <<i, d, n>> \in enabled
     THEN \E p \in Int : PdoBlock(w, i, d, n, p) /\ PdoStage(c, i, d, n, -p)
     ELSE PdoUntouched(w, i, d, n) /\ (~pEnv.preset => c.cob = Pdo!Disabled)

PdoTriples == PdoNodes \X Pdo!Dirs \X PdoNs
PdoSeen == [early : BOOLEAN, late : BOOLEAN, wrote : BOOLEAN, strays : Nat, enabled : SUBSET PdoTriples]

PdoType == /\ pNode \in PdoNode /\ pWire \in Seq(PdoWrites) /\ pSeen \in PdoSeen
           /\ pPdo \in Seq(PdoNodes \X PdoNs)

PdoTable == /\ \A k \in DOMAIN pPdo : <<pPdo[k][1], "tx", pPdo[k][2]>> \in pSeen.enabled
            /\ \A j, k \in DOMAIN pPdo : j # k => pPdo[j] # pPdo[k]

PdoTold == pSeen.late /\ pSeen.wrote /\ pSeen.strays = 0 /\ (~pEnv.preset => pSeen.early)

PdoSetUp == \A i \in PdoNodes, d \in Pdo!Dirs, n \in PdoNs :
              PdoOne(pWire, pNode[i][d][n], pSeen.enabled, i, d, n)

PdoInv == pEnv \in PdoEnvs /\ (~pEnv.lossy => PdoType /\ PdoTable /\ PdoTold /\ PdoSetUp)

LEMMA PdoBlockMoves ==
  ASSUME NEW w \in Seq(PdoWrites), w # << >>, NEW i, NEW d \in Pdo!Dirs, NEW n, NEW p \in Int,
         PdoBlock(w, i, d, n, p)
  PROVE  PdoBlock(Tail(w), i, d, n, p - 1)
<1>1. Len(w) \in Nat \ {0} /\ DOMAIN w = 1 .. Len(w) /\ PdoLen(d) \in Nat
  BY PdoNumbers, EmptySeq
<1>2. DOMAIN Tail(w) = 1 .. Len(w) - 1 /\ Len(Tail(w)) = Len(w) - 1
      /\ \A x \in 1 .. Len(w) - 1 : Tail(w)[x] = w[x + 1]
  BY <1>1
<1>3. p + PdoLen(d) + 5 <= Len(w)
  BY DEF PdoBlock
<1>4. p - 1 + PdoLen(d) + 5 <= Len(w) - 1
  BY <1>1, <1>3
<1>5. ASSUME NEW x \in 1 .. Len(w) - 1
      PROVE  IF x - (p - 1) \in 1 .. PdoLen(d) + 5
             THEN Tail(w)[x] = PdoWriteAt(i, d, n, x - (p - 1))
             ELSE PdoOf(Tail(w)[x]) # <<i, d, n>>
  <2> DEFINE y == x + 1
  <2>1. y \in DOMAIN w /\ x - (p - 1) = y - p
    BY <1>1
  <2>2. Tail(w)[x] = w[y]
    BY <1>2
  <2> HIDE DEF y
  <2>3. IF y - p \in 1 .. PdoLen(d) + 5 THEN w[y] = PdoWriteAt(i, d, n, y - p)
        ELSE PdoOf(w[y]) # <<i, d, n>>
    BY <2>1 DEF PdoBlock
  <2> QED BY <2>1, <2>2, <2>3
<1> QED BY <1>2, <1>4, <1>5 DEF PdoBlock

LEMMA PdoBlockKept ==
  ASSUME NEW w \in Seq(PdoWrites), NEW t \in Seq(PdoWrites), NEW i, NEW d \in Pdo!Dirs, NEW n,
         NEW p \in Int, PdoBlock(w, i, d, n, p), PdoUntouched(t, i, d, n)
  PROVE  PdoBlock(w \o t, i, d, n, p)
<1> DEFINE u == w \o t
           l == PdoLen(d)
<1>1. Len(w) \in Nat /\ DOMAIN w = 1 .. Len(w) /\ Len(t) \in Nat /\ DOMAIN t = 1 .. Len(t) /\ l \in Nat
  BY PdoNumbers
<1>2. Len(u) = Len(w) + Len(t)
      /\ \A x \in DOMAIN u : \/ x \in DOMAIN w /\ u[x] = w[x]
                             \/ x - Len(w) \in DOMAIN t /\ u[x] = t[x - Len(w)]
  BY Concatenated
<1> HIDE DEF u
<1>3. p + l + 5 <= Len(w)
  BY DEF PdoBlock
<1> HIDE DEF l
<1>4. p + l + 5 <= Len(u)
  BY <1>1, <1>2, <1>3
<1>5. ASSUME NEW x \in DOMAIN u
      PROVE  IF x - p \in 1 .. l + 5 THEN u[x] = PdoWriteAt(i, d, n, x - p)
             ELSE PdoOf(u[x]) # <<i, d, n>>
  <2>1. CASE x \in DOMAIN w /\ u[x] = w[x]
    BY <2>1 DEF PdoBlock, l
  <2>2. CASE x - Len(w) \in DOMAIN t /\ u[x] = t[x - Len(w)]
    <3> DEFINE y == x - Len(w)
    <3>1. y \in 1 .. Len(t)
      BY <1>1, <2>2
    <3>2. PdoOf(t[y]) # <<i, d, n>>
      BY <1>1, <3>1 DEF PdoUntouched
    <3>3. x - p \notin 1 .. l + 5
      <4>1. CASE x \in Int
        BY <1>1, <1>3, <3>1, <4>1
      <4>2. x \in Int
        <5>1. u \in Seq(PdoWrites)
          BY Concatenated DEF u
        <5> QED BY <5>1
      <4> QED BY <4>1, <4>2
    <3> QED BY <2>2, <3>2, <3>3
  <2> QED BY <1>2, <2>1, <2>2
<1> QED BY <1>4, <1>5 DEF PdoBlock, u, l

LEMMA PdoBlockNew ==
  ASSUME NEW w \in Seq(PdoWrites), NEW i \in PdoNodes, NEW d \in Pdo!Dirs, NEW n \in PdoNs,
         PdoUntouched(w, i, d, n)
  PROVE  PdoBlock(w \o Pdo!Writes(i, d, n), i, d, n, Len(w))
<1> DEFINE t == Pdo!Writes(i, d, n)
           u == w \o t
           l == PdoLen(d)
           m == Len(w)
<1>1. m \in Nat /\ DOMAIN w = 1 .. m /\ l \in Nat
  BY PdoNumbers
<1>2. t \in Seq(PdoWrites) /\ Len(t) = l + 5 /\ \A y \in 1 .. l + 5 : t[y] = PdoWriteAt(i, d, n, y)
  BY PdoWritesAre
<1> HIDE DEF t
<1>3. u \in Seq(PdoWrites) /\ Len(u) = m + Len(t)
      /\ \A x \in 1 .. m + Len(t) : u[x] = IF x <= m THEN w[x] ELSE t[x - m]
  BY <1>2, ConcatProperties
<1> HIDE DEF u, l, m
<1>4. DOMAIN u = 1 .. m + l + 5 /\ m + l + 5 <= Len(u)
  BY <1>1, <1>2, <1>3
<1>5. ASSUME NEW x \in 1 .. m + l + 5
      PROVE  IF x - m \in 1 .. l + 5 THEN u[x] = PdoWriteAt(i, d, n, x - m)
             ELSE PdoOf(u[x]) # <<i, d, n>>
  <2>1. u[x] = IF x <= m THEN w[x] ELSE t[x - m]
    BY <1>1, <1>2, <1>3
  <2>2. CASE x <= m
    <3>1. x \in DOMAIN w /\ x - m \notin 1 .. l + 5
      BY <1>1, <2>2
    <3> QED BY <2>1, <2>2, <3>1 DEF PdoUntouched
  <2>3. CASE ~(x <= m)
    <3>1. x - m \in 1 .. l + 5
      BY <1>1, <2>3
    <3> QED BY <1>2, <2>1, <2>3, <3>1
  <2> QED BY <2>2, <2>3
<1> QED BY <1>4, <1>5 DEF PdoBlock, u, t, l, m

LEMMA PdoUntouchedTail ==
  ASSUME NEW w \in Seq(PdoWrites), w # << >>, NEW i, NEW d, NEW n, PdoUntouched(w, i, d, n)
  PROVE  PdoUntouched(Tail(w), i, d, n)
<1>1. Len(w) \in Nat \ {0} /\ DOMAIN w = 1 .. Len(w)
  BY EmptySeq
<1>2. DOMAIN Tail(w) = 1 .. Len(w) - 1 /\ \A x \in 1 .. Len(w) - 1 : Tail(w)[x] = w[x + 1]
  BY <1>1
<1>3. \A x \in 1 .. Len(w) - 1 : x + 1 \in DOMAIN w
  BY <1>1
<1> QED BY <1>2, <1>3 DEF PdoUntouched

LEMMA PdoUntouchedBoth ==
  ASSUME NEW w \in Seq(PdoWrites), NEW t \in Seq(PdoWrites), NEW i, NEW d, NEW n,
         PdoUntouched(w, i, d, n), PdoUntouched(t, i, d, n)
  PROVE  PdoUntouched(w \o t, i, d, n)
<1> DEFINE u == w \o t
<1>1. \A x \in DOMAIN u : \/ x \in DOMAIN w /\ u[x] = w[x]
                          \/ x - Len(w) \in DOMAIN t /\ u[x] = t[x - Len(w)]
  BY Concatenated
<1> HIDE DEF u
<1>2. PdoUntouched(u, i, d, n)
  BY <1>1 DEF PdoUntouched
<1> QED BY <1>2 DEF u

LEMMA PdoWritesElsewhere ==
  ASSUME NEW i \in PdoNodes, NEW d \in Pdo!Dirs, NEW n \in PdoNs, NEW a, NEW b, NEW c,
         <<a, b, c>> # <<i, d, n>>
  PROVE  PdoUntouched(Pdo!Writes(i, d, n), a, b, c)
<1>1. DOMAIN Pdo!Writes(i, d, n) = 1 .. PdoLen(d) + 5
  BY PdoWritesAre, PdoNumbers
<1> QED BY <1>1, PdoWritesAre, PdoOfWrite DEF PdoUntouched

\* A write is carried out: its PDO is a step further.
LEMMA PdoPut ==
  ASSUME NEW i \in PdoNodes, NEW d \in Pdo!Dirs, NEW n \in PdoNs, NEW c \in PdoCell, PdoId(c, i, d, n),
         NEW m \in 0 .. PdoLen(d) + 4, PdoStage(c, i, d, n, m)
  PROVE  /\ Pdo!Put(c, PdoWriteAt(i, d, n, m + 1)) \in PdoCell
         /\ PdoId(Pdo!Put(c, PdoWriteAt(i, d, n, m + 1)), i, d, n)
         /\ PdoStage(Pdo!Put(c, PdoWriteAt(i, d, n, m + 1)), i, d, n, m + 1)
<1> DEFINE l == PdoLen(d)
           w == PdoWriteAt(i, d, n, m + 1)
           e == Pdo!Put(c, w)
           G(x) == x \in PdoCell /\ PdoId(x, i, d, n) /\ PdoStage(x, i, d, n, m + 1)
<1>1. l \in Nat /\ m \in Int /\ PdoMap[d] \in Seq(PdoObjects) /\ DOMAIN PdoMap[d] = 1 .. l
  BY PdoNumbers
<1>2. c.cob \in Nat /\ c.count \in Nat /\ c.map \in Seq(PdoObjects) /\ Len(c.map) \in Nat
      /\ DOMAIN c.map = 1 .. Len(c.map) /\ c.cob \in {Pdo!Disabled, Pdo!COB(i, d, n)}
  BY DEF PdoCell, PdoId
<1>3. Pdo!COB(i, d, n) \in Nat \ {0} /\ Pdo!Disabled = 0
  BY PdoNumbers DEF Pdo!Disabled
<1>4. /\ m >= 1 => c.cob = Pdo!Disabled
      /\ m >= 3 /\ m < l + 4 => c.count = 0 /\ PdoFilled(c, d, m - 3)
      /\ m = l + 4 => c.count = l /\ PdoFilled(c, d, l)
  BY <1>1 DEF PdoStage, l
<1> SUFFICES G(e)
  OBVIOUS
<1> HIDE DEF l, w
<1>5. CASE m = 0
  <2>1. w = Pdo!Write(i, d, n, "disable", 0)
    BY <1>5, PdoWriteKinds DEF w
  <2>2. e = [c EXCEPT !.cob = Pdo!Disabled]
    BY <2>1 DEF Pdo!Put, Pdo!Write
  <2> HIDE DEF e
  <2>3. e \in PdoCell /\ e.cob = Pdo!Disabled
    BY <1>2, <1>3, <2>2 DEF PdoCell
  <2>4. PdoStage(e, i, d, n, 1)
    BY <1>1, <2>3 DEF PdoStage, l
  <2> QED BY <1>5, <2>3, <2>4 DEF PdoId
<1>6. CASE m = 1
  <2>1. w = Pdo!Write(i, d, n, "type", 0)
    BY <1>6, PdoWriteKinds DEF w
  <2>2. e = c
    BY <2>1 DEF Pdo!Put, Pdo!Write
  <2> HIDE DEF e
  <2>3. PdoStage(e, i, d, n, 2)
    BY <1>1, <1>4, <1>6, <2>2 DEF PdoStage, l
  <2> QED BY <1>6, <2>2, <2>3
<1>7. CASE m = 2
  <2>1. w = Pdo!Write(i, d, n, "count", 0)
    BY <1>7, PdoWriteKinds DEF w
  <2>2. e = [c EXCEPT !.count = 0]
    BY <1>4, <1>7, <2>1 DEF Pdo!Put, Pdo!Write
  <2> HIDE DEF e
  <2>3. e \in PdoCell /\ e.cob = Pdo!Disabled /\ e.count = 0 /\ e.map = c.map
    BY <1>2, <1>4, <1>7, <2>2 DEF PdoCell
  <2>4. PdoFilled(e, d, 0)
    BY DEF PdoFilled
  <2>5. l = 0 => PdoFilled(e, d, PdoLen(d))
    BY <2>4 DEF l
  <2>6. PdoStage(e, i, d, n, 3)
    BY <1>1, <2>3, <2>4, <2>5 DEF PdoStage, l
  <2> QED BY <1>7, <2>3, <2>6 DEF PdoId
<1>8. CASE m \in 3 .. l + 2
  <2> DEFINE k == m - 2
  <2>1. k \in 1 .. l /\ m + 1 = k + 3 /\ m >= 3 /\ m < l + 4 /\ m - 3 = k - 1
    BY <1>1, <1>8
  <2> HIDE DEF k
  <2>2. w = Pdo!Write(i, d, n, "map", <<k, PdoMap[d][k]>>)
    BY <2>1, PdoWriteKinds DEF w, l
  <2>3. c.cob = Pdo!Disabled /\ c.count = 0 /\ PdoFilled(c, d, k - 1)
    BY <1>1, <1>4, <2>1
  <2> DEFINE top == IF k > Len(c.map) THEN k ELSE Len(c.map)
             new == [j \in 1 .. top |-> IF j = k THEN PdoMap[d][k] ELSE c.map[j]]
  <2>4. e = [c EXCEPT !.map = new]
    BY <2>2, <2>3 DEF Pdo!Put, Pdo!Write
  <2>5. top \in Nat /\ k <= top /\ Len(c.map) <= top /\ k \in Nat
    BY <1>2, <2>1
  <2>6. Len(c.map) >= k - 1
    <3>1. CASE k = 1
      BY <1>2, <3>1
    <3>2. CASE k # 1
      <4>1. k - 1 \in 1 .. l /\ k - 1 <= k - 1
        BY <1>1, <2>1, <3>2
      <4>2. k - 1 \in DOMAIN c.map
        BY <2>3, <4>1 DEF PdoFilled, l
      <4> QED BY <1>2, <4>2
    <3> QED BY <3>1, <3>2
  <2>7. \A j \in 1 .. top : j = k \/ j \in DOMAIN c.map
    BY <1>2, <2>5, <2>6
  <2>8. new \in Seq(PdoObjects)
    <3>1. PdoMap[d][k] \in PdoObjects
      BY <1>1, <2>1
    <3>2. \A j \in DOMAIN c.map : c.map[j] \in PdoObjects
      BY <1>2
    <3> HIDE DEF top
    <3>3. new \in [1 .. top -> PdoObjects]
      BY <2>7, <3>1, <3>2
    <3> QED BY <2>5, <3>3, SeqDef
  <2>9. DOMAIN new = 1 .. top /\ \A j \in 1 .. top : new[j] = IF j = k THEN PdoMap[d][k] ELSE c.map[j]
    OBVIOUS
  <2> HIDE DEF new, top, e
  <2>10. e \in PdoCell /\ e.cob = c.cob /\ e.count = c.count /\ e.map = new
    BY <1>2, <2>4, <2>8 DEF PdoCell
  <2>11. PdoFilled(e, d, k)
    <3> SUFFICES ASSUME NEW j \in 1 .. PdoLen(d), j <= k
                 PROVE  j \in DOMAIN new /\ new[j] = PdoMap[d][j]
      BY <2>10 DEF PdoFilled
    <3>1. j \in 1 .. top
      BY <1>1, <2>5 DEF l
    <3>2. CASE j = k
      BY <2>9, <3>1, <3>2
    <3>3. CASE j # k
      <4>1. j <= k - 1
        BY <1>1, <2>5, <3>3 DEF l
      <4>2. c.map[j] = PdoMap[d][j]
        BY <2>3, <4>1 DEF PdoFilled
      <4> QED BY <2>9, <3>1, <3>3, <4>2
    <3> QED BY <3>2, <3>3
  <2>12. PdoStage(e, i, d, n, k + 3)
    <3> DEFINE h == k + 3
    <3>1. h \in Int /\ h >= 1 /\ h < l + 5 /\ h >= 3 /\ h - 3 = k /\ ~(h <= 0) /\ ~(h >= l + 5) /\ h # l + 5 - 1
      BY <1>1, <2>1
    <3> HIDE DEF h
    <3>2. e.cob = Pdo!Disabled /\ e.count = 0 /\ PdoFilled(e, d, h - 3)
      BY <2>3, <2>10, <2>11, <3>1
    <3>3. PdoStage(e, i, d, n, h)
      BY <1>1, <3>1, <3>2 DEF PdoStage, l
    <3> QED BY <3>3 DEF h
  <2> QED BY <1>2, <2>1, <2>10, <2>12 DEF PdoId
<1>9. CASE m = l + 3
  <2>1. w = Pdo!Write(i, d, n, "count", l)
    <3>1. m + 1 = l + 4
      BY <1>1, <1>9
    <3> QED BY <3>1, PdoWriteKinds DEF w, l
  <2>2. c.cob = Pdo!Disabled /\ PdoFilled(c, d, l)
    <3>1. m >= 1 /\ m >= 3 /\ m < l + 4 /\ m - 3 = l
      BY <1>1, <1>9
    <3> QED BY <1>4, <3>1
  <2>3. e = [c EXCEPT !.count = l]
    BY <2>1, <2>2 DEF Pdo!Put, Pdo!Write
  <2> HIDE DEF e
  <2>4. e \in PdoCell /\ e.cob = Pdo!Disabled /\ e.count = l /\ e.map = c.map
    BY <1>1, <1>2, <2>2, <2>3 DEF PdoCell
  <2>5. PdoFilled(e, d, l)
    BY <2>2, <2>4 DEF PdoFilled
  <2>6. PdoStage(e, i, d, n, l + 4)
    BY <1>1, <2>4, <2>5 DEF PdoStage, l
  <2>7. m + 1 = l + 4
    BY <1>1, <1>9
  <2> QED BY <2>4, <2>6, <2>7 DEF PdoId
<1>10. CASE m = l + 4
  <2>1. w = Pdo!Write(i, d, n, "enable", Pdo!COB(i, d, n)) /\ m + 1 = l + 5
    <3>1. m + 1 = l + 5
      BY <1>1, <1>10
    <3> QED BY <3>1, PdoWriteKinds DEF w, l
  <2>2. e = [c EXCEPT !.cob = Pdo!COB(i, d, n)]
    BY <2>1 DEF Pdo!Put, Pdo!Write
  <2> HIDE DEF e
  <2>3. e \in PdoCell /\ e.cob = Pdo!COB(i, d, n) /\ e.count = c.count /\ e.map = c.map
    BY <1>2, <1>3, <2>2 DEF PdoCell
  <2>4. PdoDone(e, i, d, n)
    BY <1>4, <1>10, <2>3 DEF PdoDone, PdoFilled, l
  <2>5. PdoStage(e, i, d, n, l + 5)
    BY <1>1, <2>4 DEF PdoStage, l
  <2> QED BY <2>1, <2>3, <2>5 DEF PdoId
<1>11. m = 0 \/ m = 1 \/ m = 2 \/ m \in 3 .. l + 2 \/ m = l + 3 \/ m = l + 4
  BY <1>1 DEF l
<1> QED BY <1>5, <1>6, <1>7, <1>8, <1>9, <1>10, <1>11

PdoChanged(nd, i, d, n, c) == [nd EXCEPT ![i][d][n] = c]

\* Carrying out the write for one PDO of one node leaves all others alone.
LEMMA PdoUpdate ==
  ASSUME NEW a \in PdoNodes, NEW b \in Pdo!Dirs, NEW c \in PdoNs, NEW x \in PdoCell, NEW od \in PdoNode
  PROVE  /\ PdoChanged(od, a, b, c, x) \in PdoNode
         /\ \A i \in PdoNodes, d \in Pdo!Dirs, n \in PdoNs :
              PdoChanged(od, a, b, c, x)[i][d][n] = IF <<i, d, n>> = <<a, b, c>> THEN x ELSE od[i][d][n]
<1> DEFINE nd == [od EXCEPT ![a][b][c] = x]
<1>1. /\ nd \in [PdoNodes -> [Pdo!Dirs -> [PdoNs -> PdoCell]]]
      /\ \A i \in PdoNodes : i # a => nd[i] = od[i]
      /\ nd[a] = [od[a] EXCEPT ![b][c] = x]
  BY DEF PdoNode
<1>2. \A d \in Pdo!Dirs : nd[a][d] = IF d = b THEN [od[a][b] EXCEPT ![c] = x] ELSE od[a][d]
  BY <1>1 DEF PdoNode
<1>3. \A n \in PdoNs : nd[a][b][n] = IF n = c THEN x ELSE od[a][b][n]
  BY <1>2 DEF PdoNode
<1> QED BY <1>1, <1>2, <1>3 DEF PdoNode, PdoChanged

\* Dispatch finds a TPDO with the id of the message, or none.
LEMMA PdoFound ==
  ASSUME pPdo \in Seq(PdoNodes \X PdoNs), NEW id
  PROVE  \/ Pdo!handlePDO(id) = 0
         \/ /\ Pdo!handlePDO(id) \in DOMAIN pPdo
            /\ Pdo!COB(pPdo[Pdo!handlePDO(id)][1], "tx", pPdo[Pdo!handlePDO(id)][2]) = id
<1> DEFINE I == {k \in 1 .. Len(pPdo) : Pdo!COB(pPdo[k][1], "tx", pPdo[k][2]) = id}
           First == CHOOSE x \in I : \A y \in I : x <= y
<1>1. Pdo!handlePDO(id) = IF I # {} THEN First ELSE 0
  BY DEF Pdo!handlePDO, Pdo!SelectInSeq, Pdo!Min
<1>2. CASE I = {}
  BY <1>1, <1>2
<1>3. CASE I # {}
  <2>1. I \subseteq Nat
    OBVIOUS
  <2>2. \E x \in I : \A y \in I : x <= y
    BY <1>3, <2>1, LeastNumber
  <2>3. First \in I
    BY <2>2
  <2> HIDE DEF First
  <2>4. First \in DOMAIN pPdo /\ Pdo!COB(pPdo[First][1], "tx", pPdo[First][2]) = id
    BY <2>3
  <2> QED BY <1>1, <1>3, <2>4
<1> QED BY <1>2, <1>3

\* What is sent by a PDO that is set up is understood.
LEMMA PdoUnpacked ==
  ASSUME NEW i, NEW d \in Pdo!Dirs, NEW n, NEW c \in PdoCell, PdoDone(c, i, d, n)
  PROVE  /\ Pdo!Mapped(c) = PdoMap[d]
         /\ \A v \in Pdo!Values(PdoMap[d]) :
              Pdo!receive(PdoMap[d], Pdo!toMessage(PdoMap[d], v)) = Pdo!Unsigned(PdoMap[d], v)
<1> DEFINE l == PdoLen(d)
           s == PdoMap[d]
           t == SubSeq(c.map, 1, l)
<1>1. l \in Nat /\ s \in Seq(PdoObjects) /\ Len(s) = l
  BY PdoNumbers DEF PdoLen
<1>2. c.count = l /\ \A k \in 1 .. l : k \in DOMAIN c.map /\ c.map[k] = s[k]
  BY <1>1 DEF PdoDone, PdoFilled
<1> HIDE DEF l, s
<1>3. \A k \in 1 .. l : c.map[k] \in PdoObjects
  BY <1>1, <1>2
<1>4. t \in Seq(PdoObjects) /\ Len(t) = (IF 1 <= l THEN l - 1 + 1 ELSE 0)
      /\ \A k \in 1 .. l - 1 + 1 : t[k] = c.map[1 + k - 1]
  BY <1>1, <1>3, SubSeqProperties
<1> HIDE DEF t
<1>5. Len(t) = l /\ \A k \in 1 .. l : t[k] = s[k]
  BY <1>1, <1>2, <1>4
<1>6. t = s
  BY <1>1, <1>4, <1>5, SeqEqual
<1>7. Pdo!Mapped(c) = s
  BY <1>2, <1>6 DEF Pdo!Mapped, t
<1> QED BY <1>7, PdoPacked DEF s, Pdo!Dirs

-----------------------------------------------------------------------------

LEMMA PdoInit == Pdo!Init => PdoInv
<1> SUFFICES ASSUME Pdo!Init PROVE PdoInv
  OBVIOUS
<1>1. /\ pEnv \in PdoEnvs /\ pPdo = << >> /\ pWire = << >>
      /\ pNode = [i \in PdoNodes |-> [d \in Pdo!Dirs |-> [n \in PdoNs |->
                    [cob |-> IF pEnv.preset THEN Pdo!COB(i, d, n) ELSE Pdo!Disabled,
                     map |-> PdoPreset, count |-> IF pEnv.preset THEN Len(PdoPreset) ELSE 0]]]]
      /\ pSeen = [early |-> TRUE, late |-> TRUE, wrote |-> TRUE, strays |-> 0, enabled |-> {}]
  BY DEF Pdo!Init
<1>2. PdoPreset \in Seq(PdoObjects)
  BY PdoAssumption DEF PdoObjects
<1>3. ASSUME NEW i \in PdoNodes, NEW d \in Pdo!Dirs, NEW n \in PdoNs
      PROVE  /\ pNode[i][d][n] \in PdoCell
             /\ PdoOne(pWire, pNode[i][d][n], pSeen.enabled, i, d, n)
  <2> DEFINE c == pNode[i][d][n]
  <2>1. c = [cob |-> IF pEnv.preset THEN Pdo!COB(i, d, n) ELSE Pdo!Disabled,
             map |-> PdoPreset, count |-> IF pEnv.preset THEN Len(PdoPreset) ELSE 0]
    BY <1>1
  <2>2. Pdo!COB(i, d, n) \in Nat /\ Pdo!Disabled \in Nat /\ Len(PdoPreset) \in Nat
    BY <1>2, PdoNumbers DEF Pdo!Disabled
  <2> HIDE DEF c
  <2>3. c \in PdoCell /\ PdoId(c, i, d, n) /\ (~pEnv.preset => c.cob = Pdo!Disabled)
    BY <1>2, <2>1, <2>2 DEF PdoCell, PdoId
  <2>4. PdoUntouched(pWire, i, d, n) /\ pSeen.enabled = {}
    BY <1>1 DEF PdoUntouched
  <2> QED BY <2>3, <2>4 DEF PdoOne, c
<1>4. PdoType
  <2>1. pNode \in PdoNode
    <3>1. /\ DOMAIN pNode = PdoNodes /\ pNode = [i \in PdoNodes |-> pNode[i]]
          /\ \A i \in PdoNodes : pNode[i] = [d \in Pdo!Dirs |-> pNode[i][d]]
          /\ \A i \in PdoNodes, d \in Pdo!Dirs : pNode[i][d] = [n \in PdoNs |-> pNode[i][d][n]]
      BY <1>1
    <3>2. \A i \in PdoNodes, d \in Pdo!Dirs : pNode[i][d] \in [PdoNs -> PdoCell]
      BY <1>3, <3>1
    <3>3. \A i \in PdoNodes : pNode[i] \in [Pdo!Dirs -> [PdoNs -> PdoCell]]
      BY <3>1, <3>2
    <3> QED BY <3>1, <3>3 DEF PdoNode
  <2>2. pSeen \in PdoSeen
    BY <1>1 DEF PdoSeen
  <2> QED BY <1>1, <2>1, <2>2 DEF PdoType
<1>5. PdoTable /\ PdoTold
  BY <1>1 DEF PdoTable, PdoTold
<1> QED BY <1>1, <1>3, <1>4, <1>5 DEF PdoInv, PdoSetUp

\* The block of a PDO while the first write of the wire is carried out.
LEMMA PdoWritten ==
  ASSUME PdoInv, ~pEnv.lossy, Pdo!NodeWritten
  PROVE  PdoInv'
<1> DEFINE w == Head(pWire)
           c == pNode[w.node][w.dir][w.n]
<1>1. PdoType /\ PdoTable /\ PdoTold /\ PdoSetUp /\ pEnv \in PdoEnvs
  BY DEF PdoInv
<1>2. /\ pWire # << >> /\ pWire' = Tail(pWire) /\ UNCHANGED <<pEnv, pPdo>>
      /\ pNode' = [pNode EXCEPT ![w.node][w.dir][w.n] = Pdo!Put(c, w)]
      /\ pSeen' = [pSeen EXCEPT !.strays = @ + Pdo!handlePDO(Pdo!SDOAnswer(w.node))]
  BY DEF Pdo!NodeWritten
<1>3. pNode \in PdoNode /\ pWire \in Seq(PdoWrites) /\ pSeen \in PdoSeen /\ pPdo \in Seq(PdoNodes \X PdoNs)
  BY <1>1 DEF PdoType
<1>4. w \in PdoWrites /\ Tail(pWire) \in Seq(PdoWrites) /\ Len(pWire) \in Nat \ {0}
      /\ DOMAIN pWire = 1 .. Len(pWire) /\ w = pWire[1] /\ 1 \in DOMAIN pWire
  BY <1>2, <1>3, EmptySeq
<1> HIDE DEF w
<1>5. w.node \in PdoNodes /\ w.dir \in Pdo!Dirs /\ w.n \in PdoNs
  BY <1>4, PdoWritesOf
<1>6. c \in PdoCell
  BY <1>3, <1>5 DEF PdoNode
<1> DEFINE x == Pdo!Put(c, w)
           i0 == w.node
           d0 == w.dir
           n0 == w.n
<1>7. PdoOne(pWire, c, pSeen.enabled, i0, d0, n0)
  BY <1>1, <1>5 DEF PdoSetUp
<1>8. <<i0, d0, n0>> \in pSeen.enabled
  <2>1. PdoOf(w) = <<i0, d0, n0>>
    BY DEF PdoOf
  <2>2. ~PdoUntouched(pWire, i0, d0, n0)
    BY <1>4, <2>1 DEF PdoUntouched
  <2> QED BY <1>7, <2>2 DEF PdoOne
<1>9. PICK p \in Int : PdoBlock(pWire, i0, d0, n0, p) /\ PdoStage(c, i0, d0, n0, -p)
  BY <1>7, <1>8 DEF PdoOne
<1>10. -p \in 0 .. PdoLen(d0) + 4 /\ w = PdoWriteAt(i0, d0, n0, -p + 1)
  <2>1. PdoOf(w) = <<i0, d0, n0>>
    BY DEF PdoOf
  <2>2. 1 - p \in 1 .. PdoLen(d0) + 5 /\ w = PdoWriteAt(i0, d0, n0, 1 - p)
    BY <1>4, <1>9, <2>1 DEF PdoBlock
  <2>3. 1 - p = -p + 1 /\ PdoLen(d0) \in Nat
    BY <1>5, PdoNumbers
  <2> QED BY <2>2, <2>3
<1>11. x \in PdoCell /\ PdoId(x, i0, d0, n0) /\ PdoStage(x, i0, d0, n0, -p + 1)
  <2>1. PdoId(c, i0, d0, n0)
    BY <1>7 DEF PdoOne
  <2> QED BY <1>5, <1>6, <1>9, <1>10, <2>1, PdoPut
<1> HIDE DEF x
<1>12. /\ pNode' \in PdoNode
       /\ \A i \in PdoNodes, d \in Pdo!Dirs, n \in PdoNs :
            pNode'[i][d][n] = IF <<i, d, n>> = <<i0, d0, n0>> THEN x ELSE pNode[i][d][n]
  <2>1. pNode' = [pNode EXCEPT ![i0][d0][n0] = x]
    BY <1>2 DEF x
  <2>2. i0 \in PdoNodes /\ d0 \in Pdo!Dirs /\ n0 \in PdoNs /\ x \in PdoCell
    BY <1>5, <1>11
  <2> HIDE DEF i0, d0, n0
  <2> DEFINE nd == pNode'
             od == pNode
  <2>3. nd = PdoChanged(od, i0, d0, n0, x) /\ od \in PdoNode
    BY <1>3, <2>1 DEF PdoChanged
  <2> HIDE DEF nd, od
  <2>4. /\ nd \in PdoNode
        /\ \A i \in PdoNodes, d \in Pdo!Dirs, n \in PdoNs :
             nd[i][d][n] = IF <<i, d, n>> = <<i0, d0, n0>> THEN x ELSE od[i][d][n]
    BY <2>2, <2>3, PdoUpdate
  <2> QED BY <2>4 DEF nd, od
<1>13. pSeen' = pSeen
  <2>1. Pdo!handlePDO(Pdo!SDOAnswer(w.node)) = 0
    <3>1. SUFFICES ASSUME Pdo!handlePDO(Pdo!SDOAnswer(w.node)) # 0 PROVE FALSE
      OBVIOUS
    <3>2. PICK k \in DOMAIN pPdo : Pdo!COB(pPdo[k][1], "tx", pPdo[k][2]) = Pdo!SDOAnswer(w.node)
      BY <1>3, <3>1, PdoFound
    <3>3. pPdo[k][1] \in PdoNodes /\ pPdo[k][2] \in PdoNs
      BY <1>3
    <3> QED BY <1>5, <3>2, <3>3, PdoIdsDiffer
  <2>2. pSeen.strays + 0 = pSeen.strays
    BY <1>3 DEF PdoSeen
  <2> QED BY <1>2, <1>3, <2>1, <2>2 DEF PdoSeen
<1>14. ASSUME NEW i \in PdoNodes, NEW d \in Pdo!Dirs, NEW n \in PdoNs
       PROVE  PdoOne(pWire, pNode[i][d][n], pSeen.enabled, i, d, n)'
  <2> DEFINE y == pNode[i][d][n]
  <2>1. PdoOne(pWire, y, pSeen.enabled, i, d, n)
    BY <1>1 DEF PdoSetUp
  <2>2. pNode'[i][d][n] = IF <<i, d, n>> = <<i0, d0, n0>> THEN x ELSE y
    BY <1>12
  <2> HIDE DEF y
  <2>3. CASE <<i, d, n>> = <<i0, d0, n0>>
    <3>1. i = i0 /\ d = d0 /\ n = n0
      BY <2>3
    <3>2. p - 1 \in Int /\ -(p - 1) = -p + 1
      OBVIOUS
    <3>3. PdoBlock(Tail(pWire), i, d, n, p - 1)
      BY <1>2, <1>3, <1>9, <3>1, PdoBlockMoves
    <3>4. PdoStage(x, i, d, n, -(p - 1))
      BY <1>11, <3>1, <3>2
    <3> QED BY <1>2, <1>8, <1>11, <1>13, <2>2, <3>1, <3>2, <3>3, <3>4 DEF PdoOne, PdoStage
  <2>4. CASE <<i, d, n>> # <<i0, d0, n0>> /\ <<i, d, n>> \notin pSeen.enabled
    <3>1. PdoUntouched(Tail(pWire), i, d, n) /\ PdoId(y, i, d, n) /\ (~pEnv.preset => y.cob = Pdo!Disabled)
      BY <1>2, <1>3, <2>1, <2>4, PdoUntouchedTail DEF PdoOne
    <3> QED BY <1>2, <1>13, <2>2, <2>4, <3>1 DEF PdoOne
  <2>5. CASE <<i, d, n>> # <<i0, d0, n0>> /\ <<i, d, n>> \in pSeen.enabled
    <3>1. PICK q \in Int : PdoBlock(pWire, i, d, n, q) /\ PdoStage(y, i, d, n, -q)
      BY <2>1, <2>5 DEF PdoOne
    <3>2. q - 1 \in Int /\ -(q - 1) = -q + 1 /\ PdoLen(d) \in Nat
      BY PdoNumbers
    <3>3. PdoBlock(Tail(pWire), i, d, n, q - 1)
      BY <1>2, <1>3, <3>1, PdoBlockMoves
    <3>4. 1 - q \notin 1 .. PdoLen(d) + 5
      <4>1. PdoOf(pWire[1]) = <<i0, d0, n0>>
        BY <1>4 DEF PdoOf
      <4> SUFFICES ASSUME 1 - q \in 1 .. PdoLen(d) + 5 PROVE FALSE
        OBVIOUS
      <4>2. pWire[1] = PdoWriteAt(i, d, n, 1 - q)
        BY <1>4, <3>1 DEF PdoBlock
      <4> QED BY <2>5, <4>1, <4>2, PdoOfWrite
    <3>5. PdoStage(y, i, d, n, -(q - 1))
      <4> DEFINE m == -q
      <4>1. m \in Int /\ (m < 0 \/ m >= PdoLen(d) + 5) /\ -(q - 1) = m + 1
        BY <3>2, <3>4
      <4>2. PdoStage(y, i, d, n, m)
        BY <3>1
      <4> HIDE DEF m
      <4>3. PdoStage(y, i, d, n, m + 1)
        <5>1. CASE m < 0
          <6>1. ~pEnv.preset => y.cob = Pdo!Disabled \/ PdoDone(y, i, d, n)
            BY <4>1, <4>2, <5>1 DEF PdoStage
          <6> QED BY <3>2, <4>1, <5>1, <6>1 DEF PdoStage
        <5>2. CASE m >= PdoLen(d) + 5
          <6>1. PdoDone(y, i, d, n)
            BY <4>1, <4>2, <5>2 DEF PdoStage
          <6> QED BY <3>2, <4>1, <5>2, <6>1 DEF PdoStage
        <5> QED BY <4>1, <5>1, <5>2
      <4> QED BY <4>1, <4>3
    <3>6. PdoId(y, i, d, n)
      BY <2>1 DEF PdoOne
    <3> QED BY <1>2, <1>13, <2>2, <2>5, <3>2, <3>3, <3>5, <3>6 DEF PdoOne, PdoStage
  <2> QED BY <2>3, <2>4, <2>5
<1>15. PdoType'
  BY <1>2, <1>3, <1>4, <1>12, <1>13 DEF PdoType
<1>16. PdoTable' /\ PdoTold'
  BY <1>1, <1>2, <1>13 DEF PdoTable, PdoTold
<1> QED BY <1>1, <1>2, <1>14, <1>15, <1>16 DEF PdoInv, PdoSetUp

LEMMA PdoSetUpStays ==
  ASSUME PdoSetUp, UNCHANGED <<pEnv, pWire, pNode>>, pSeen'.enabled = pSeen.enabled
  PROVE  PdoSetUp'
<1>1. ASSUME NEW i \in PdoNodes, NEW d \in Pdo!Dirs, NEW n \in PdoNs
      PROVE  PdoOne(pWire, pNode[i][d][n], pSeen.enabled, i, d, n)'
  <2>1. PdoOne(pWire, pNode[i][d][n], pSeen.enabled, i, d, n)
    BY DEF PdoSetUp
  <2> QED BY <2>1 DEF PdoOne, PdoStage
<1> QED BY <1>1 DEF PdoSetUp

\* A node sends by a PDO that Dispatch knows: it is enabled, and set up or silent.
LEMMA PdoSends ==
  ASSUME PdoInv, ~pEnv.lossy, NEW i \in PdoNodes, NEW n \in PdoNs, Pdo!NodeSends(i, n)
  PROVE  PdoInv'
<1> DEFINE c == pNode[i]["tx"][n]
           k == Pdo!handlePDO(c.cob)
           right(v) == /\ pPdo[k] = <<i, n>> /\ Pdo!Mapped(c) = PdoMap["tx"]
                       /\ Pdo!receive(PdoMap["tx"], Pdo!toMessage(Pdo!Mapped(c), v))
                            = Pdo!Unsigned(Pdo!Mapped(c), v)
<1>1. PdoType /\ PdoTable /\ PdoTold /\ PdoSetUp /\ pEnv \in PdoEnvs
  BY DEF PdoInv
<1>2. PICK v \in Pdo!Values(Pdo!Mapped(c)) :
        pSeen' = [pSeen EXCEPT !.early = @ /\ right(v), !.late = @ /\ (right(v) \/ pWire # << >>)]
  BY DEF Pdo!NodeSends
<1>3. c.cob # Pdo!Disabled /\ k # 0 /\ UNCHANGED <<pEnv, pPdo, pWire, pNode>>
  BY DEF Pdo!NodeSends
<1>4. pNode \in PdoNode /\ pWire \in Seq(PdoWrites) /\ pSeen \in PdoSeen /\ pPdo \in Seq(PdoNodes \X PdoNs)
  BY <1>1 DEF PdoType
<1>5. "tx" \in Pdo!Dirs
  BY DEF Pdo!Dirs
<1>6. c \in PdoCell
  BY <1>4, <1>5 DEF PdoNode
<1>7. PdoOne(pWire, c, pSeen.enabled, i, "tx", n)
  BY <1>1, <1>5 DEF PdoSetUp
<1> HIDE DEF c, k
<1>8. k \in DOMAIN pPdo /\ Pdo!COB(pPdo[k][1], "tx", pPdo[k][2]) = c.cob
  BY <1>3, <1>4, PdoFound DEF k
<1>9. pPdo[k] = <<i, n>>
  <2>1. pPdo[k] \in PdoNodes \X PdoNs
    BY <1>4, <1>8
  <2>2. pPdo[k][1] \in PdoNodes /\ pPdo[k][2] \in PdoNs /\ pPdo[k] = <<pPdo[k][1], pPdo[k][2]>>
    BY <2>1
  <2>3. c.cob = Pdo!COB(i, "tx", n)
    BY <1>3, <1>7 DEF PdoOne, PdoId
  <2>4. pPdo[k][1] = i /\ pPdo[k][2] = n
    BY <1>8, <2>2, <2>3, PdoIdsDiffer
  <2> QED BY <2>2, <2>4
<1>10. <<i, "tx", n>> \in pSeen.enabled
  <2>1. <<pPdo[k][1], "tx", pPdo[k][2]>> \in pSeen.enabled
    BY <1>1, <1>8 DEF PdoTable
  <2> QED BY <1>9, <2>1
<1>11. PICK p \in Int : PdoBlock(pWire, i, "tx", n, p) /\ PdoStage(c, i, "tx", n, -p)
  BY <1>7, <1>10 DEF PdoOne
<1>12. PdoLen("tx") \in Nat /\ Len(pWire) \in Nat /\ Pdo!COB(i, "tx", n) # Pdo!Disabled
  BY <1>4, <1>5, PdoNumbers DEF Pdo!Disabled
<1>13. ASSUME PdoDone(c, i, "tx", n)
       PROVE  right(v) = TRUE
  <2>1. Pdo!Mapped(c) = PdoMap["tx"]
    BY <1>5, <1>6, <1>13, PdoUnpacked
  <2>2. \A u \in Pdo!Values(PdoMap["tx"]) :
          Pdo!receive(PdoMap["tx"], Pdo!toMessage(PdoMap["tx"], u)) = Pdo!Unsigned(PdoMap["tx"], u)
    BY <1>5, <1>6, <1>13, PdoUnpacked
  <2>3. Pdo!receive(PdoMap["tx"], Pdo!toMessage(Pdo!Mapped(c), v)) = Pdo!Unsigned(Pdo!Mapped(c), v)
    BY <1>2, <2>1, <2>2
  <2> QED BY <1>9, <2>1, <2>3
<1>14. pWire = << >> => right(v) = TRUE
  <2>1. SUFFICES ASSUME pWire = << >> PROVE PdoDone(c, i, "tx", n)
    BY <1>13
  <2>2. -p >= PdoLen("tx") + 5
    <3>1. Len(pWire) = 0 /\ p + PdoLen("tx") + 5 <= Len(pWire)
      BY <1>11, <2>1 DEF PdoBlock
    <3> QED BY <1>12, <3>1
  <2> QED BY <1>11, <2>2 DEF PdoStage
<1>15. ~pEnv.preset => right(v) = TRUE
  <2>1. SUFFICES ASSUME ~pEnv.preset PROVE PdoDone(c, i, "tx", n)
    BY <1>13
  <2> DEFINE m == -p
  <2>2. PdoStage(c, i, "tx", n, m) /\ m \in Int
    BY <1>11
  <2> HIDE DEF m
  <2>3. CASE m <= 0
    BY <1>3, <2>1, <2>2, <2>3 DEF PdoStage
  <2>4. CASE m >= 1 /\ m < PdoLen("tx") + 5
    BY <1>3, <2>2, <2>4 DEF PdoStage
  <2>5. CASE m >= PdoLen("tx") + 5
    BY <2>2, <2>5 DEF PdoStage
  <2> QED BY <1>12, <2>2, <2>3, <2>4, <2>5
<1> HIDE DEF right
<1> DEFINE late == right(v) \/ pWire # << >>
<1>16. late = TRUE
  BY <1>14
<1>17. right(v) \in BOOLEAN
  BY DEF right
<1>18. pSeen' \in PdoSeen /\ pSeen'.late = pSeen.late /\ pSeen'.wrote = pSeen.wrote
       /\ pSeen'.strays = pSeen.strays /\ pSeen'.enabled = pSeen.enabled
       /\ pSeen'.early = (pSeen.early /\ right(v))
  <2>1. pSeen' = [pSeen EXCEPT !.early = @ /\ right(v), !.late = @ /\ late]
    BY <1>2 DEF late, right
  <2> HIDE DEF late
  <2>2. pSeen.late \in BOOLEAN /\ pSeen.early \in BOOLEAN
    BY <1>4 DEF PdoSeen
  <2>3. (pSeen.late /\ late) = pSeen.late /\ (pSeen.early /\ right(v)) \in BOOLEAN
    BY <1>16, <1>17, <2>2, Zenon
  <2> DEFINE a == pSeen.early /\ right(v)
             b == pSeen.late /\ late
  <2>4. a \in BOOLEAN /\ b \in BOOLEAN /\ b = pSeen.late
    BY <2>2, <2>3
  <2>5. pSeen' = [pSeen EXCEPT !.early = a, !.late = b]
    BY <2>1
  <2> HIDE DEF a, b
  <2>6. pSeen' \in PdoSeen /\ pSeen'.late = b /\ pSeen'.wrote = pSeen.wrote
        /\ pSeen'.strays = pSeen.strays /\ pSeen'.enabled = pSeen.enabled /\ pSeen'.early = a
    BY <1>4, <2>4, <2>5 DEF PdoSeen
  <2> QED BY <2>4, <2>6 DEF a
<1>19. PdoTold'
  <2>1. pSeen'.late /\ pSeen'.wrote /\ pSeen'.strays = 0
    BY <1>1, <1>18 DEF PdoTold
  <2>2. ~pEnv.preset => pSeen'.early
    BY <1>1, <1>15, <1>18 DEF PdoTold
  <2> QED BY <1>3, <2>1, <2>2 DEF PdoTold
<1>20. PdoType' /\ PdoTable'
  BY <1>1, <1>3, <1>4, <1>18 DEF PdoType, PdoTable
<1>21. PdoSetUp'
  BY <1>1, <1>3, <1>18, PdoSetUpStays
<1> QED BY <1>1, <1>3, <1>19, <1>20, <1>21 DEF PdoInv

LEMMA PdoWrote ==
  ASSUME PdoInv, ~pEnv.lossy, NEW i \in PdoNodes, NEW n \in PdoNs, Pdo!wPDO(i, n)
  PROVE  PdoInv'
<1> DEFINE c == pNode[i]["rx"][n]
           right(v) == /\ c.cob = Pdo!COB(i, "rx", n) /\ Pdo!Mapped(c) = PdoMap["rx"]
                       /\ Pdo!receive(Pdo!Mapped(c), Pdo!toMessage(PdoMap["rx"], v))
                            = Pdo!Unsigned(Pdo!Mapped(c), v)
<1>1. PdoType /\ PdoTable /\ PdoTold /\ PdoSetUp /\ pEnv \in PdoEnvs
  BY DEF PdoInv
<1>2. PICK v \in Pdo!Values(PdoMap["rx"]) : pSeen' = [pSeen EXCEPT !.wrote = @ /\ right(v)]
  BY DEF Pdo!wPDO
<1>3. pWire = << >> /\ <<i, "rx", n>> \in pSeen.enabled /\ UNCHANGED <<pEnv, pPdo, pWire, pNode>>
  BY DEF Pdo!wPDO
<1>4. pNode \in PdoNode /\ pWire \in Seq(PdoWrites) /\ pSeen \in PdoSeen
  BY <1>1 DEF PdoType
<1>5. "rx" \in Pdo!Dirs
  BY DEF Pdo!Dirs
<1>6. c \in PdoCell
  BY <1>4, <1>5 DEF PdoNode
<1>7. PdoOne(pWire, c, pSeen.enabled, i, "rx", n)
  BY <1>1, <1>5 DEF PdoSetUp
<1> HIDE DEF c
<1>8. PICK p \in Int : PdoBlock(pWire, i, "rx", n, p) /\ PdoStage(c, i, "rx", n, -p)
  BY <1>3, <1>7 DEF PdoOne
<1>9. -p >= PdoLen("rx") + 5
  <2>1. Len(pWire) = 0 /\ p + PdoLen("rx") + 5 <= Len(pWire) /\ PdoLen("rx") \in Nat
    BY <1>3, <1>5, <1>8, PdoNumbers DEF PdoBlock
  <2> QED BY <2>1
<1>10. PdoDone(c, i, "rx", n)
  BY <1>8, <1>9 DEF PdoStage
<1>11. right(v) = TRUE
  <2>1. Pdo!Mapped(c) = PdoMap["rx"]
    BY <1>5, <1>6, <1>10, PdoUnpacked
  <2>2. \A u \in Pdo!Values(PdoMap["rx"]) :
          Pdo!receive(PdoMap["rx"], Pdo!toMessage(PdoMap["rx"], u)) = Pdo!Unsigned(PdoMap["rx"], u)
    BY <1>5, <1>6, <1>10, PdoUnpacked
  <2>3. Pdo!receive(Pdo!Mapped(c), Pdo!toMessage(PdoMap["rx"], v)) = Pdo!Unsigned(Pdo!Mapped(c), v)
    BY <1>2, <2>1, <2>2
  <2> QED BY <1>10, <2>1, <2>3 DEF PdoDone
<1> HIDE DEF right
<1>12. pSeen' = pSeen
  <2>1. (pSeen.wrote /\ right(v)) = pSeen.wrote
    <3>1. pSeen.wrote \in BOOLEAN
      BY <1>4 DEF PdoSeen
    <3> QED BY <1>11, <3>1, Zenon
  <2>2. pSeen' = [pSeen EXCEPT !.wrote = (pSeen.wrote /\ right(v))]
    BY <1>2
  <2> DEFINE b == pSeen.wrote /\ right(v)
  <2>3. pSeen' = [pSeen EXCEPT !.wrote = b] /\ b = pSeen.wrote
    BY <2>1, <2>2
  <2> HIDE DEF b
  <2> QED BY <1>4, <2>3 DEF PdoSeen
<1>13. PdoType' /\ PdoTable' /\ PdoTold'
  BY <1>1, <1>3, <1>12 DEF PdoType, PdoTable, PdoTold
<1>14. PdoSetUp'
  BY <1>1, <1>3, <1>12, PdoSetUpStays
<1> QED BY <1>1, <1>3, <1>13, <1>14 DEF PdoInv

\* A PDO is set up, for the first time or again.
LEMMA PdoEnables ==
  ASSUME PdoInv, ~pEnv.lossy, NEW i \in PdoNodes, NEW d \in Pdo!Dirs, NEW n \in PdoNs,
         Pdo!enablePDO(i, d, n)
  PROVE  PdoInv'
<1> DEFINE t == Pdo!Writes(i, d, n)
           on == pSeen.enabled \cup {<<i, d, n>>}
<1>1. PdoType /\ PdoTable /\ PdoTold /\ PdoSetUp /\ pEnv \in PdoEnvs
  BY DEF PdoInv
<1>2. /\ <<i, d, n>> \in pSeen.enabled => pWire = << >>
      /\ pWire' = pWire \o t
      /\ pPdo' = IF d = "tx" THEN Pdo!registerPDO(i, n) ELSE pPdo
      /\ pSeen' = [pSeen EXCEPT !.enabled = on]
      /\ UNCHANGED <<pEnv, pNode>>
  BY DEF Pdo!enablePDO
<1>3. pNode \in PdoNode /\ pWire \in Seq(PdoWrites) /\ pSeen \in PdoSeen /\ pPdo \in Seq(PdoNodes \X PdoNs)
  BY <1>1 DEF PdoType
<1>4. t \in Seq(PdoWrites)
  BY PdoWritesAre
<1>5. pWire' \in Seq(PdoWrites)
  BY <1>2, <1>3, <1>4
<1>6. pSeen' \in PdoSeen /\ pSeen'.late = pSeen.late /\ pSeen'.wrote = pSeen.wrote
      /\ pSeen'.strays = pSeen.strays /\ pSeen'.early = pSeen.early /\ pSeen'.enabled = on
  <2>1. on \in SUBSET PdoTriples
    <3>1. pSeen.enabled \in SUBSET PdoTriples
      BY <1>3 DEF PdoSeen
    <3> QED BY <3>1 DEF PdoTriples
  <2> HIDE DEF on
  <2> QED BY <1>2, <1>3, <2>1 DEF PdoSeen
<1>7. /\ pPdo' \in Seq(PdoNodes \X PdoNs)
      /\ PdoTable'
  <2>1. CASE pPdo' = pPdo
    BY <1>1, <1>3, <1>6, <2>1 DEF PdoTable
  <2>2. CASE d = "tx" /\ <<i, n>> \notin Pdo!ToSet(pPdo) /\ pPdo' = Append(pPdo, <<i, n>>)
    <3> DEFINE u == Append(pPdo, <<i, n>>)
               l == Len(pPdo)
    <3>1. l \in Nat /\ DOMAIN pPdo = 1 .. l /\ u \in Seq(PdoNodes \X PdoNs) /\ DOMAIN u = 1 .. l + 1
          /\ (\A k \in 1 .. l : u[k] = pPdo[k]) /\ u[l + 1] = <<i, n>>
      BY <1>3
    <3> HIDE DEF u, l
    <3>2. \A k \in 1 .. l : pPdo[k] # <<i, n>>
      BY <2>2, <3>1 DEF Pdo!ToSet
    <3>3. \A k \in 1 .. l + 1 : k \in 1 .. l \/ k = l + 1
      BY <3>1
    <3>4. \A k \in DOMAIN u : <<u[k][1], "tx", u[k][2]>> \in on
      <4> SUFFICES ASSUME NEW k \in 1 .. l + 1 PROVE <<u[k][1], "tx", u[k][2]>> \in on
        BY <3>1
      <4>1. CASE k \in 1 .. l
        <5>1. <<pPdo[k][1], "tx", pPdo[k][2]>> \in pSeen.enabled
          BY <1>1, <3>1, <4>1 DEF PdoTable
        <5> QED BY <3>1, <4>1, <5>1
      <4>2. CASE k = l + 1
        BY <2>2, <3>1, <4>2
      <4> QED BY <3>3, <4>1, <4>2
    <3>5. \A j, k \in DOMAIN u : j # k => u[j] # u[k]
      <4> SUFFICES ASSUME NEW j \in 1 .. l + 1, NEW k \in 1 .. l + 1, j # k PROVE u[j] # u[k]
        BY <3>1
      <4>1. CASE j \in 1 .. l /\ k \in 1 .. l
        BY <1>1, <3>1, <4>1 DEF PdoTable
      <4>2. CASE j = l + 1 /\ k \in 1 .. l
        BY <3>1, <3>2, <4>2
      <4>3. CASE j \in 1 .. l /\ k = l + 1
        BY <3>1, <3>2, <4>3
      <4> QED BY <3>3, <4>1, <4>2, <4>3
    <3>6. pPdo' = u
      BY <2>2 DEF u
    <3> QED BY <1>6, <3>1, <3>4, <3>5, <3>6 DEF PdoTable
  <2> QED BY <1>2, <2>1, <2>2 DEF Pdo!registerPDO
<1>8. ASSUME NEW j \in PdoNodes, NEW b \in Pdo!Dirs, NEW m \in PdoNs
      PROVE  PdoOne(pWire, pNode[j][b][m], pSeen.enabled, j, b, m)'
  <2> DEFINE y == pNode[j][b][m]
  <2>1. PdoOne(pWire, y, pSeen.enabled, j, b, m)
    BY <1>1 DEF PdoSetUp
  <2>2. pNode'[j][b][m] = y
    BY <1>2
  <2> HIDE DEF y, t
  <2>3. CASE <<j, b, m>> # <<i, d, n>>
    <3>1. PdoUntouched(t, j, b, m)
      BY <2>3, PdoWritesElsewhere DEF t
    <3>2. <<j, b, m>> \in on <=> <<j, b, m>> \in pSeen.enabled
      BY <2>3
    <3>3. CASE <<j, b, m>> \in pSeen.enabled
      <4>1. PICK q \in Int : PdoBlock(pWire, j, b, m, q) /\ PdoStage(y, j, b, m, -q)
        BY <2>1, <3>3 DEF PdoOne
      <4>2. PdoBlock(pWire \o t, j, b, m, q)
        BY <1>3, <1>4, <3>1, <4>1, PdoBlockKept
      <4>3. PdoId(y, j, b, m)
        BY <2>1 DEF PdoOne
      <4> QED BY <1>2, <1>6, <2>2, <3>2, <3>3, <4>1, <4>2, <4>3 DEF PdoOne, PdoStage
    <3>4. CASE <<j, b, m>> \notin pSeen.enabled
      <4>1. PdoUntouched(pWire, j, b, m) /\ PdoId(y, j, b, m) /\ (~pEnv.preset => y.cob = Pdo!Disabled)
        BY <2>1, <3>4 DEF PdoOne
      <4>2. PdoUntouched(pWire \o t, j, b, m)
        BY <1>3, <1>4, <3>1, <4>1, PdoUntouchedBoth
      <4> QED BY <1>2, <1>6, <2>2, <3>2, <3>4, <4>1, <4>2 DEF PdoOne
    <3> QED BY <3>3, <3>4
  <2>4. CASE <<j, b, m>> = <<i, d, n>>
    <3>1. j = i /\ b = d /\ m = n /\ <<j, b, m>> \in on
      BY <2>4
    <3>2. PdoId(y, j, b, m)
      BY <2>1 DEF PdoOne
    <3>3. PdoUntouched(pWire, i, d, n) /\ (~pEnv.preset => y.cob = Pdo!Disabled \/ PdoDone(y, i, d, n))
      <4>1. CASE <<i, d, n>> \in pSeen.enabled
        <5>1. pWire = << >>
          BY <1>2, <4>1
        <5>2. PICK q \in Int : PdoBlock(pWire, i, d, n, q) /\ PdoStage(y, i, d, n, -q)
          BY <2>1, <2>4, <3>1, <4>1 DEF PdoOne
        <5>3. -q >= PdoLen(d) + 5
          <6>1. Len(pWire) = 0 /\ q + PdoLen(d) + 5 <= Len(pWire) /\ PdoLen(d) \in Nat
            BY <5>1, <5>2, PdoNumbers DEF PdoBlock
          <6> QED BY <6>1
        <5>4. PdoDone(y, i, d, n)
          BY <5>2, <5>3 DEF PdoStage
        <5> QED BY <5>1, <5>4 DEF PdoUntouched
      <4>2. CASE <<i, d, n>> \notin pSeen.enabled
        BY <2>1, <3>1, <4>2 DEF PdoOne
      <4> QED BY <4>1, <4>2
    <3> DEFINE q == Len(pWire)
    <3>4. PdoBlock(pWire \o t, i, d, n, q)
      BY <1>3, <3>3, PdoBlockNew DEF t
    <3>5. q \in Int /\ -q <= 0 /\ PdoLen(d) \in Nat
      BY <1>3, PdoNumbers
    <3> HIDE DEF q
    <3>6. PdoStage(y, i, d, n, -q)
      BY <3>3, <3>5 DEF PdoStage
    <3> QED BY <1>2, <1>6, <2>2, <3>1, <3>2, <3>4, <3>5, <3>6 DEF PdoOne, PdoStage
  <2> QED BY <2>3, <2>4
<1>9. PdoType' /\ PdoTold'
  BY <1>1, <1>2, <1>3, <1>5, <1>6, <1>7 DEF PdoType, PdoTold
<1> QED BY <1>1, <1>2, <1>7, <1>8, <1>9 DEF PdoInv, PdoSetUp

LEMMA PdoNext == PdoInv /\ [Pdo!Next]_(Pdo!vars) => PdoInv'
<1> SUFFICES ASSUME PdoInv, [Pdo!Next]_(Pdo!vars) PROVE PdoInv'
  OBVIOUS
<1>1. CASE UNCHANGED Pdo!vars
  <2>1. UNCHANGED <<pEnv, pPdo, pWire, pNode, pSeen>>
    BY <1>1 DEF Pdo!vars
  <2>2. PdoSetUp => PdoSetUp'
    BY <2>1, PdoSetUpStays
  <2> QED BY <2>1, <2>2 DEF PdoInv, PdoType, PdoTable, PdoTold
<1>2. CASE Pdo!Next /\ pEnv.lossy
  <2>1. pEnv' = pEnv
    BY <1>2 DEF Pdo!Next, Pdo!NodeWritten, Pdo!NodeSends, Pdo!wPDO, Pdo!enablePDO
  <2> QED BY <1>2, <2>1 DEF PdoInv
<1>3. CASE Pdo!Next /\ ~pEnv.lossy
  BY <1>3, PdoWritten, PdoSends, PdoWrote, PdoEnables DEF Pdo!Next
<1> QED BY <1>1, <1>2, <1>3

\* If no write is lost, what a node sends by a PDO arrives at its device as it was
\* measured, and what is written arrives at the node, from the time at which they
\* are set up; before, nothing is misunderstood unless the node has a map of its
\* own.  Set up again or beside others (canopen.h:270-306), no PDO is registered
\* twice, and none takes the answer to an SDO: for any nodes and maps.
THEOREM PdoAlwaysUnderstood == Pdo!Spec => []PdoUnderstood
<1>1. PdoInv => PdoUnderstood
  BY DEF PdoInv, PdoTold, PdoTable, PdoUnderstood, Pdo!Understood
<1> QED BY <1>1, PdoInit, PdoNext, PTL DEF Pdo!Spec

=============================================================================
