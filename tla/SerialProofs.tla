---------------------------- MODULE SerialProofs ----------------------------
(***************************************************************************)
(* What is proved about what arrives over a line, for all constants that   *)
(* satisfy MCSerial's assumptions: the lines of comm/line.h and the frames *)
(* of comm/min.h are whole, were sent, and arrive in the order in which    *)
(* they were sent, wherever the stream is cut into buffers.  Frames are    *)
(* delivered whole over a line that does damage, too.                      *)
(***************************************************************************)
EXTENDS MCSerial, Lemmas

-----------------------------------------------------------------------------
(* Lines                                                                   *)

LinByte == Nat \X Nat
LinLine == Seq(LinByte)

\* The state that empty() hands from byte to byte.
LinRec == [source : Seq(LinLine), q : Seq(LinLine), l : LinLine, lost : Nat]

\* Byte b is the one that comes after byte a: the next one of its message, the
\* newline behind it, one more newline, or the start of the next message.
LinFollows(list, a, b) ==
  /\ a \in LinByte /\ b \in LinByte /\ b[1] \in 1 .. Len(list) /\ b[2] <= list[b[1]]
  /\ \/ b[2] # 0 /\ a[2] # 0 /\ b[1] = a[1] /\ b[2] = a[2] + 1
     \/ b[2] # 0 /\ a[2] = 0 /\ b[1] = a[1] + 1 /\ b[2] = 1
     \/ b[2] = 0 /\ a[2] # 0 /\ b[1] = a[1] /\ a[2] = list[a[1]]
     \/ b[2] = 0 /\ a[2] = 0 /\ b[1] = a[1]
     \/ b[2] = 0 /\ a[2] = 0 /\ b[1] = a[1] + 1 /\ list[b[1]] = 0

\* The last of i bytes that come after byte a; bytes that follow each other.
LinAfter(a, bytes, i)  == IF i = 0 THEN a ELSE bytes[i]
LinPath(list, a, bytes) ==
  \A i \in 1 .. Len(bytes) : LinFollows(list, LinAfter(a, bytes, i - 1), bytes[i])

\* A path is cut anywhere.
LEMMA LinPathConcat ==
  ASSUME NEW list, NEW a, NEW x \in LinLine, NEW y \in LinLine
  PROVE  LET z == LinAfter(a, x, Len(x))
         IN  /\ LinPath(list, a, x \o y) <=> LinPath(list, a, x) /\ LinPath(list, z, y)
             /\ LinAfter(a, x \o y, Len(x \o y)) = LinAfter(z, y, Len(y))
<1> DEFINE z == LinAfter(a, x, Len(x))
           c == x \o y
<1>1. /\ Len(x) \in Nat /\ Len(y) \in Nat /\ Len(c) = Len(x) + Len(y)
      /\ \A i \in 1 .. Len(x) + Len(y) : c[i] = IF i <= Len(x) THEN x[i] ELSE y[i - Len(x)]
  BY ConcatProperties DEF LinLine
<1> HIDE DEF c
<1>2. ASSUME NEW i \in 1 .. Len(x)
      PROVE  c[i] = x[i] /\ LinAfter(a, c, i - 1) = LinAfter(a, x, i - 1) /\ i \in 1 .. Len(c)
  <2>1. i \in 1 .. Len(x) + Len(y) /\ i <= Len(x) /\ (i - 1 # 0 => i - 1 \in 1 .. Len(x) + Len(y) /\ i - 1 <= Len(x))
    BY <1>1
  <2> QED BY <1>1, <2>1 DEF LinAfter
<1>3. ASSUME NEW i \in 1 .. Len(y)
      PROVE  /\ c[Len(x) + i] = y[i] /\ Len(x) + i \in 1 .. Len(c)
             /\ LinAfter(a, c, (Len(x) + i) - 1) = LinAfter(z, y, i - 1)
  <2>1. /\ Len(x) + i \in 1 .. Len(x) + Len(y) /\ ~(Len(x) + i <= Len(x)) /\ (Len(x) + i) - Len(x) = i
        /\ (Len(x) + i) - 1 = Len(x) + (i - 1)
    BY <1>1
  <2>2. c[Len(x) + i] = y[i]
    BY <1>1, <2>1
  <2>3. CASE i = 1
    <3>1. (Len(x) + i) - 1 = Len(x) /\ i - 1 = 0
      BY <1>1, <2>3
    <3>2. Len(x) # 0 => c[Len(x)] = x[Len(x)]
      BY <1>1
    <3> QED BY <1>1, <2>1, <2>2, <3>1, <3>2 DEF LinAfter
  <2>4. CASE i # 1
    <3>1. /\ Len(x) + (i - 1) \in 1 .. Len(x) + Len(y) /\ ~(Len(x) + (i - 1) <= Len(x))
          /\ (Len(x) + (i - 1)) - Len(x) = i - 1 /\ i - 1 # 0 /\ Len(x) + (i - 1) # 0
      BY <1>1, <2>4
    <3>2. c[Len(x) + (i - 1)] = y[i - 1]
      BY <1>1, <3>1
    <3> QED BY <1>1, <2>1, <2>2, <3>1, <3>2 DEF LinAfter
  <2> QED BY <2>3, <2>4
<1>4. LinPath(list, a, c) => LinPath(list, a, x) /\ LinPath(list, z, y)
  <2> SUFFICES ASSUME LinPath(list, a, c) PROVE LinPath(list, a, x) /\ LinPath(list, z, y)
    OBVIOUS
  <2> HIDE DEF z
  <2>1. ASSUME NEW i \in 1 .. Len(x) PROVE LinFollows(list, LinAfter(a, x, i - 1), x[i])
    BY <1>2 DEF LinPath
  <2>2. ASSUME NEW i \in 1 .. Len(y) PROVE LinFollows(list, LinAfter(z, y, i - 1), y[i])
    BY <1>3 DEF LinPath
  <2> QED BY <2>1, <2>2 DEF LinPath
<1>5. LinPath(list, a, x) /\ LinPath(list, z, y) => LinPath(list, a, c)
  <2> SUFFICES ASSUME LinPath(list, a, x), LinPath(list, z, y), NEW i \in 1 .. Len(c)
               PROVE  LinFollows(list, LinAfter(a, c, i - 1), c[i])
    BY DEF LinPath
  <2> HIDE DEF z
  <2>1. CASE i <= Len(x)
    <3>1. i \in 1 .. Len(x)
      BY <1>1, <2>1
    <3> QED BY <1>2, <3>1 DEF LinPath
  <2>2. CASE ~(i <= Len(x))
    <3> DEFINE j == i - Len(x)
    <3>1. j \in 1 .. Len(y) /\ Len(x) + j = i
      BY <1>1, <2>2
    <3> HIDE DEF j
    <3>2. LinFollows(list, LinAfter(z, y, j - 1), y[j])
      BY <3>1 DEF LinPath
    <3>3. c[Len(x) + j] = y[j] /\ LinAfter(a, c, (Len(x) + j) - 1) = LinAfter(z, y, j - 1)
      BY <1>3, <3>1
    <3> QED BY <3>1, <3>2, <3>3
  <2> QED BY <2>1, <2>2
<1>6. LinAfter(a, c, Len(c)) = LinAfter(z, y, Len(y))
  <2>1. CASE Len(y) = 0
    <3>1. Len(c) = Len(x)
      BY <1>1, <2>1
    <3>2. Len(x) # 0 => c[Len(x)] = x[Len(x)]
      BY <1>1
    <3> QED BY <2>1, <3>1, <3>2 DEF LinAfter
  <2>2. CASE Len(y) # 0
    <3>1. Len(y) \in 1 .. Len(y) /\ Len(c) = Len(x) + Len(y) /\ Len(c) # 0
      BY <1>1, <2>2
    <3>2. c[Len(c)] = y[Len(y)]
      BY <1>3, <3>1
    <3> QED BY <2>2, <3>1, <3>2 DEF LinAfter
  <2> QED BY <2>1, <2>2
<1> QED BY <1>4, <1>5, <1>6 DEF c

LEMMA LinFirst ==
  ASSUME NEW k
  PROVE  Lin!Kept(k, 1) = <<<<k, 1>>>>
<1>1. (1 - 1) \div Linelen = 0
  BY LinesAssumption
<1> DEFINE d == (1 - 1) \div Linelen
<1>2. d * Linelen = 0
  BY <1>1, LinesAssumption
<1> DEFINE p == d * Linelen
<1>3. Lin!Kept(k, 1) = [i \in 1 .. 1 - (p + 1) + 1 |-> <<k, (p + 1) + i - 1>>] /\ p = 0
  BY <1>2 DEF Lin!Kept
<1> HIDE DEF p
<1>4. Lin!Kept(k, 1) = [i \in 1 .. 1 |-> <<k, i>>]
  BY <1>3
<1> QED BY <1>4

\* What is in the stash after one more byte.
LEMMA LinKept ==
  ASSUME NEW k \in Nat, NEW n \in Nat \ {0}
  PROVE  /\ Lin!Kept(k, n) \in LinLine /\ Lin!Kept(k, n) # << >> /\ Lin!Kept(k, n)[1][1] = k
         /\ Lin!Kept(k, 1) = <<<<k, 1>>>>
         /\ Lin!Kept(k, n + 1) = IF Len(Lin!Kept(k, n)) = Linelen THEN <<<<k, n + 1>>>>
                                 ELSE Append(Lin!Kept(k, n), <<k, n + 1>>)
<1> DEFINE d == (n - 1) \div Linelen
           r == (n - 1) % Linelen
           p == Linelen * d
           s == Lin!Kept(k, n)
           t == Lin!Kept(k, n + 1)
<1>1. Linelen \in Nat \ {0}
  BY LinesAssumption
<1>2. d \in Nat /\ r \in 0 .. Linelen - 1 /\ n - 1 = p + r /\ p \in Nat
  <2>1. n - 1 \in Nat
    OBVIOUS
  <2>2. d \in Nat /\ r \in 0 .. Linelen - 1 /\ n - 1 = p + r
    BY <1>1, <2>1, DivMod
  <2> HIDE DEF d
  <2>3. p \in Nat
    BY <1>1, <2>2
  <2> QED BY <2>2, <2>3
<1>3. s = [i \in 1 .. n - (p + 1) + 1 |-> <<k, (p + 1) + i - 1>>]
  <2>1. d * Linelen = p
    <3>1. d \in Nat /\ Linelen \in Nat
      BY <1>1, <1>2
    <3> HIDE DEF d
    <3> QED BY <3>1
  <2> HIDE DEF p
  <2>2. s = [i \in 1 .. n - (d * Linelen + 1) + 1 |-> <<k, (d * Linelen + 1) + i - 1>>]
    BY DEF Lin!Kept
  <2> HIDE DEF d, s
  <2> QED BY <2>1, <2>2
<1>4. n \div Linelen = IF r = Linelen - 1 THEN d + 1 ELSE d
  <2>1. CASE r = Linelen - 1
    <3>1. n = Linelen * (d + 1) + 0 /\ d + 1 \in Nat /\ 0 \in 0 .. Linelen - 1
      <4>1. Linelen * (d + 1) = p + Linelen
        <5>1. d \in Nat /\ Linelen \in Nat
          BY <1>1, <1>2
        <5> HIDE DEF d
        <5> QED BY <5>1
      <4> DEFINE w == Linelen * (d + 1)
      <4> HIDE DEF w, p
      <4>2. n = w + 0
        BY <1>1, <1>2, <2>1, <4>1 DEF w
      <4> QED BY <1>1, <1>2, <4>2 DEF w
    <3> DEFINE w == d + 1
    <3> HIDE DEF w
    <3>2. w \in Nat /\ n = Linelen * w + 0
      BY <3>1 DEF w
    <3>3. n \div Linelen = w
      BY <1>1, <3>1, <3>2, DivIs
    <3> QED BY <2>1, <3>3 DEF w
  <2>2. CASE r # Linelen - 1
    <3>1. n = p + (r + 1) /\ r + 1 \in 0 .. Linelen - 1
      <4> HIDE DEF p, r
      <4> QED BY <1>1, <1>2, <2>2
    <3>2. n = Linelen * d + (r + 1)
      BY <3>1
    <3> DEFINE w == r + 1
    <3> HIDE DEF w, d
    <3>3. d \in Nat /\ w \in 0 .. Linelen - 1 /\ n = Linelen * d + w
      BY <1>2, <3>1, <3>2 DEF w
    <3>4. n \div Linelen = d
      BY <1>1, <3>3, DivIs
    <3> QED BY <2>2, <3>4
  <2> QED BY <2>1, <2>2
<1>5. LET f == (n \div Linelen) * Linelen + 1
      IN  t = [i \in 1 .. (n + 1) - f + 1 |-> <<k, f + i - 1>>]
  <2>1. (n + 1) - 1 = n
    OBVIOUS
  <2> QED BY <2>1 DEF Lin!Kept
<1> HIDE DEF s, t
<1>6. /\ s \in LinLine /\ Len(s) = r + 1 /\ s # << >> /\ s[1][1] = k
      /\ \A i \in 1 .. r + 1 : s[i] = <<k, p + i>>
  <2>1. n - (p + 1) + 1 = r + 1 /\ r + 1 \in Nat /\ 1 \in 1 .. r + 1
    <3> HIDE DEF p, r
    <3> QED BY <1>2
  <2>2. \A i \in 1 .. r + 1 : (p + 1) + i - 1 = p + i /\ p + i \in Nat
    <3> HIDE DEF p, r
    <3> QED BY <1>2
  <2> HIDE DEF p, r
  <2>3. s = [i \in 1 .. r + 1 |-> <<k, p + i>>]
    BY <1>3, <2>1, <2>2
  <2>4. /\ s \in LinLine /\ Len(s) = r + 1
        /\ \A i \in 1 .. r + 1 : s[i] = <<k, p + i>>
    <3>1. \A i \in 1 .. r + 1 : <<k, p + i>> \in LinByte
      BY <2>2 DEF LinByte
    <3>2. r + 1 \in Nat
      BY <2>1
    <3> DEFINE w == r + 1
    <3> HIDE DEF w
    <3> QED BY <2>3, <3>1, <3>2 DEF LinLine, w
  <2> QED BY <2>1, <2>4
<1>7. CASE r = Linelen - 1
  <2>1. (n \div Linelen) * Linelen = n
    <3>1. n \div Linelen = d + 1
      BY <1>4, <1>7
    <3>2. (d + 1) * Linelen = p + Linelen
      <4>1. d \in Nat /\ Linelen \in Nat
        BY <1>1, <1>2
      <4> HIDE DEF d
      <4> QED BY <4>1
    <3> HIDE DEF p, d
    <3>3. p + Linelen = n
      BY <1>1, <1>2, <1>7
    <3> QED BY <3>1, <3>2, <3>3
  <2> DEFINE w == (n \div Linelen) * Linelen
  <2>2. t = [i \in 1 .. (n + 1) - (w + 1) + 1 |-> <<k, (w + 1) + i - 1>>] /\ w = n
    BY <1>5, <2>1
  <2> HIDE DEF w
  <2>3. (n + 1) - (w + 1) + 1 = 1 /\ (w + 1) + 1 - 1 = n + 1
    BY <2>2
  <2>4. t = <<<<k, n + 1>>>>
    BY <2>2, <2>3
  <2>5. Len(s) = Linelen
    BY <1>1, <1>6, <1>7
  <2> QED BY <1>6, <2>4, <2>5, LinFirst DEF s, t
<1>8. CASE r # Linelen - 1
  <2>1. (n \div Linelen) * Linelen = p
    <3>1. n \div Linelen = d
      BY <1>4, <1>8
    <3>2. d * Linelen = p
      <4>1. d \in Nat /\ Linelen \in Nat
        BY <1>1, <1>2
      <4> HIDE DEF d
      <4> QED BY <4>1
    <3> QED BY <3>1, <3>2
  <2> DEFINE w == (n \div Linelen) * Linelen
  <2>2. t = [i \in 1 .. (n + 1) - (w + 1) + 1 |-> <<k, (w + 1) + i - 1>>] /\ w = p
    BY <1>5, <2>1
  <2> HIDE DEF w, p, r
  <2>3. (n + 1) - (w + 1) + 1 = r + 2 /\ \A i \in 1 .. r + 2 : (w + 1) + i - 1 = p + i /\ p + i \in Nat
    BY <1>2, <2>2
  <2>4. t = [i \in 1 .. r + 2 |-> <<k, p + i>>]
    BY <2>2, <2>3
  <2>5. /\ t \in LinLine /\ Len(t) = r + 2 /\ \A i \in 1 .. r + 2 : t[i] = <<k, p + i>>
    <3>1. r + 2 \in Nat
      BY <1>2
    <3> QED BY <2>3, <2>4, <3>1 DEF LinLine, LinByte
  <2> DEFINE u == Append(s, <<k, n + 1>>)
  <2>6. /\ u \in LinLine /\ Len(u) = r + 2 /\ u[r + 2] = <<k, n + 1>>
        /\ \A i \in 1 .. r + 1 : u[i] = s[i]
    <3>1. s \in Seq(LinByte) /\ <<k, n + 1>> \in LinByte /\ Len(s) + 1 = r + 2
      BY <1>2, <1>6 DEF LinLine, LinByte
    <3>2. /\ u \in Seq(LinByte) /\ Len(u) = Len(s) + 1 /\ u[Len(s) + 1] = <<k, n + 1>>
          /\ \A i \in 1 .. Len(s) : u[i] = s[i]
      BY <3>1, AppendProperties
    <3> HIDE DEF u
    <3> QED BY <1>6, <3>1, <3>2 DEF LinLine
  <2> HIDE DEF u
  <2>7. ASSUME NEW i \in 1 .. Len(t) PROVE t[i] = u[i]
    <3>1. t[i] = <<k, p + i>>
      BY <2>5
    <3>2. CASE i = r + 2
      <4>1. p + i = n + 1
        BY <1>2, <3>2
      <4> QED BY <2>6, <3>1, <3>2, <4>1
    <3>3. CASE i # r + 2
      <4>1. i \in 1 .. r + 1
        BY <1>2, <2>5, <3>3
      <4> QED BY <1>6, <2>6, <3>1, <4>1
    <3> QED BY <3>2, <3>3
  <2>8. t = u
    <3>1. t \in Seq(LinByte) /\ u \in Seq(LinByte) /\ Len(t) = Len(u)
      BY <2>5, <2>6 DEF LinLine
    <3> QED BY <2>7, <3>1, SeqEqual
  <2>9. Len(s) # Linelen
    BY <1>1, <1>2, <1>6, <1>8
  <2> QED BY <1>6, <2>8, <2>9, LinFirst DEF s, t, u
<1> QED BY <1>7, <1>8

\* The lines that come of the messages in list, each as a sequence of one line,
\* or of none.
LinFills(list) == [k \in 1 .. Len(list) |-> IF list[k] = 0 THEN << >> ELSE <<Lin!Kept(k, list[k])>>]

\* The lines that have come of the first h messages, but for those that were lost.
LinDone(list, h, lines, lost) ==
  /\ lines \in Seq(LinLine) /\ lost \in Nat /\ h \in 0 .. Len(list)
  /\ Len(lines) + lost = Len(Firsts(LinFills(list), h))
  /\ lost = 0 => lines = Firsts(LinFills(list), h)
  /\ \A i \in 1 .. Len(lines) : \E k \in 1 .. h : list[k] # 0 /\ lines[i] = Lin!Kept(k, list[k])
  /\ \A i \in 1 .. Len(lines) : \A j \in 1 .. Len(lines) : i < j => lines[i][1][1] < lines[j][1][1]

\* Bytes up to a have been received.
LinState(list, a, l, lines, lost) ==
  /\ a \in LinByte /\ a[1] \in 0 .. Len(list)
  /\ IF a[2] = 0 THEN l = << >> /\ LinDone(list, a[1], lines, lost)
     ELSE /\ a[1] # 0 /\ a[2] <= list[a[1]] /\ l = Lin!Kept(a[1], a[2])
          /\ LinDone(list, a[1] - 1, lines, lost)

LEMMA LinParts ==
  ASSUME NEW list \in Seq(Nat)
  PROVE  /\ Len(list) \in Nat /\ SeqParts(LinFills(list), Len(list), LinLine)
         /\ \A n \in 0 .. Len(list) : SeqParts(LinFills(list), n, LinLine) /\ n \in Nat
<1>1. Len(list) \in Nat
  OBVIOUS
<1>2. ASSUME NEW k \in 1 .. Len(list) PROVE LinFills(list)[k] \in Seq(LinLine)
  <2>1. LinFills(list)[k] = IF list[k] = 0 THEN << >> ELSE <<Lin!Kept(k, list[k])>>
    BY DEF LinFills
  <2>2. CASE list[k] = 0
    BY <2>1, <2>2
  <2>3. CASE list[k] # 0
    <3>1. k \in Nat /\ list[k] \in Nat \ {0}
      BY <2>3
    <3>2. Lin!Kept(k, list[k]) \in LinLine
      BY <3>1, LinKept
    <3> QED BY <2>1, <2>3, <3>2
  <2> QED BY <2>2, <2>3
<1>3. SeqParts(LinFills(list), Len(list), LinLine)
  BY <1>2 DEF SeqParts
<1>4. ASSUME NEW n \in 0 .. Len(list) PROVE SeqParts(LinFills(list), n, LinLine) /\ n \in Nat
  BY <1>2 DEF SeqParts
<1> QED BY <1>1, <1>3, <1>4

\* An empty message brings no line.
LEMMA LinDoneEmpty ==
  ASSUME NEW list \in Seq(Nat), NEW h, NEW lines, NEW lost, LinDone(list, h, lines, lost),
         h + 1 \in 1 .. Len(list), list[h + 1] = 0
  PROVE  LinDone(list, h + 1, lines, lost)
<1> DEFINE f == LinFills(list)
<1>1. h \in Nat /\ SeqParts(f, h + 1, LinLine) /\ h + 1 \in 0 .. Len(list)
  <2>1. h \in 0 .. Len(list)
    BY DEF LinDone
  <2>2. h + 1 \in 0 .. Len(list) /\ h \in Nat
    BY <2>1
  <2> QED BY <2>2, LinParts
<1>2. f[h + 1] = << >>
  BY DEF LinFills
<1> HIDE DEF f
<1>3. Firsts(f, h) \in Seq(LinLine) /\ Firsts(f, h + 1) = Firsts(f, h) \o f[h + 1]
  BY <1>1, FirstsNext
<1>4. Firsts(f, h) \o << >> = Firsts(f, h)
  BY <1>3, ConcatEmptySeq
<1>5. Firsts(f, h + 1) = Firsts(f, h)
  BY <1>2, <1>3, <1>4
<1>6. \A k \in 1 .. h : k \in 1 .. h + 1
  BY <1>1
<1>7. /\ lines \in Seq(LinLine) /\ lost \in Nat
      /\ Len(lines) + lost = Len(Firsts(f, h))
      /\ (lost = 0 => lines = Firsts(f, h))
      /\ \A i \in 1 .. Len(lines) : \A j \in 1 .. Len(lines) : i < j => lines[i][1][1] < lines[j][1][1]
      /\ \A i \in 1 .. Len(lines) : \E k \in 1 .. h : list[k] # 0 /\ lines[i] = Lin!Kept(k, list[k])
  BY DEF LinDone, f
<1>8. \A i \in 1 .. Len(lines) : \E k \in 1 .. h + 1 : list[k] # 0 /\ lines[i] = Lin!Kept(k, list[k])
  BY <1>6, <1>7
<1> QED BY <1>1, <1>5, <1>7, <1>8 DEF LinDone, f

\* Any other brings one, which arrives or is lost.
LEMMA LinDoneLine ==
  ASSUME NEW list \in Seq(Nat), NEW h, NEW lines, NEW lost, LinDone(list, h, lines, lost),
         h + 1 \in 1 .. Len(list), list[h + 1] # 0
  PROVE  /\ LinDone(list, h + 1, Append(lines, Lin!Kept(h + 1, list[h + 1])), lost)
         /\ LinDone(list, h + 1, lines, lost + 1)
<1> DEFINE f == LinFills(list)
           x == Lin!Kept(h + 1, list[h + 1])
           e == Firsts(f, h)
           new == Append(lines, x)
<1>1. h \in Nat /\ SeqParts(f, h + 1, LinLine) /\ h + 1 \in 0 .. Len(list) /\ list[h + 1] \in Nat \ {0}
  <2>1. h \in 0 .. Len(list)
    BY DEF LinDone
  <2>2. h + 1 \in 0 .. Len(list) /\ h \in Nat /\ list[h + 1] \in Nat \ {0}
    BY <2>1
  <2> QED BY <2>2, LinParts
<1>2. f[h + 1] = <<x>>
  BY DEF LinFills
<1>3. x \in LinLine /\ x[1][1] = h + 1
  <2>1. h + 1 \in Nat
    BY <1>1
  <2> QED BY <1>1, <2>1, LinKept
<1> HIDE DEF f, x
<1>4. e \in Seq(LinLine) /\ Firsts(f, h + 1) = e \o <<x>>
  BY <1>1, <1>2, FirstsNext
<1> HIDE DEF e
<1>5. Firsts(f, h + 1) = Append(e, x) /\ Len(Firsts(f, h + 1)) = Len(e) + 1 /\ Len(e) \in Nat
  <2>1. Append(e, x) = e \o <<x>>
    BY <1>3, <1>4, AppendIsConcat
  <2>2. Len(Append(e, x)) = Len(e) + 1
    BY <1>3, <1>4, AppendProperties
  <2> QED BY <1>4, <2>1, <2>2
<1>6. /\ lines \in Seq(LinLine) /\ lost \in Nat
      /\ Len(lines) + lost = Len(e)
      /\ (lost = 0 => lines = e)
      /\ \A i \in 1 .. Len(lines) : \A j \in 1 .. Len(lines) : i < j => lines[i][1][1] < lines[j][1][1]
      /\ \A i \in 1 .. Len(lines) : \E k \in 1 .. h : list[k] # 0 /\ lines[i] = Lin!Kept(k, list[k])
  BY DEF LinDone, f, e
<1>7. \A i \in 1 .. Len(lines) : \E k \in 1 .. h + 1 : list[k] # 0 /\ lines[i] = Lin!Kept(k, list[k])
  <2>1. \A k \in 1 .. h : k \in 1 .. h + 1
    BY <1>1
  <2> QED BY <1>6, <2>1
<1>8. /\ new \in Seq(LinLine) /\ Len(new) = Len(lines) + 1 /\ Len(lines) \in Nat
      /\ new[Len(lines) + 1] = x /\ \A i \in 1 .. Len(lines) : new[i] = lines[i]
  <2>1. /\ new \in Seq(LinLine) /\ Len(new) = Len(lines) + 1
        /\ new[Len(lines) + 1] = x /\ \A i \in 1 .. Len(lines) : new[i] = lines[i]
    BY <1>3, <1>6, AppendProperties
  <2> QED BY <1>6, <2>1
<1> HIDE DEF new
<1>9. ASSUME NEW i \in 1 .. Len(new)
      PROVE  \E k \in 1 .. h + 1 : list[k] # 0 /\ new[i] = Lin!Kept(k, list[k])
  <2>1. CASE i = Len(lines) + 1
    <3>1. new[i] = Lin!Kept(h + 1, list[h + 1]) /\ h + 1 \in 1 .. h + 1
      BY <1>1, <1>8, <2>1 DEF x
    <3> QED BY <3>1
  <2>2. CASE i # Len(lines) + 1
    <3>1. i \in 1 .. Len(lines)
      BY <1>8, <2>2
    <3> QED BY <1>7, <1>8, <3>1
  <2> QED BY <2>1, <2>2
<1>10. ASSUME NEW i \in 1 .. Len(new), NEW j \in 1 .. Len(new), i < j
       PROVE  new[i][1][1] < new[j][1][1]
  <2>1. i \in 1 .. Len(lines)
    BY <1>8, <1>10
  <2>2. CASE j = Len(lines) + 1
    <3>1. PICK k \in 1 .. h : list[k] # 0 /\ lines[i] = Lin!Kept(k, list[k])
      BY <1>6, <2>1
    <3>2. k \in Nat /\ list[k] \in Nat \ {0} /\ k < h + 1
      <4>1. k \in 1 .. Len(list) /\ k \in Nat /\ k < h + 1
        BY <1>1
      <4> QED BY <3>1, <4>1
    <3>3. Lin!Kept(k, list[k])[1][1] = k
      BY <3>2, LinKept
    <3> QED BY <1>3, <1>8, <2>1, <2>2, <3>1, <3>2, <3>3
  <2>3. CASE j # Len(lines) + 1
    <3>1. j \in 1 .. Len(lines)
      BY <1>8, <2>3
    <3> QED BY <1>6, <1>8, <1>10, <2>1, <3>1
  <2> QED BY <2>2, <2>3
<1>11. /\ Len(new) + lost = Len(Firsts(f, h + 1))
       /\ (lost = 0 => new = Firsts(f, h + 1))
       /\ Len(lines) + (lost + 1) = Len(Firsts(f, h + 1)) /\ lost + 1 \in Nat /\ lost + 1 # 0
  <2>1. lost = 0 => new = Firsts(f, h + 1)
    BY <1>5, <1>6 DEF new
  <2> QED BY <1>5, <1>6, <1>8, <2>1
<1>12. LinDone(list, h + 1, new, lost)
  BY <1>1, <1>6, <1>8, <1>9, <1>10, <1>11 DEF LinDone, f
<1>13. LinDone(list, h + 1, lines, lost + 1)
  BY <1>1, <1>6, <1>7, <1>11 DEF LinDone, f
<1> QED BY <1>12, <1>13 DEF new, x

\* A message that is sent changes nothing about those before.
LEMMA LinDoneSent ==
  ASSUME NEW list \in Seq(Nat), NEW n \in Nat, NEW h, NEW lines, NEW lost, LinDone(list, h, lines, lost)
  PROVE  LinDone(Append(list, n), h, lines, lost)
<1> DEFINE new == Append(list, n)
<1>1. Len(new) = Len(list) + 1 /\ Len(list) \in Nat /\ \A k \in 1 .. Len(list) : new[k] = list[k]
  BY AppendProperties
<1> HIDE DEF new
<1>2. h \in 0 .. Len(list) /\ h \in 0 .. Len(new)
  BY <1>1 DEF LinDone
<1>3. \A k \in 1 .. h : new[k] = list[k] /\ LinFills(new)[k] = LinFills(list)[k]
  <2> SUFFICES ASSUME NEW k \in 1 .. h PROVE new[k] = list[k] /\ LinFills(new)[k] = LinFills(list)[k]
    OBVIOUS
  <2>1. k \in 1 .. Len(list) /\ k \in 1 .. Len(new)
    BY <1>1, <1>2
  <2> QED BY <1>1, <2>1 DEF LinFills
<1>4. Firsts(LinFills(new), h) = Firsts(LinFills(list), h)
  <2>1. [k \in 1 .. h |-> LinFills(new)[k]] = [k \in 1 .. h |-> LinFills(list)[k]]
    BY <1>3
  <2> QED BY <2>1 DEF Firsts
<1>5. \A i \in 1 .. Len(lines) : \E k \in 1 .. h : new[k] # 0 /\ lines[i] = Lin!Kept(k, new[k])
  <2>1. \A i \in 1 .. Len(lines) : \E k \in 1 .. h : list[k] # 0 /\ lines[i] = Lin!Kept(k, list[k])
    BY DEF LinDone
  <2> QED BY <1>3, <2>1
<1>6. LinDone(new, h, lines, lost)
  BY <1>2, <1>4, <1>5 DEF LinDone
<1> QED BY <1>6 DEF new

\* What recv() does with a byte.
LinReceives(s, t, b) ==
  /\ t \in LinRec /\ t.source = s.source
  /\ b[2] = 0 /\ s.l = << >> => t = s
  /\ b[2] = 0 /\ s.l # << >> =>
       t.l = << >> /\ \/ t.q = Append(s.q, s.l) /\ t.lost = s.lost
                      \/ t.q = s.q /\ t.lost = s.lost + 1
  /\ b[2] # 0 => /\ t.q = s.q /\ t.lost = s.lost
                 /\ t.l = IF Len(s.l) = Linelen THEN <<b>> ELSE Append(s.l, b)

LEMMA LinReceived ==
  ASSUME NEW s \in LinRec, NEW b \in LinByte
  PROVE  LinReceives(s, Lin!recv(s, b), b)
<1> DEFINE t == Lin!recv(s, b)
<1>1. /\ s.source \in Seq(LinLine) /\ s.q \in Seq(LinLine) /\ s.l \in LinLine /\ s.lost \in Nat
      /\ s = [source |-> s.source, q |-> s.q, l |-> s.l, lost |-> s.lost]
  BY DEF LinRec
<1>2. CASE b[2] = 0 /\ s.l = << >>
  <2>1. t = s
    BY <1>2 DEF Lin!recv, Lin!NL
  <2> QED BY <1>1, <1>2, <2>1 DEF LinReceives
<1>3. CASE b[2] = 0 /\ s.l # << >>
  <2>1. t = Lin!HandedOver(s)
    BY <1>3 DEF Lin!recv, Lin!NL
  <2>2. CASE Len(s.q) < LinQSize
    <3>1. t = [source |-> s.source, q |-> Append(s.q, s.l), l |-> << >>, lost |-> s.lost]
      <4>1. t = [s EXCEPT !.q = Append(@, s.l), !.l = << >>]
        BY <2>1, <2>2 DEF Lin!HandedOver
      <4> QED BY <1>1, <4>1
    <3>2. Append(s.q, s.l) \in Seq(LinLine) /\ << >> \in LinLine
      BY <1>1, AppendProperties DEF LinLine
    <3>3. t \in LinRec
      BY <1>1, <3>1, <3>2 DEF LinRec
    <3> QED BY <1>3, <3>1, <3>3 DEF LinReceives
  <2>3. CASE ~(Len(s.q) < LinQSize)
    <3>1. t = [source |-> s.source, q |-> s.q, l |-> << >>, lost |-> s.lost + 1]
      <4>1. t = [s EXCEPT !.l = << >>, !.lost = @ + 1]
        BY <2>1, <2>3 DEF Lin!HandedOver
      <4> QED BY <1>1, <4>1
    <3>2. << >> \in LinLine /\ s.lost + 1 \in Nat
      BY <1>1 DEF LinLine
    <3>3. t \in LinRec
      BY <1>1, <3>1, <3>2 DEF LinRec
    <3> QED BY <1>3, <3>1, <3>3 DEF LinReceives
  <2> QED BY <2>2, <2>3
<1>4. CASE b[2] # 0
  <2> DEFINE l == IF Len(s.l) = Linelen THEN <<b>> ELSE Append(s.l, b)
  <2>1. t = [source |-> s.source, q |-> s.q, l |-> l, lost |-> s.lost]
    <3>1. t = [s EXCEPT !.l = l]
      BY <1>4 DEF Lin!recv, Lin!NL
    <3> HIDE DEF l
    <3> QED BY <1>1, <3>1
  <2>2. l \in LinLine
    <3>1. Append(s.l, b) \in LinLine /\ <<b>> \in LinLine
      BY <1>1, AppendProperties DEF LinLine
    <3> QED BY <3>1
  <2> HIDE DEF l
  <2>3. t \in LinRec
    BY <1>1, <2>1, <2>2 DEF LinRec
  <2> QED BY <1>4, <2>1, <2>3 DEF LinReceives, l
<1> QED BY <1>2, <1>3, <1>4

\* One byte after the other.
LEMMA LinByteReceived ==
  ASSUME NEW list \in Seq(Nat), NEW got \in Seq(LinLine), NEW s \in LinRec, NEW a, NEW b,
         LinState(list, a, s.l, got \o s.q, s.lost), LinFollows(list, a, b),
         NEW t, LinReceives(s, t, b)
  PROVE  LinState(list, b, t.l, got \o t.q, t.lost)
<1> DEFINE m == Len(list)
           lines == got \o s.q
<1>1. /\ a \in LinByte /\ b \in LinByte /\ m \in Nat /\ a[1] \in Nat /\ a[2] \in Nat /\ b[1] \in Nat
      /\ b[2] \in Nat /\ a = <<a[1], a[2]>> /\ b = <<b[1], b[2]>>
      /\ b[1] \in 1 .. m /\ b[1] \in 0 .. m /\ b[1] # 0 /\ b[2] <= list[b[1]] /\ list[b[1]] \in Nat
  BY DEF LinFollows, LinByte
<1>2. /\ s.q \in Seq(LinLine) /\ s.l \in LinLine /\ lines \in Seq(LinLine)
  <2>1. s.q \in Seq(LinLine) /\ s.l \in LinLine
    BY DEF LinRec
  <2> QED BY <2>1, ConcatProperties
<1>3. a[2] = 0 => s.l = << >> /\ LinDone(list, a[1], lines, s.lost)
  BY DEF LinState
<1>4. a[2] # 0 => /\ a[1] # 0 /\ a[2] <= list[a[1]] /\ s.l = Lin!Kept(a[1], a[2])
                  /\ LinDone(list, a[1] - 1, lines, s.lost)
  BY DEF LinState
<1>5. b[2] # 0 => t.q = s.q /\ t.lost = s.lost /\ t.l = IF Len(s.l) = Linelen THEN <<b>> ELSE Append(s.l, b)
  BY DEF LinReceives
<1>6. CASE b[2] # 0 /\ a[2] # 0 /\ b[1] = a[1] /\ b[2] = a[2] + 1
  <2>1. a[2] \in Nat \ {0}
    BY <1>1, <1>6
  <2>2. t.l = Lin!Kept(b[1], b[2])
    <3> DEFINE k == a[1]
               n == a[2]
    <3>1. Lin!Kept(k, n + 1) = IF Len(Lin!Kept(k, n)) = Linelen THEN <<<<k, n + 1>>>>
                               ELSE Append(Lin!Kept(k, n), <<k, n + 1>>)
      <4>1. k \in Nat /\ n \in Nat \ {0}
        BY <1>1, <2>1
      <4> HIDE DEF k, n
      <4> QED BY <4>1, LinKept
    <3>2. b = <<k, n + 1>> /\ s.l = Lin!Kept(k, n) /\ t.l = IF Len(s.l) = Linelen THEN <<b>> ELSE Append(s.l, b)
      BY <1>1, <1>4, <1>5, <1>6
    <3>3. b[1] = k /\ b[2] = n + 1
      BY <1>6
    <3> HIDE DEF k, n
    <3> QED BY <3>1, <3>2, <3>3
  <2> QED BY <1>1, <1>4, <1>5, <1>6, <2>2 DEF LinState
<1>7. CASE b[2] # 0 /\ a[2] = 0 /\ b[1] = a[1] + 1 /\ b[2] = 1
  <2>1. t.l = <<b>>
    <3>1. s.l = << >> /\ Append(<< >>, b) = <<b>>
      BY <1>3, <1>7
    <3> QED BY <1>5, <1>7, <3>1
  <2>2. t.l = Lin!Kept(b[1], b[2])
    <3>1. Lin!Kept(b[1], 1) = <<<<b[1], 1>>>>
      BY LinFirst
    <3> QED BY <1>1, <1>7, <2>1, <3>1
  <2>3. b[1] - 1 = a[1]
    BY <1>1, <1>7
  <2> QED BY <1>1, <1>3, <1>5, <1>7, <2>2, <2>3 DEF LinState
<1>8. CASE b[2] = 0 /\ a[2] # 0 /\ b[1] = a[1] /\ a[2] = list[a[1]]
  <2> DEFINE h == a[1] - 1
  <2>1. h + 1 = a[1] /\ h + 1 \in 1 .. m /\ list[h + 1] # 0 /\ list[h + 1] \in Nat \ {0} /\ h + 1 \in Nat
    BY <1>1, <1>8
  <2>2. s.l = Lin!Kept(h + 1, list[h + 1]) /\ LinDone(list, h, lines, s.lost)
    BY <1>4, <1>8, <2>1
  <2> HIDE DEF h, lines
  <2>3. s.l # << >>
    BY <2>1, <2>2, LinKept, ZenonT(60)
  <2>4. t.l = << >> /\ \/ t.q = Append(s.q, s.l) /\ t.lost = s.lost
                       \/ t.q = s.q /\ t.lost = s.lost + 1
    BY <1>8, <2>3 DEF LinReceives
  <2>5. /\ LinDone(list, h + 1, Append(lines, s.l), s.lost)
        /\ LinDone(list, h + 1, lines, s.lost + 1)
    BY <2>1, <2>2, LinDoneLine
  <2>6. got \o Append(s.q, s.l) = Append(lines, s.l)
    BY <1>2, SMTT(60) DEF lines
  <2>7. LinDone(list, b[1], got \o t.q, t.lost)
    BY <1>8, <2>1, <2>4, <2>5, <2>6 DEF lines
  <2> QED BY <1>1, <1>8, <2>4, <2>7 DEF LinState
<1>9. CASE b[2] = 0 /\ a[2] = 0 /\ b[1] = a[1]
  <2>1. t = s
    BY <1>3, <1>9 DEF LinReceives
  <2> QED BY <1>1, <1>3, <1>9, <2>1 DEF LinState
<1>10. CASE b[2] = 0 /\ a[2] = 0 /\ b[1] = a[1] + 1 /\ list[b[1]] = 0
  <2>1. t = s
    BY <1>3, <1>10 DEF LinReceives
  <2>2. LinDone(list, a[1] + 1, lines, s.lost)
    <3>1. a[1] + 1 \in 1 .. m /\ list[a[1] + 1] = 0 /\ LinDone(list, a[1], lines, s.lost)
      BY <1>1, <1>3, <1>10
    <3> HIDE DEF lines
    <3> QED BY <3>1, LinDoneEmpty
  <2> QED BY <1>1, <1>3, <1>10, <2>1, <2>2 DEF LinState
<1>11. \/ b[2] # 0 /\ a[2] # 0 /\ b[1] = a[1] /\ b[2] = a[2] + 1
       \/ b[2] # 0 /\ a[2] = 0 /\ b[1] = a[1] + 1 /\ b[2] = 1
       \/ b[2] = 0 /\ a[2] # 0 /\ b[1] = a[1] /\ a[2] = list[a[1]]
       \/ b[2] = 0 /\ a[2] = 0 /\ b[1] = a[1]
       \/ b[2] = 0 /\ a[2] = 0 /\ b[1] = a[1] + 1 /\ list[b[1]] = 0
  BY DEF LinFollows
<1> QED BY <1>6, <1>7, <1>8, <1>9, <1>10, <1>11

\* The bytes to come: they follow what was received, up to the end of the last
\* message.
LinToCome(list, a, bytes) ==
  LinPath(list, a, bytes) /\ LinAfter(a, bytes, Len(bytes)) = <<Len(list), 0>>

LinGood(list, wire, got, s) ==
  \E a \in LinByte : /\ LinState(list, a, s.l, got \o s.q, s.lost)
                     /\ LinToCome(list, a, SeqExt!FlattenSeq(s.source) \o wire)

\* The bytes of a portion are taken one after the other: r is what is left.
LinBytes(r, s, bytes, u) ==
  /\ u[0] = s /\ \A n \in 1 .. Len(bytes) : u[n] = Lin!recv(u[n - 1], bytes[n])
  /\ \A n \in 0 .. Len(bytes) : u[n] \in LinRec
  /\ r = u[Len(bytes)]

LEMMA LinLoop ==
  ASSUME NEW s \in LinRec, s.source # << >>, Len(s.q) # LinQSize,
         NEW r, r = Lin!PortionTaken(s)
  PROVE  /\ Head(s.source) \in LinLine /\ [s EXCEPT !.source = Tail(@)] \in LinRec
         /\ \E u : LinBytes(r, [s EXCEPT !.source = Tail(@)], Head(s.source), u)
<1> DEFINE bytes == Head(s.source)
           L == Len(bytes)
           a == [s EXCEPT !.source = Tail(@)]
           F(f) == f = [n \in 0 .. L |-> IF n = 0 THEN a ELSE Lin!recv(f[n - 1], bytes[n])]
           u == CHOOSE f : F(f)
           step == [n \in 1 .. L |-> [x \in LinRec |-> Lin!recv(x, bytes[n])]]
<1>1. s.source \in Seq(LinLine) /\ bytes \in LinLine /\ Tail(s.source) \in Seq(LinLine)
  <2>1. s.source \in Seq(LinLine)
    BY DEF LinRec
  <2> QED BY <2>1, HeadTailProperties
<1>2. a \in LinRec
  BY <1>1 DEF LinRec
<1>3. L \in Nat /\ \A n \in 1 .. L : bytes[n] \in LinByte
  BY <1>1 DEF LinLine
<1>4. r = u[L]
  BY Zenon DEF Lin!PortionTaken
<1>5. ASSUME NEW n \in 1 .. L, NEW x \in LinRec PROVE Lin!recv(x, bytes[n]) \in LinRec
  BY <1>3, LinReceived DEF LinReceives
<1>6. Steps(L, LinRec, step)
  BY <1>5 DEF Steps
<1>7. \A n \in 1 .. L, x \in LinRec : step[n][x] = Lin!recv(x, bytes[n])
  OBVIOUS
<1> HIDE DEF step, a, L, bytes
<1>8. PICK g : Walk(L, LinRec, a, step, g)
  BY <1>2, <1>3, <1>6, StepsTaken
<1>9. F(g)
  <2>1. g \in [0 .. L -> LinRec] /\ g[0] = a
    BY <1>8 DEF Walk
  <2>2. \A n \in 0 .. L : g[n] = IF n = 0 THEN a ELSE Lin!recv(g[n - 1], bytes[n])
    <3> SUFFICES ASSUME NEW n \in 0 .. L PROVE g[n] = IF n = 0 THEN a ELSE Lin!recv(g[n - 1], bytes[n])
      OBVIOUS
    <3>1. CASE n = 0
      BY <2>1, <3>1
    <3>2. CASE n # 0
      <4>1. n \in 1 .. L /\ n - 1 \in 0 .. L
        BY <1>3, <3>2
      <4>2. g[n] = step[n][g[n - 1]] /\ g[n - 1] \in LinRec
        BY <1>8, <4>1 DEF Walk
      <4> QED BY <1>7, <3>2, <4>1, <4>2
    <3> QED BY <3>1, <3>2
  <2>3. g = [n \in 0 .. L |-> g[n]]
    BY <2>1
  <2> QED BY <2>2, <2>3, Zenon
<1>10. F(u)
  <2> HIDE DEF F
  <2> QED BY <1>9
<1> HIDE DEF u
<1>11. \A n \in 0 .. L : u[n] = IF n = 0 THEN a ELSE Lin!recv(u[n - 1], bytes[n])
  <2>1. u = [n \in 0 .. L |-> IF n = 0 THEN a ELSE Lin!recv(u[n - 1], bytes[n])]
    BY <1>10
  <2> SUFFICES ASSUME NEW n \in 0 .. L PROVE u[n] = IF n = 0 THEN a ELSE Lin!recv(u[n - 1], bytes[n])
    OBVIOUS
  <2> QED BY <2>1, Zenon
<1>12. u[0] = a /\ \A n \in 1 .. L : u[n] = Lin!recv(u[n - 1], bytes[n])
  <2>1. 0 \in 0 .. L /\ \A n \in 1 .. L : n \in 0 .. L /\ n # 0
    BY <1>3
  <2> QED BY <1>11, <2>1, Zenon
<1>13. \A n \in 0 .. L : u[n] \in LinRec
  <2> DEFINE T == {n \in 0 .. L : u[n] \in LinRec}
  <2>1. 0 \in T
    BY <1>2, <1>3, <1>12
  <2>2. ASSUME NEW n \in 1 .. L, n - 1 \in T PROVE n \in T
    <3>1. n \in 0 .. L /\ u[n - 1] \in LinRec
      BY <1>3, <2>2
    <3>2. u[n] \in LinRec
      BY <1>5, <1>12, <3>1
    <3> QED BY <3>1, <3>2
  <2> HIDE DEF T
  <2>3. \A n \in 0 .. L : n \in T
    BY <1>3, <2>1, <2>2, UpTo
  <2> QED BY <2>3 DEF T
<1>14. LinBytes(r, a, bytes, u)
  BY <1>4, <1>12, <1>13 DEF LinBytes, L
<1> QED BY <1>1, <1>2, <1>14 DEF a, bytes

\* A portion leaves things in order.
LEMMA LinPortionTaken ==
  ASSUME NEW s \in LinRec
  PROVE  /\ Lin!PortionTaken(s) \in LinRec
         /\ \A list \in Seq(Nat), wire \in LinLine, got \in Seq(LinLine) :
              LinGood(list, wire, got, s) => LinGood(list, wire, got, Lin!PortionTaken(s))
<1> DEFINE r == Lin!PortionTaken(s)
<1>1. CASE Len(s.q) = LinQSize \/ s.source = << >>
  <2>1. r = s
    BY <1>1 DEF Lin!PortionTaken
  <2> HIDE DEF r
  <2>2. r \in LinRec
    BY <2>1
  <2> QED BY <2>1, <2>2 DEF r
<1>2. CASE ~(Len(s.q) = LinQSize \/ s.source = << >>)
  <2> DEFINE bytes == Head(s.source)
             b == [s EXCEPT !.source = Tail(@)]
  <2>1. bytes \in LinLine /\ b \in LinRec /\ \E u : LinBytes(r, b, bytes, u)
    BY <1>2, LinLoop
  <2>2. PICK u : LinBytes(r, b, bytes, u)
    BY <2>1
  <2>3. /\ s.source \in Seq(LinLine) /\ s.source # << >> /\ b.source = Tail(s.source)
        /\ b.q = s.q /\ b.l = s.l /\ b.lost = s.lost
    BY <1>2 DEF LinRec
  <2> HIDE DEF r, b, bytes
  <2>4. /\ Len(bytes) \in Nat /\ u[0] = b /\ r = u[Len(bytes)] /\ \A n \in 0 .. Len(bytes) : u[n] \in LinRec
        /\ \A n \in 1 .. Len(bytes) : u[n] = Lin!recv(u[n - 1], bytes[n]) /\ bytes[n] \in LinByte
    BY <2>1, <2>2 DEF LinBytes, LinLine
  <2>5. r \in LinRec
    BY <2>4
  <2>6. ASSUME NEW list \in Seq(Nat), NEW wire \in LinLine, NEW got \in Seq(LinLine), LinGood(list, wire, got, s)
        PROVE  LinGood(list, wire, got, r)
    <3> DEFINE more == SeqExt!FlattenSeq(Tail(s.source))
               y == more \o wire
    <3>1. /\ more \in LinLine /\ y \in LinLine
          /\ SeqExt!FlattenSeq(s.source) \o wire = bytes \o y
      <4>1. bytes \in Seq(LinByte) /\ wire \in Seq(LinByte) /\ s.source \in Seq(Seq(LinByte))
        BY <2>1, <2>3 DEF LinLine
      <4>2. more \in Seq(LinByte) /\ SeqExt!FlattenSeq(s.source) = bytes \o more
        <5> HIDE DEF more
        <5> QED BY <2>3, <4>1, FlattenTail DEF more, bytes
      <4>3. \A o, p, z \in Seq(LinByte) : (o \o p) \o z = o \o (p \o z)
        BY ConcatAssoc, SMTT(60)
      <4> HIDE DEF more
      <4>4. (bytes \o more) \o wire = bytes \o (more \o wire)
        BY <4>1, <4>2, <4>3, Zenon
      <4>5. more \o wire \in Seq(LinByte)
        BY <4>1, <4>2, ConcatProperties
      <4> QED BY <4>2, <4>4, <4>5 DEF LinLine
    <3>2. PICK a \in LinByte : /\ LinState(list, a, s.l, got \o s.q, s.lost)
                               /\ LinToCome(list, a, SeqExt!FlattenSeq(s.source) \o wire)
      BY <2>6 DEF LinGood
    <3> HIDE DEF y
    <3> DEFINE z == LinAfter(a, bytes, Len(bytes))
    <3>3. /\ LinPath(list, a, bytes) /\ LinPath(list, z, y)
          /\ LinAfter(z, y, Len(y)) = <<Len(list), 0>>
      <4>1. LinPath(list, a, bytes \o y) /\ LinAfter(a, bytes \o y, Len(bytes \o y)) = <<Len(list), 0>>
        BY <3>1, <3>2 DEF LinToCome
      <4> QED BY <2>1, <3>1, <4>1, LinPathConcat
    <3> DEFINE S(n) == LinState(list, LinAfter(a, bytes, n), u[n].l, got \o u[n].q, u[n].lost)
                       /\ u[n].source = b.source
               T == {n \in 0 .. Len(bytes) : S(n)}
    <3>4. 0 \in T
      <4>1. S(0)
        BY <2>3, <2>4, <3>2 DEF LinAfter
      <4> QED BY <2>4, <4>1
    <3>5. ASSUME NEW n \in 1 .. Len(bytes), n - 1 \in T PROVE n \in T
      <4>1. n \in 0 .. Len(bytes) /\ n - 1 \in 0 .. Len(bytes) /\ n # 0
        BY <2>4
      <4>2. S(n - 1)
        BY <3>5
      <4> DEFINE c == u[n - 1]
                 t == u[n]
                 o == LinAfter(a, bytes, n - 1)
      <4>3. c \in LinRec /\ t = Lin!recv(c, bytes[n]) /\ bytes[n] \in LinByte
        BY <2>4, <4>1
      <4>4. LinFollows(list, o, bytes[n])
        BY <3>3 DEF LinPath
      <4>5. LinState(list, o, c.l, got \o c.q, c.lost) /\ c.source = b.source
        BY <4>2
      <4>6. LinAfter(a, bytes, n) = bytes[n]
        BY <4>1 DEF LinAfter
      <4> HIDE DEF c, t, o
      <4>7. LinReceives(c, t, bytes[n])
        BY <4>3, LinReceived
      <4>8. LinState(list, bytes[n], t.l, got \o t.q, t.lost)
        BY <4>3, <4>4, <4>5, <4>7, LinByteReceived
      <4>9. t.source = b.source
        BY <4>5, <4>7 DEF LinReceives
      <4>10. S(n)
        BY <4>6, <4>8, <4>9 DEF t
      <4> HIDE DEF S
      <4> QED BY <4>1, <4>10
    <3> HIDE DEF T
    <3>6. \A n \in 0 .. Len(bytes) : n \in T
      BY <2>4, <3>4, <3>5, UpTo
    <3>7. LinState(list, z, r.l, got \o r.q, r.lost) /\ r.source = b.source
      <4>1. Len(bytes) \in T
        BY <2>4, <3>6
      <4>2. S(Len(bytes))
        BY <4>1 DEF T
      <4> QED BY <2>4, <4>2
    <3>8. z \in LinByte
      BY <3>7 DEF LinState
    <3> HIDE DEF z
    <3>9. LinToCome(list, z, SeqExt!FlattenSeq(r.source) \o wire)
      BY <2>3, <3>3, <3>7 DEF LinToCome, y
    <3> QED BY <3>7, <3>8, <3>9 DEF LinGood
  <2> QED BY <2>5, <2>6 DEF r
<1> QED BY <1>1, <1>2

\* One portion after the other.
LEMMA LinTaken ==
  ASSUME NEW s \in LinRec
  PROVE  /\ Lin!Taken(s) \in LinRec
         /\ \A list \in Seq(Nat), wire \in LinLine, got \in Seq(LinLine) :
              LinGood(list, wire, got, s) => LinGood(list, wire, got, Lin!Taken(s))
<1> DEFINE L == Len(s.source)
           F(f) == f = [n \in 0 .. L |-> IF n = 0 THEN s ELSE Lin!PortionTaken(f[n - 1])]
           u == CHOOSE f : F(f)
           step == [n \in 1 .. L |-> [x \in LinRec |-> Lin!PortionTaken(x)]]
<1>1. L \in Nat
  <2>1. s.source \in Seq(LinLine)
    BY DEF LinRec
  <2> QED BY <2>1
<1>2. Lin!Taken(s) = u[L]
  BY Zenon DEF Lin!Taken
<1>3. ASSUME NEW x \in LinRec PROVE Lin!PortionTaken(x) \in LinRec
  BY LinPortionTaken
<1>4. Steps(L, LinRec, step)
  BY <1>3 DEF Steps
<1>5. \A n \in 1 .. L, x \in LinRec : step[n][x] = Lin!PortionTaken(x)
  OBVIOUS
<1> HIDE DEF step, L
<1>6. PICK g : Walk(L, LinRec, s, step, g)
  BY <1>1, <1>4, StepsTaken
<1>7. F(g)
  <2>1. g \in [0 .. L -> LinRec] /\ g[0] = s
    BY <1>6 DEF Walk
  <2>2. \A n \in 0 .. L : g[n] = IF n = 0 THEN s ELSE Lin!PortionTaken(g[n - 1])
    <3> SUFFICES ASSUME NEW n \in 0 .. L PROVE g[n] = IF n = 0 THEN s ELSE Lin!PortionTaken(g[n - 1])
      OBVIOUS
    <3>1. CASE n = 0
      BY <2>1, <3>1
    <3>2. CASE n # 0
      <4>1. n \in 1 .. L /\ n - 1 \in 0 .. L
        BY <1>1, <3>2
      <4>2. g[n] = step[n][g[n - 1]] /\ g[n - 1] \in LinRec
        BY <1>6, <4>1 DEF Walk
      <4> QED BY <1>5, <3>2, <4>1, <4>2
    <3> QED BY <3>1, <3>2
  <2>3. g = [n \in 0 .. L |-> g[n]]
    BY <2>1
  <2> QED BY <2>2, <2>3, Zenon
<1>8. F(u)
  <2> HIDE DEF F
  <2> QED BY <1>7
<1> HIDE DEF u
<1>9. \A n \in 0 .. L : u[n] = IF n = 0 THEN s ELSE Lin!PortionTaken(u[n - 1])
  <2>1. u = [n \in 0 .. L |-> IF n = 0 THEN s ELSE Lin!PortionTaken(u[n - 1])]
    BY <1>8
  <2> SUFFICES ASSUME NEW n \in 0 .. L PROVE u[n] = IF n = 0 THEN s ELSE Lin!PortionTaken(u[n - 1])
    OBVIOUS
  <2> QED BY <2>1, Zenon
<1>10. u[0] = s /\ \A n \in 1 .. L : u[n] = Lin!PortionTaken(u[n - 1])
  <2>1. 0 \in 0 .. L /\ \A n \in 1 .. L : n \in 0 .. L /\ n # 0
    BY <1>1
  <2> QED BY <1>9, <2>1, Zenon
<1>11. ASSUME NEW list \in Seq(Nat), NEW wire \in LinLine, NEW got \in Seq(LinLine)
       PROVE  u[L] \in LinRec /\ (LinGood(list, wire, got, s) => LinGood(list, wire, got, u[L]))
  <2> DEFINE S(n) == u[n] \in LinRec /\ (LinGood(list, wire, got, s) => LinGood(list, wire, got, u[n]))
             T == {n \in 0 .. L : S(n)}
  <2>1. 0 \in T
    BY <1>1, <1>10
  <2>2. ASSUME NEW n \in 1 .. L, n - 1 \in T PROVE n \in T
    <3>1. n \in 0 .. L /\ S(n - 1)
      BY <1>1, <2>2
    <3>2. u[n] = Lin!PortionTaken(u[n - 1]) /\ u[n - 1] \in LinRec
      BY <1>10, <3>1
    <3> DEFINE c == u[n - 1]
    <3>3. c \in LinRec /\ u[n] = Lin!PortionTaken(c) /\ (LinGood(list, wire, got, s) => LinGood(list, wire, got, c))
      BY <3>1, <3>2
    <3> HIDE DEF c
    <3>4. S(n)
      BY <3>3, LinPortionTaken
    <3> HIDE DEF S
    <3> QED BY <3>1, <3>4
  <2> HIDE DEF T
  <2>3. \A n \in 0 .. L : n \in T
    BY <1>1, <2>1, <2>2, UpTo
  <2>4. L \in T
    BY <1>1, <2>3
  <2> QED BY <2>4 DEF T
<1>12. u[L] \in LinRec
  <2>1. << >> \in Seq(Nat) /\ << >> \in LinLine /\ << >> \in Seq(LinLine)
    BY DEF LinLine
  <2> QED BY <1>11, <2>1
<1> QED BY <1>2, <1>11, <1>12

\* The inductive invariant: byte a is the last that was received, and the bytes
\* of the portions and on the wire follow it.
LinInv ==
  /\ lSent \in Seq(Nat) /\ lWire \in LinLine /\ lSource \in Seq(LinLine) /\ lQ \in Seq(LinLine)
  /\ lL \in LinLine /\ lGot \in Seq(LinLine) /\ lLost \in Nat
  /\ LinGood(lSent, lWire, lGot, [source |-> lSource, q |-> lQ, l |-> lL, lost |-> lLost])

LEMMA LinStart == Lin!Init => LinInv
<1> SUFFICES ASSUME Lin!Init PROVE LinInv
  OBVIOUS
<1>1. /\ lSent = << >> /\ lWire = << >> /\ lSource = << >> /\ lQ = << >> /\ lL = << >>
      /\ lGot = << >> /\ lLost = 0
  BY DEF Lin!Init
<1> DEFINE a == <<0, 0>>
           s == [source |-> lSource, q |-> lQ, l |-> lL, lost |-> lLost]
<1>2. /\ << >> \in Seq(Nat) /\ << >> \in LinLine /\ << >> \in Seq(LinLine) /\ 0 \in Nat
      /\ a \in LinByte /\ a[1] = 0 /\ a[2] = 0 /\ Len(<< >>) = 0 /\ 0 \in 0 .. 0
  BY DEF LinLine, LinByte
<1>3. << >> \o << >> = << >>
  OBVIOUS
<1>4. LinDone(<< >>, 0, << >>, 0)
  <2>1. Firsts(LinFills(<< >>), 0) = << >>
    BY FirstsNone
  <2>2. 1 .. 0 = {}
    OBVIOUS
  <2> QED BY <1>2, <2>1, <2>2 DEF LinDone
<1>5. LinState(<< >>, a, << >>, << >> \o << >>, 0)
  BY <1>2, <1>3, <1>4 DEF LinState
<1>6. LinToCome(<< >>, a, << >>)
  BY <1>2 DEF LinToCome, LinPath, LinAfter
<1>7. SeqExt!FlattenSeq(<< >>) \o << >> = << >>
  BY <1>3, FlattenNone
<1>8. s.source = << >> /\ s.q = << >> /\ s.l = << >> /\ s.lost = 0
  BY <1>1
<1> HIDE DEF a, s
<1>9. LinGood(lSent, lWire, lGot, s)
  BY <1>1, <1>2, <1>5, <1>6, <1>7, <1>8 DEF LinGood
<1> QED BY <1>1, <1>2, <1>9 DEF LinInv, s

\* The bytes of one more message, with one newline or two.
LinMessage(m, n, ends) == [i \in 1 .. n + ends |-> <<m, IF i <= n THEN i ELSE 0>>]

LEMMA LinMessagePath ==
  ASSUME NEW list \in Seq(Nat), NEW n \in Nat, NEW ends \in 1 .. 2
  PROVE  LET m == Len(list) + 1
             z == LinMessage(m, n, ends)
         IN  /\ z \in LinLine /\ LinPath(Append(list, n), <<Len(list), 0>>, z)
             /\ LinAfter(<<Len(list), 0>>, z, Len(z)) = <<m, 0>>
<1> DEFINE m == Len(list) + 1
           new == Append(list, n)
           z == LinMessage(m, n, ends)
           a == <<Len(list), 0>>
<1>1. m \in Nat \ {0} /\ Len(list) \in Nat /\ Len(new) = m /\ new[m] = n /\ m \in 1 .. Len(new)
  <2>1. Len(new) = Len(list) + 1 /\ Len(list) \in Nat /\ new[Len(list) + 1] = n
    BY AppendProperties
  <2> QED BY <2>1
<1> HIDE DEF new
<1>2. /\ z \in LinLine /\ Len(z) = n + ends /\ n + ends \in Nat \ {0}
      /\ \A i \in 1 .. n + ends : z[i] = <<m, IF i <= n THEN i ELSE 0>> /\ z[i] \in LinByte
  <2>1. n + ends \in Nat \ {0}
    OBVIOUS
  <2>2. \A i \in 1 .. n + ends : <<m, IF i <= n THEN i ELSE 0>> \in LinByte
    BY <1>1 DEF LinByte
  <2> DEFINE t == n + ends
  <2> HIDE DEF t
  <2>3. z = [i \in 1 .. t |-> <<m, IF i <= n THEN i ELSE 0>>] /\ t \in Nat
    BY <2>1 DEF LinMessage, t
  <2>4. \A i \in 1 .. t : <<m, IF i <= n THEN i ELSE 0>> \in LinByte
    BY <2>2 DEF t
  <2> HIDE DEF m, z
  <2>5. z \in LinLine /\ Len(z) = t /\ \A i \in 1 .. t : z[i] = <<m, IF i <= n THEN i ELSE 0>> /\ z[i] \in LinByte
    BY <2>3, <2>4 DEF LinLine
  <2> QED BY <2>1, <2>5 DEF t
<1>3. a \in LinByte /\ a[1] = Len(list) /\ a[2] = 0
  BY <1>1 DEF LinByte
<1>4. m = Len(list) + 1
  OBVIOUS
<1> HIDE DEF m, z, a
<1>5. ASSUME NEW i \in 1 .. Len(z) PROVE LinFollows(new, LinAfter(a, z, i - 1), z[i])
  <2>1. i \in 1 .. n + ends
    BY <1>2
  <2>2. /\ z[i] \in LinByte /\ z[i][1] = m /\ z[i][2] = IF i <= n THEN i ELSE 0
    BY <1>2, <2>1
  <2>3. z[i][2] <= new[z[i][1]] /\ z[i][1] \in 1 .. Len(new)
    BY <1>1, <2>1, <2>2
  <2>4. CASE i = 1
    <3>1. LinAfter(a, z, i - 1) = a
      BY <2>4 DEF LinAfter
    <3>2. CASE n = 0
      <4>1. z[i][2] = 0
        BY <2>2, <2>4, <3>2
      <4> QED BY <1>1, <1>3, <1>4, <2>2, <2>3, <3>1, <3>2, <4>1 DEF LinFollows
    <3>3. CASE n # 0
      <4>1. z[i][2] = 1
        BY <2>2, <2>4, <3>3
      <4> QED BY <1>1, <1>3, <1>4, <2>2, <2>3, <3>1, <4>1 DEF LinFollows
    <3> QED BY <3>2, <3>3
  <2>5. CASE i # 1
    <3>1. i - 1 \in 1 .. n + ends /\ i - 1 # 0
      BY <2>1, <2>5
    <3> DEFINE y == z[i - 1]
    <3>2. LinAfter(a, z, i - 1) = y /\ y \in LinByte /\ y[1] = m /\ y[2] = IF i - 1 <= n THEN i - 1 ELSE 0
      BY <1>2, <3>1 DEF LinAfter
    <3> HIDE DEF y
    <3>3. CASE i <= n
      <4>1. z[i][2] = i /\ y[2] = i - 1 /\ i # 0 /\ (i - 1) + 1 = i
        BY <2>1, <2>2, <3>2, <3>3
      <4>2. z[i][2] # 0 /\ y[2] # 0 /\ z[i][1] = y[1] /\ z[i][2] = y[2] + 1
        BY <2>2, <3>1, <3>2, <4>1
      <4> QED BY <2>2, <2>3, <3>2, <4>2 DEF LinFollows
    <3>4. CASE ~(i <= n) /\ i - 1 <= n
      <4>1. z[i][2] = 0 /\ y[2] = n /\ y[2] # 0
        BY <2>1, <2>2, <3>1, <3>2, <3>4
      <4>2. y[2] = new[y[1]] /\ z[i][1] = y[1]
        BY <1>1, <2>2, <3>2, <4>1
      <4> QED BY <2>2, <2>3, <3>2, <4>1, <4>2 DEF LinFollows
    <3>5. CASE ~(i <= n) /\ ~(i - 1 <= n)
      <4>1. z[i][2] = 0 /\ y[2] = 0 /\ z[i][1] = y[1]
        BY <2>2, <3>2, <3>5
      <4> QED BY <2>2, <2>3, <3>2, <4>1 DEF LinFollows
    <3>6. i <= n \/ (~(i <= n) /\ i - 1 <= n) \/ (~(i <= n) /\ ~(i - 1 <= n))
      OBVIOUS
    <3> QED BY <3>3, <3>4, <3>5, <3>6
  <2> QED BY <2>4, <2>5
<1>6. LinAfter(a, z, Len(z)) = <<m, 0>>
  <2>1. Len(z) \in 1 .. n + ends /\ Len(z) # 0 /\ ~(Len(z) <= n)
    BY <1>2
  <2> QED BY <1>2, <2>1 DEF LinAfter
<1>7. LinPath(new, a, z)
  BY <1>5 DEF LinPath
<1> QED BY <1>2, <1>6, <1>7 DEF m, z, a, new

\* A message that is sent keeps the ways of those before.
LEMMA LinPathSent ==
  ASSUME NEW list \in Seq(Nat), NEW n \in Nat, NEW a, NEW bytes, LinPath(list, a, bytes)
  PROVE  LinPath(Append(list, n), a, bytes)
<1> DEFINE new == Append(list, n)
<1>1. Len(new) = Len(list) + 1 /\ Len(list) \in Nat /\ \A k \in 1 .. Len(list) : new[k] = list[k]
  BY AppendProperties
<1> HIDE DEF new
<1>2. ASSUME NEW b, NEW c, LinFollows(list, b, c) PROVE LinFollows(new, b, c)
  <2>1. c[1] \in 1 .. Len(list) /\ c[1] \in 1 .. Len(new) /\ new[c[1]] = list[c[1]]
    BY <1>1, <1>2 DEF LinFollows
  <2>2. b[1] = c[1] => new[b[1]] = list[b[1]]
    BY <2>1
  <2> QED BY <1>2, <2>1, <2>2 DEF LinFollows
<1> QED BY <1>2 DEF LinPath, new

LEMMA LinStateSent ==
  ASSUME NEW list \in Seq(Nat), NEW n \in Nat, NEW a, NEW l, NEW lines, NEW lost,
         LinState(list, a, l, lines, lost)
  PROVE  LinState(Append(list, n), a, l, lines, lost)
<1> DEFINE new == Append(list, n)
<1>1. Len(new) = Len(list) + 1 /\ Len(list) \in Nat /\ \A k \in 1 .. Len(list) : new[k] = list[k]
  BY AppendProperties
<1>2. \A h : LinDone(list, h, lines, lost) => LinDone(new, h, lines, lost)
  BY LinDoneSent
<1> HIDE DEF new
<1>3. a \in LinByte /\ a[1] \in 0 .. Len(list) /\ a[1] \in 0 .. Len(new)
  BY <1>1 DEF LinState
<1>4. CASE a[2] = 0
  BY <1>2, <1>3, <1>4 DEF LinState, new
<1>5. CASE a[2] # 0
  <2>1. a[1] # 0 /\ new[a[1]] = list[a[1]]
    BY <1>1, <1>3, <1>5 DEF LinState
  <2> QED BY <1>2, <1>3, <1>5, <2>1 DEF LinState, new
<1> QED BY <1>4, <1>5

\* The bytes of a new message come behind all others.
LEMMA LinSent ==
  ASSUME NEW list \in Seq(Nat), NEW wire \in LinLine, NEW got \in Seq(LinLine), NEW s \in LinRec,
         LinGood(list, wire, got, s), NEW n \in Nat, NEW ends \in 1 .. 2
  PROVE  LinGood(Append(list, n), wire \o LinMessage(Len(list) + 1, n, ends), got, s)
<1> DEFINE m == Len(list) + 1
           new == Append(list, n)
           z == LinMessage(m, n, ends)
           before == SeqExt!FlattenSeq(s.source)
           bytes == before \o wire
<1>1. Len(new) = m
  BY AppendProperties
<1>2. before \in LinLine /\ bytes \in LinLine
  <2>1. s.source \in Seq(Seq(LinByte)) /\ << >> \in Seq(LinByte) /\ wire \in Seq(LinByte)
    BY DEF LinRec, LinLine
  <2>2. before \in Seq(LinByte)
    BY <2>1, FlattenAppend
  <2> HIDE DEF before
  <2>3. bytes \in Seq(LinByte)
    BY <2>1, <2>2, ConcatProperties
  <2> QED BY <2>2, <2>3 DEF LinLine
<1>3. PICK a \in LinByte : LinState(list, a, s.l, got \o s.q, s.lost) /\ LinToCome(list, a, bytes)
  BY DEF LinGood
<1>4. /\ z \in LinLine /\ LinPath(new, <<Len(list), 0>>, z)
      /\ LinAfter(<<Len(list), 0>>, z, Len(z)) = <<m, 0>>
  BY LinMessagePath
<1>5. LinState(new, a, s.l, got \o s.q, s.lost)
  BY <1>3, LinStateSent
<1>6. LinPath(new, a, bytes) /\ LinAfter(a, bytes, Len(bytes)) = <<Len(list), 0>>
  BY <1>3, LinPathSent DEF LinToCome
<1> HIDE DEF new, z, bytes, m
<1>7. LinPath(new, a, bytes \o z) /\ LinAfter(a, bytes \o z, Len(bytes \o z)) = <<m, 0>>
  <2> DEFINE c == LinAfter(a, bytes, Len(bytes))
  <2>1. c = <<Len(list), 0>>
    BY <1>6
  <2>2. /\ LinPath(new, a, bytes \o z) <=> LinPath(new, a, bytes) /\ LinPath(new, c, z)
        /\ LinAfter(a, bytes \o z, Len(bytes \o z)) = LinAfter(c, z, Len(z))
    BY <1>2, <1>4, LinPathConcat, ZenonT(60)
  <2> HIDE DEF c
  <2> QED BY <1>4, <1>6, <2>1, <2>2
<1>8. bytes \o z = before \o (wire \o z)
  <2>1. before \in Seq(LinByte) /\ wire \in Seq(LinByte) /\ z \in Seq(LinByte)
    BY <1>2, <1>4 DEF LinLine
  <2>2. \A o, p, y \in Seq(LinByte) : (o \o p) \o y = o \o (p \o y)
    BY ConcatAssoc, SMTT(60)
  <2> HIDE DEF before
  <2> QED BY <2>1, <2>2, Zenon DEF bytes
<1>9. LinToCome(new, a, before \o (wire \o z))
  BY <1>1, <1>7, <1>8 DEF LinToCome
<1>10. LinGood(new, wire \o z, got, s)
  BY <1>5, <1>9 DEF LinGood
<1> QED BY <1>10 DEF new, z, m

\* A portion that comes is cut off the wire.
LEMMA LinPortioned ==
  ASSUME NEW list, NEW wire \in LinLine, NEW got, NEW s \in LinRec,
         LinGood(list, wire, got, s), NEW n \in 1 .. Len(wire), NEW t,
         t = [s EXCEPT !.source = Append(@, SubSeq(wire, 1, n))]
  PROVE  /\ SubSeq(wire, 1, n) \in LinLine /\ SubSeq(wire, n + 1, Len(wire)) \in LinLine
         /\ LinGood(list, SubSeq(wire, n + 1, Len(wire)), got, t)
<1> DEFINE x == SubSeq(wire, 1, n)
           y == SubSeq(wire, n + 1, Len(wire))
           before == SeqExt!FlattenSeq(s.source)
<1>1. Len(wire) \in Nat /\ wire \in Seq(LinByte) /\ \A i \in 1 .. Len(wire) : wire[i] \in LinByte
  BY DEF LinLine
<1>2. x \in Seq(LinByte) /\ y \in Seq(LinByte)
  <2>1. (\A i \in 1 .. n : wire[i] \in LinByte) /\ \A i \in n + 1 .. Len(wire) : wire[i] \in LinByte
    BY <1>1
  <2> QED BY <1>1, <2>1, SubSeqProperties
<1>3. x \o y = wire
  <2>1. 1 \in 1 .. Len(wire) + 1 /\ n \in 1 - 1 .. Len(wire) /\ Len(wire) \in n .. Len(wire)
    BY <1>1
  <2>2. x \o y = SubSeq(wire, 1, Len(wire))
    BY <1>1, <2>1, ConcatAdjacentSubSeq
  <2>3. SubSeq(wire, 1, Len(wire)) = wire
    BY <1>1, SubSeqFull
  <2> QED BY <2>2, <2>3
<1> HIDE DEF x, y
<1>4. s.source \in Seq(Seq(LinByte)) /\ t.source = Append(s.source, x) /\ t.q = s.q /\ t.l = s.l /\ t.lost = s.lost
  BY DEF LinRec, LinLine, x
<1>5. before \in Seq(LinByte) /\ SeqExt!FlattenSeq(t.source) = before \o x
  <2>1. before \in Seq(LinByte) /\ SeqExt!FlattenSeq(Append(s.source, x)) = before \o x
    <3> DEFINE f == s.source
    <3>1. f \in Seq(Seq(LinByte))
      BY <1>4
    <3> HIDE DEF f
    <3>2. SeqExt!FlattenSeq(f) \in Seq(LinByte) /\ SeqExt!FlattenSeq(Append(f, x)) = SeqExt!FlattenSeq(f) \o x
      BY <1>2, <3>1, FlattenAppend
    <3> QED BY <3>2 DEF f
  <2> QED BY <1>4, <2>1
<1>6. (before \o x) \o y = before \o wire
  <2>1. \A o, p, z \in Seq(LinByte) : (o \o p) \o z = o \o (p \o z)
    BY ConcatAssoc, SMTT(60)
  <2> HIDE DEF before
  <2> QED BY <1>2, <1>3, <1>5, <2>1, Zenon
<1>7. LinGood(list, y, got, t)
  BY <1>4, <1>5, <1>6 DEF LinGood
<1> QED BY <1>2, <1>7 DEF x, y, LinLine

\* A line that is popped stays the next of them all.
LEMMA LinPopped ==
  ASSUME NEW list, NEW wire, NEW got \in Seq(LinLine), NEW s \in LinRec,
         LinGood(list, wire, got, s), s.q # << >>, NEW t, t = [s EXCEPT !.q = Tail(@)]
  PROVE  Append(got, Head(s.q)) \in Seq(LinLine) /\ LinGood(list, wire, Append(got, Head(s.q)), t)
<1> DEFINE h == Head(s.q)
           r == Tail(s.q)
<1>1. s.q \in Seq(LinLine) /\ h \in LinLine /\ r \in Seq(LinLine) /\ s.q = <<h>> \o r
  <2>1. s.q \in Seq(LinLine)
    BY DEF LinRec
  <2> QED BY <2>1, HeadTailProperties
<1>2. t.source = s.source /\ t.q = r /\ t.l = s.l /\ t.lost = s.lost
  BY DEF LinRec
<1> HIDE DEF h, r
<1>3. Append(got, h) \in Seq(LinLine) /\ Append(got, h) = got \o <<h>> /\ <<h>> \in Seq(LinLine)
  BY <1>1, AppendProperties, AppendIsConcat
<1>4. Append(got, h) \o r = got \o s.q
  <2>1. \A o, p, z \in Seq(LinLine) : (o \o p) \o z = o \o (p \o z)
    BY ConcatAssoc, SMTT(60)
  <2>2. (got \o <<h>>) \o r = got \o (<<h>> \o r)
    BY <1>1, <1>3, <2>1
  <2> QED BY <1>1, <1>3, <2>2
<1>5. LinGood(list, wire, Append(got, h), t)
  BY <1>2, <1>4 DEF LinGood
<1> QED BY <1>3, <1>5 DEF h

LEMMA LinNext == ASSUME LinInv, [Lin!Next]_(Lin!vars) PROVE LinInv'
<1> DEFINE s == [source |-> lSource, q |-> lQ, l |-> lL, lost |-> lLost]
<1>1. /\ lSent \in Seq(Nat) /\ lWire \in LinLine /\ lSource \in Seq(LinLine) /\ lQ \in Seq(LinLine)
      /\ lL \in LinLine /\ lGot \in Seq(LinLine) /\ lLost \in Nat
      /\ LinGood(lSent, lWire, lGot, s)
      /\ s \in LinRec /\ s.source = lSource /\ s.q = lQ /\ s.l = lL /\ s.lost = lLost
  BY DEF LinInv, LinRec
<1>2. CASE Lin!Push
  <2>1. PICK n \in LinLens, ends \in 1 .. 2 :
          /\ lSent' = Append(lSent, n)
          /\ lWire' = lWire \o [i \in 1 .. n + ends |-> <<Len(lSent'), IF i <= n THEN i ELSE 0>>]
    BY <1>2 DEF Lin!Push
  <2>2. UNCHANGED <<lSource, lQ, lL, lGot, lLost>>
    BY <1>2 DEF Lin!Push
  <2>3. n \in Nat
    BY LinesAssumption
  <2>4. lSent' \in Seq(Nat) /\ Len(lSent') = Len(lSent) + 1
    BY <1>1, <2>1, <2>3, AppendProperties
  <2>5. lWire' = lWire \o LinMessage(Len(lSent) + 1, n, ends)
    BY <2>1, <2>4 DEF LinMessage
  <2> HIDE DEF s
  <2>6. LinGood(lSent', lWire', lGot, s)
    BY <1>1, <2>1, <2>3, <2>5, LinSent
  <2>7. lWire' \in LinLine
    <3>1. LinMessage(Len(lSent) + 1, n, ends) \in LinLine
      BY <1>1, <2>3, LinMessagePath
    <3> QED BY <1>1, <2>5, <3>1, ConcatProperties DEF LinLine
  <2> QED BY <1>1, <2>2, <2>4, <2>6, <2>7 DEF LinInv, s
<1>3. CASE Lin!Portion
  <2>1. PICK n \in 1 .. Len(lWire) :
          /\ lSource' = Append(lSource, SubSeq(lWire, 1, n))
          /\ lWire' = SubSeq(lWire, n + 1, Len(lWire))
    BY <1>3 DEF Lin!Portion
  <2>2. UNCHANGED <<lSent, lQ, lL, lGot, lLost>>
    BY <1>3 DEF Lin!Portion
  <2> DEFINE t == [s EXCEPT !.source = Append(@, SubSeq(lWire, 1, n))]
  <2>3. t = [source |-> lSource', q |-> lQ, l |-> lL, lost |-> lLost]
    <3> DEFINE more == Append(lSource, SubSeq(lWire, 1, n))
    <3>1. t = [s EXCEPT !.source = more] /\ lSource' = more
      BY <1>1, <2>1
    <3> HIDE DEF more, t
    <3> QED BY <3>1
  <2> HIDE DEF s
  <2>4. SubSeq(lWire, 1, n) \in LinLine /\ lWire' \in LinLine /\ LinGood(lSent, lWire', lGot, t)
    BY <1>1, <2>1, LinPortioned
  <2>5. lSource' \in Seq(LinLine)
    BY <1>1, <2>1, <2>4, AppendProperties
  <2> HIDE DEF t
  <2> QED BY <1>1, <2>2, <2>3, <2>4, <2>5 DEF LinInv
<1>4. CASE Lin!empty
  <2> DEFINE t == Lin!Taken(s)
  <2>1. lSource' = t.source /\ lQ' = t.q /\ lL' = t.l /\ lLost' = t.lost
    BY <1>4 DEF Lin!empty
  <2>2. UNCHANGED <<lSent, lWire, lGot>>
    BY <1>4 DEF Lin!empty
  <2> HIDE DEF s
  <2>3. t \in LinRec /\ LinGood(lSent, lWire, lGot, t)
    BY <1>1, LinTaken
  <2> HIDE DEF t
  <2>4. /\ t = [source |-> lSource', q |-> lQ', l |-> lL', lost |-> lLost']
        /\ lSource' \in Seq(LinLine) /\ lQ' \in Seq(LinLine) /\ lL' \in LinLine /\ lLost' \in Nat
    BY <2>1, <2>3 DEF LinRec
  <2> QED BY <1>1, <2>2, <2>3, <2>4 DEF LinInv
<1>5. CASE Lin!pop
  <2>1. lQ # << >> /\ lGot' = Append(lGot, Head(lQ)) /\ lQ' = Tail(lQ) /\ UNCHANGED <<lSent, lWire, lSource, lL, lLost>>
    BY <1>5 DEF Lin!pop
  <2> DEFINE t == [s EXCEPT !.q = Tail(@)]
  <2>2. t = [source |-> lSource, q |-> lQ', l |-> lL, lost |-> lLost]
    <3>1. t = [s EXCEPT !.q = lQ']
      <4>1. s.q = lQ
        OBVIOUS
      <4> HIDE DEF s
      <4> QED BY <2>1, <4>1
    <3> HIDE DEF t
    <3> QED BY <3>1
  <2> HIDE DEF s
  <2>3. lGot' \in Seq(LinLine) /\ LinGood(lSent, lWire, lGot', t)
    BY <1>1, <2>1, LinPopped
  <2>4. lQ' \in Seq(LinLine)
    BY <1>1, <2>1, HeadTailProperties
  <2> HIDE DEF t
  <2> QED BY <1>1, <2>1, <2>2, <2>3, <2>4 DEF LinInv
<1>6. CASE UNCHANGED Lin!vars
  BY <1>6 DEF Lin!vars, LinInv
<1> QED BY <1>2, <1>3, <1>4, <1>5, <1>6 DEF Lin!Next

\* Every line that has come is among those of the first h messages, the order
\* is theirs, and all have come when no byte is left.
LEMMA LinArrived ==
  ASSUME NEW list \in Seq(Nat), NEW h, NEW lines, NEW lost, LinDone(list, h, lines, lost)
  PROVE  LET all == Firsts(LinFills(list), Len(list))
         IN  /\ all \in Seq(LinLine)
             /\ lost = 0 => SeqExt!IsPrefix(lines, all) /\ (h = Len(list) => lines = all)
             /\ \A i \in 1 .. Len(lines) : \E j \in 1 .. Len(all) : lines[i] = all[j]
             /\ Len(lines) + lost <= Len(all)
<1> DEFINE f == LinFills(list)
           all == Firsts(f, Len(list))
           some == Firsts(f, h)
<1>1. /\ lines \in Seq(LinLine) /\ lost \in Nat /\ h \in 0 .. Len(list) /\ h \in Nat /\ Len(list) \in Nat
      /\ Len(lines) + lost = Len(some) /\ (lost = 0 => lines = some)
      /\ \A i \in 1 .. Len(lines) : \E k \in 1 .. h : list[k] # 0 /\ lines[i] = Lin!Kept(k, list[k])
  <2>1. h \in 0 .. Len(list) /\ Len(list) \in Nat
    BY DEF LinDone
  <2> QED BY <2>1 DEF LinDone
<1>2. SeqParts(f, Len(list), LinLine) /\ \A n \in 0 .. Len(list) : SeqParts(f, n, LinLine)
  BY LinParts
<1>3. \A k \in 1 .. Len(list) : list[k] # 0 => f[k] = <<Lin!Kept(k, list[k])>>
  BY DEF LinFills
<1> HIDE DEF f
<1>4. all \in Seq(LinLine)
  BY <1>1, <1>2, FirstsType
<1>5. lost = 0 => SeqExt!IsPrefix(lines, all) /\ (h = Len(list) => lines = all)
  <2>1. SeqExt!IsPrefix(some, all)
    BY <1>1, <1>2, FirstsPrefix
  <2> QED BY <1>1, <2>1
<1>6. ASSUME NEW m \in 0 .. Len(list)
      PROVE  /\ Firsts(f, m) \in Seq(LinLine) /\ Len(Firsts(f, m)) <= Len(all)
             /\ \A j \in 1 .. Len(Firsts(f, m)) : j \in 1 .. Len(all) /\ all[j] = Firsts(f, m)[j]
  <2> DEFINE a == Firsts(f, m)
  <2>1. Continues(LinLine, a, all)
    BY <1>1, <1>2, FirstsBegin
  <2>2. a \in Seq(LinLine)
    <3>1. m \in Nat /\ SeqParts(f, m, LinLine)
      BY <1>2
    <3> QED BY <3>1, FirstsType
  <2> HIDE DEF a, all
  <2>3. PICK t \in Seq(LinLine) : all = a \o t
    BY <2>1 DEF Continues
  <2>4. /\ Len(a) <= Len(a \o t)
        /\ \A j \in 1 .. Len(a) : j \in 1 .. Len(a \o t) /\ (a \o t)[j] = a[j]
    BY <2>2, Begins
  <2>5. Len(a) <= Len(all) /\ \A j \in 1 .. Len(a) : j \in 1 .. Len(all) /\ all[j] = a[j]
    BY <2>3, <2>4
  <2> QED BY <2>2, <2>5 DEF a
<1>7. Len(lines) + lost <= Len(all)
  BY <1>1, <1>6
<1>8. ASSUME NEW i \in 1 .. Len(lines) PROVE \E j \in 1 .. Len(all) : lines[i] = all[j]
  <2>1. PICK k \in 1 .. h : list[k] # 0 /\ lines[i] = Lin!Kept(k, list[k])
    BY <1>1
  <2> DEFINE x == Lin!Kept(k, list[k])
             m == k - 1
             a == Firsts(f, m)
  <2>2. k \in 1 .. Len(list) /\ k \in 0 .. Len(list) /\ m \in Nat /\ m \in 0 .. Len(list) /\ m + 1 = k
    BY <1>1
  <2>3. f[k] = <<x>>
    BY <1>3, <2>1, <2>2
  <2>4. x \in LinLine
    <3>1. k \in Nat /\ list[k] \in Nat \ {0}
      BY <2>1, <2>2
    <3> QED BY <3>1, LinKept
  <2> HIDE DEF x, m
  <2>5. SeqParts(f, m + 1, LinLine)
    BY <1>2, <2>2
  <2>6. a \in Seq(LinLine) /\ Firsts(f, k) = a \o <<x>>
    BY <2>2, <2>3, <2>5, FirstsNext
  <2> HIDE DEF a
  <2>7. Firsts(f, k) = Append(a, x) /\ Len(Append(a, x)) = Len(a) + 1 /\ Append(a, x)[Len(a) + 1] = x /\ Len(a) \in Nat
    BY <2>4, <2>6, AppendProperties, AppendIsConcat
  <2>8. Len(a) + 1 \in 1 .. Len(Firsts(f, k)) /\ Firsts(f, k)[Len(a) + 1] = x
    BY <2>7
  <2>9. Len(a) + 1 \in 1 .. Len(all) /\ all[Len(a) + 1] = x
    BY <1>6, <2>2, <2>8
  <2> QED BY <2>1, <2>9 DEF x
<1> QED BY <1>4, <1>5, <1>7, <1>8 DEF f

\* How many of the messages have come when byte a has, and all of them when no
\* byte is left.
LEMMA LinCame ==
  ASSUME NEW list \in Seq(Nat), NEW wire \in LinLine, NEW got, NEW s \in LinRec,
         LinGood(list, wire, got, s)
  PROVE  \E h : /\ LinDone(list, h, got \o s.q, s.lost)
                /\ wire = << >> /\ s.source = << >> => h = Len(list)
<1>1. PICK a \in LinByte : /\ LinState(list, a, s.l, got \o s.q, s.lost)
                           /\ LinToCome(list, a, SeqExt!FlattenSeq(s.source) \o wire)
  BY DEF LinGood
<1>2. wire = << >> /\ s.source = << >> => a = <<Len(list), 0>>
  <2>1. SeqExt!FlattenSeq(<< >>) \o << >> = << >> /\ Len(<< >>) = 0
    BY FlattenNone
  <2> QED BY <1>1, <2>1 DEF LinToCome, LinAfter
<1>3. CASE a[2] = 0
  BY <1>1, <1>2, <1>3 DEF LinState
<1>4. CASE a[2] # 0
  <2>1. LinDone(list, a[1] - 1, got \o s.q, s.lost)
    BY <1>1, <1>4 DEF LinState
  <2> QED BY <1>2, <1>4, <2>1
<1> QED BY <1>3, <1>4

LEMMA LinImplies == ASSUME LinInv PROVE Lin!LinesArrive
<1> DEFINE s == [source |-> lSource, q |-> lQ, l |-> lL, lost |-> lLost]
           lines == lGot \o lQ
           all == Firsts(LinFills(lSent), Len(lSent))
<1>1. /\ lSent \in Seq(Nat) /\ lWire \in LinLine /\ s \in LinRec /\ LinGood(lSent, lWire, lGot, s)
      /\ s.source = lSource /\ s.q = lQ /\ s.lost = lLost
  BY DEF LinInv, LinRec
<1> HIDE DEF s
<1>2. PICK h : /\ LinDone(lSent, h, lines, lLost)
               /\ lWire = << >> /\ lSource = << >> => h = Len(lSent)
  BY <1>1, LinCame
<1> HIDE DEF lines
<1>3. /\ all \in Seq(LinLine)
      /\ lLost = 0 => SeqExt!IsPrefix(lines, all) /\ (h = Len(lSent) => lines = all)
      /\ \A i \in 1 .. Len(lines) : \E j \in 1 .. Len(all) : lines[i] = all[j]
      /\ Len(lines) + lLost <= Len(all)
  BY <1>1, <1>2, LinArrived
<1>4. /\ lines \in Seq(LinLine)
      /\ \A i \in 1 .. Len(lines) : \A j \in 1 .. Len(lines) : i < j => lines[i][1][1] < lines[j][1][1]
  BY <1>2 DEF LinDone
<1>5. Lin!Expected = all
  <2>1. DOMAIN lSent = 1 .. Len(lSent)
    BY <1>1
  <2>2. LinFills(lSent) = [k \in DOMAIN lSent |-> IF lSent[k] = 0 THEN << >> ELSE <<Lin!Kept(k, lSent[k])>>]
    BY <2>1 DEF LinFills
  <2>3. [k \in 1 .. Len(lSent) |-> LinFills(lSent)[k]] = LinFills(lSent)
    BY DEF LinFills
  <2>4. \A x : Lin!FlattenSeq(x) = SeqExt!FlattenSeq(x)
    BY DEF Lin!FlattenSeq, SeqExt!FlattenSeq
  <2>5. all = SeqExt!FlattenSeq(LinFills(lSent))
    BY <2>3 DEF Firsts
  <2> HIDE DEF all
  <2> QED BY <2>2, <2>4, <2>5, Zenon DEF Lin!Expected
<1> HIDE DEF all
<1>6. DOMAIN lines = 1 .. Len(lines) /\ DOMAIN all = 1 .. Len(all)
  BY <1>3, <1>4
<1>7. lLost = 0 => /\ Lin!IsPrefix(lines, all)
                   /\ lWire = << >> /\ lSource = << >> => lines = all
  <2>1. SeqExt!IsPrefix(lines, all) => Lin!IsPrefix(lines, all)
    BY DEF Lin!IsPrefix, SeqExt!IsPrefix
  <2> QED BY <1>2, <1>3, <2>1
<1>8. Lin!Range(lines) \subseteq Lin!Range(all)
  BY <1>3, <1>6 DEF Lin!Range
<1>9. \A i, j \in DOMAIN lines : i < j => lines[i][1][1] < lines[j][1][1]
  BY <1>4, <1>6
<1> QED BY <1>3, <1>5, <1>7, <1>8, <1>9 DEF Lin!LinesArrive, lines

\* However the bytes are portioned and however long the stash, the lines that
\* come are those of the messages sent, in order and unmixed.
THEOREM LinesAlwaysArrive == Lin!Spec => []LinesArrive
<1>1. LinInv /\ [Lin!Next]_(Lin!vars) => LinInv'
  BY LinNext
<1>2. LinInv => LinesArrive
  BY LinImplies DEF LinesArrive
<1> QED BY LinStart, <1>1, <1>2, PTL DEF Lin!Spec

-----------------------------------------------------------------------------
(* Min, over a line that does no damage                                    *)

MnByte  == 0 .. 255
MnBytes == Seq(MnByte)
MnSumsOf == [{Mn!Body(f) : f \in Mn!Frames} -> MnSums]

\* The bytes of a frame that are stuffed.
MnRaw(c, f) == Mn!Body(f) \o c[Mn!Body(f)]

LEMMA MnFrame ==
  ASSUME NEW f \in Mn!Frames
  PROVE  /\ f.id \in 0 .. 63 /\ f.b \in MnBytes /\ Len(f.b) \in 0 .. MnFrameSize /\ Len(f.b) \in 0 .. 255
         /\ f = [id |-> f.id, b |-> f.b]
         /\ Mn!Body(f) \in MnBytes /\ Len(Mn!Body(f)) = 2 + Len(f.b) /\ Mn!Body(f) = <<f.id, Len(f.b)>> \o f.b
<1>1. f.id \in MnIds /\ f.b \in MnPayloads /\ f = [id |-> f.id, b |-> f.b]
  BY SMTT(60) DEF Mn!Frames
<1>2. f.id \in 0 .. 63 /\ f.b \in MnBytes /\ Len(f.b) \in 0 .. MnFrameSize /\ Len(f.b) \in 0 .. 255
  <2>1. f.id \in 0 .. 63 /\ f.b \in Seq(0 .. 255) /\ Len(f.b) <= MnFrameSize /\ MnFrameSize \in 0 .. 255
    BY <1>1, MinAssumption
  <2> DEFINE p == f.b
  <2>2. p \in Seq(0 .. 255) /\ Len(p) <= MnFrameSize /\ MnFrameSize \in 0 .. 255
    BY <2>1
  <2>3. f.id \in 0 .. 63
    BY <2>1
  <2> HIDE DEF p
  <2>4. Len(p) \in Nat /\ p \in MnBytes
    BY <2>2, SMTT(60) DEF MnBytes, MnByte
  <2>5. Len(p) \in 0 .. MnFrameSize /\ Len(p) \in 0 .. 255
    <3> DEFINE m == Len(p)
    <3>1. m \in Nat /\ m <= MnFrameSize /\ MnFrameSize \in 0 .. 255
      BY <2>2, <2>4
    <3> HIDE DEF m
    <3>2. m \in 0 .. MnFrameSize /\ m \in 0 .. 255
      BY <3>1
    <3> QED BY <3>2 DEF m
  <2> QED BY <2>3, <2>4, <2>5 DEF p
<1>3. Mn!Body(f) \in MnBytes /\ Len(Mn!Body(f)) = 2 + Len(f.b) /\ Mn!Body(f) = <<f.id, Len(f.b)>> \o f.b
  <2> DEFINE p == f.b
             s == <<f.id, Len(p)>>
  <2>1. s \in Seq(MnByte) /\ Len(s) = 2 /\ p \in Seq(MnByte)
    BY <1>2 DEF MnByte, MnBytes
  <2>2. Mn!Body(f) = s \o p
    BY DEF Mn!Body
  <2> HIDE DEF s, p
  <2>3. s \o p \in Seq(MnByte) /\ Len(s \o p) = 2 + Len(p)
    <3>1. s \o p \in Seq(MnByte) /\ Len(s \o p) = Len(s) + Len(p)
      BY <2>1, ConcatProperties
    <3> QED BY <2>1, <3>1
  <2>4. Mn!Body(f) \in MnBytes /\ Len(Mn!Body(f)) = 2 + Len(p)
    BY <2>2, <2>3 DEF MnBytes
  <2> QED BY <2>2, <2>4, SMTT(60) DEF s, p
<1> QED BY <1>1, <1>2, <1>3

LEMMA MnSum ==
  ASSUME NEW c \in MnSumsOf, NEW f \in Mn!Frames
  PROVE  Mn!Body(f) \in DOMAIN c /\ c[Mn!Body(f)] \in MnBytes /\ Len(c[Mn!Body(f)]) = 4
<1>1. Mn!Body(f) \in DOMAIN c /\ c[Mn!Body(f)] \in MnSums
  BY DEF MnSumsOf
<1> QED BY <1>1, MinAssumption DEF MnBytes, MnByte

\* Which byte is where.
LEMMA MnRawIs ==
  ASSUME NEW f \in Mn!Frames, NEW c \in MnSumsOf
  PROVE  LET raw == MnRaw(c, f)
             n == Len(f.b)
         IN  /\ raw \in MnBytes /\ Len(raw) = n + 6
             /\ raw[1] = f.id /\ raw[2] = n
             /\ \A i \in 1 .. n : raw[i + 2] = f.b[i]
             /\ \A i \in 1 .. 4 : raw[i + 2 + n] = c[Mn!Body(f)][i]
             /\ \A i \in 1 .. n + 6 : raw[i] \in MnByte
<1> DEFINE raw == MnRaw(c, f)
           n == Len(f.b)
           s == <<f.id, n>>
           body == Mn!Body(f)
           sum == c[body]
<1>1. /\ n \in Nat /\ f.b \in MnBytes /\ body \in MnBytes /\ Len(body) = 2 + n /\ body = s \o f.b
      /\ sum \in MnBytes /\ Len(sum) = 4 /\ f.id \in MnByte /\ n \in MnByte
  BY MnFrame, MnSum DEF MnByte
<1>2. s \in Seq(MnByte) /\ Len(s) = 2 /\ s[1] = f.id /\ s[2] = n
  BY <1>1
<1>3. raw = body \o sum
  BY DEF MnRaw
<1> HIDE DEF raw, n, s, body, sum
<1>4. /\ raw \in MnBytes /\ Len(raw) = Len(body) + Len(sum)
      /\ \A i \in 1 .. Len(body) + Len(sum) : raw[i] = IF i <= Len(body) THEN body[i] ELSE sum[i - Len(body)]
  <2>1. body \in Seq(MnByte) /\ sum \in Seq(MnByte)
    BY <1>1 DEF MnBytes
  <2>2. /\ body \o sum \in Seq(MnByte) /\ Len(body \o sum) = Len(body) + Len(sum)
        /\ \A i \in 1 .. Len(body) + Len(sum) : (body \o sum)[i] = IF i <= Len(body) THEN body[i] ELSE sum[i - Len(body)]
    BY <2>1, ConcatProperties
  <2> QED BY <1>3, <2>2 DEF MnBytes
<1>5. \A i \in 1 .. 2 + n : body[i] = IF i <= 2 THEN s[i] ELSE f.b[i - 2]
  <2>1. Len(f.b) = n
    BY DEF n
  <2> QED BY <1>1, <1>2, <2>1, ConcatProperties DEF MnBytes
<1>6. Len(raw) = n + 6
  BY <1>1, <1>4
<1>7. \A i \in 1 .. 2 + n : raw[i] = IF i <= 2 THEN s[i] ELSE f.b[i - 2]
  <2> SUFFICES ASSUME NEW i \in 1 .. 2 + n PROVE raw[i] = IF i <= 2 THEN s[i] ELSE f.b[i - 2]
    OBVIOUS
  <2>1. i \in 1 .. Len(body) + Len(sum) /\ i <= Len(body)
    BY <1>1
  <2> QED BY <1>4, <1>5, <2>1
<1>8. raw[1] = f.id /\ raw[2] = n
  <2>1. 1 \in 1 .. 2 + n /\ 2 \in 1 .. 2 + n
    BY <1>1
  <2> QED BY <1>2, <1>7, <2>1
<1>9. ASSUME NEW i \in 1 .. n PROVE raw[i + 2] = f.b[i]
  <2>1. i + 2 \in 1 .. 2 + n /\ ~(i + 2 <= 2) /\ (i + 2) - 2 = i
    BY <1>1
  <2> QED BY <1>7, <2>1
<1>10. ASSUME NEW i \in 1 .. 4 PROVE raw[i + 2 + n] = sum[i]
  <2>1. /\ i + 2 + n \in 1 .. Len(body) + Len(sum) /\ ~(i + 2 + n <= Len(body))
        /\ (i + 2 + n) - Len(body) = i
    BY <1>1
  <2> QED BY <1>4, <2>1
<1>11. \A i \in 1 .. n + 6 : raw[i] \in MnByte
  BY <1>4, <1>6 DEF MnBytes
<1> QED BY <1>4, <1>6, <1>8, <1>9, <1>10, <1>11, SMTT(60) DEF raw, n, sum, body

\* Where in the stream a side is: in which frame, how many bytes of it are
\* through, counting the header and without those that stuff, and how many of
\* the last were header bytes.
MnPlace == Nat \X Nat \X (0 .. 2)

\* Byte b leads from place g to place h.
MnFollows(c, list, g, b, h) ==
  /\ g \in MnPlace /\ h \in MnPlace /\ b \in MnByte /\ g[1] \in 1 .. Len(list)
  /\ LET f == list[g[1]]
         n == Len(f.b) + 9
     IN  \/ /\ g[2] < 3 /\ b = 170
            /\ h = <<g[1], g[2] + 1, IF g[2] = 2 THEN 0 ELSE g[2] + 1>>
         \/ /\ g[2] >= 3 /\ g[3] = 2 /\ b = 85
            /\ h = <<g[1], g[2], 0>>
         \/ /\ g[2] >= 3 /\ g[2] < n /\ g[3] # 2 /\ b = MnRaw(c, f)[g[2] - 2]
            /\ h = <<g[1], g[2] + 1, IF b = 170 THEN g[3] + 1 ELSE 0>>
         \/ /\ g[2] = n /\ g[3] # 2 /\ b = 85
            /\ h = <<g[1] + 1, 0, 0>>

\* Some bytes lead from g to h, through the places w.
MnThrough(c, list, g, bytes, h, w) ==
  /\ bytes \in MnBytes /\ w[0] = g /\ w[Len(bytes)] = h
  /\ \A i \in 1 .. Len(bytes) : MnFollows(c, list, w[i - 1], bytes[i], w[i])

MnLeads(c, list, g, bytes, h) == \E w : MnThrough(c, list, g, bytes, h, w)

\* Ways are joined.
LEMMA MnJoined ==
  ASSUME NEW c, NEW list, NEW g, NEW h, NEW o, NEW x, NEW y,
         MnLeads(c, list, g, x, h), MnLeads(c, list, h, y, o)
  PROVE  MnLeads(c, list, g, x \o y, o)
<1>1. PICK v : MnThrough(c, list, g, x, h, v)
  BY DEF MnLeads
<1>2. PICK w : MnThrough(c, list, h, y, o, w)
  BY DEF MnLeads
<1> DEFINE m == Len(x)
           n == Len(y)
           z == x \o y
           u == [i \in 0 .. m + n |-> IF i <= m THEN v[i] ELSE w[i - m]]
<1>3. x \in Seq(MnByte) /\ y \in Seq(MnByte) /\ m \in Nat /\ n \in Nat
  BY <1>1, <1>2 DEF MnThrough, MnBytes
<1>4. z \in Seq(MnByte) /\ Len(z) = m + n /\ \A i \in 1 .. m + n : z[i] = IF i <= m THEN x[i] ELSE y[i - m]
  BY <1>3, ConcatProperties
<1>5. \A i \in 0 .. m + n : u[i] = IF i <= m THEN v[i] ELSE w[i - m]
  OBVIOUS
<1>6. v[0] = g /\ v[m] = h /\ \A i \in 1 .. m : MnFollows(c, list, v[i - 1], x[i], v[i])
  BY <1>1 DEF MnThrough
<1>7. w[0] = h /\ w[n] = o /\ \A i \in 1 .. n : MnFollows(c, list, w[i - 1], y[i], w[i])
  BY <1>2 DEF MnThrough
<1> HIDE DEF u, z, m, n
<1>8. u[0] = g
  <2>1. 0 \in 0 .. m + n /\ 0 <= m
    BY <1>3
  <2> QED BY <1>5, <1>6, <2>1
<1>9. \A i \in 0 .. n : u[m + i] = w[i]
  <2> SUFFICES ASSUME NEW i \in 0 .. n PROVE u[m + i] = w[i]
    OBVIOUS
  <2>1. m + i \in 0 .. m + n /\ (m + i) - m = i /\ (m + i <= m <=> i = 0) /\ m + 0 = m
    BY <1>3
  <2> QED BY <1>5, <1>6, <1>7, <2>1
<1>10. u[m + n] = o
  <2>1. n \in 0 .. n
    BY <1>3
  <2> QED BY <1>7, <1>9, <2>1
<1>11. ASSUME NEW i \in 1 .. m + n PROVE MnFollows(c, list, u[i - 1], z[i], u[i])
  <2>1. CASE i <= m
    <3>1. i \in 1 .. m /\ i \in 0 .. m + n /\ i - 1 \in 0 .. m + n /\ i - 1 <= m
      BY <1>3, <2>1
    <3>2. u[i] = v[i] /\ u[i - 1] = v[i - 1] /\ z[i] = x[i]
      BY <1>4, <1>5, <2>1, <3>1
    <3> QED BY <1>6, <3>1, <3>2
  <2>2. CASE ~(i <= m)
    <3> DEFINE j == i - m
    <3>1. j \in 1 .. n /\ j \in 0 .. n /\ j - 1 \in 0 .. n /\ m + j = i /\ m + (j - 1) = i - 1
      BY <1>3, <2>2
    <3>2. z[i] = y[j]
      BY <1>4, <2>2
    <3> HIDE DEF j
    <3>3. u[i] = w[j] /\ u[i - 1] = w[j - 1]
      BY <1>9, <3>1
    <3> QED BY <1>7, <3>1, <3>2, <3>3
  <2> QED BY <2>1, <2>2
<1>12. MnThrough(c, list, g, z, o, u)
  BY <1>4, <1>8, <1>10, <1>11 DEF MnThrough, MnBytes
<1> QED BY <1>12 DEF MnLeads, z

\* A way is cut in two.
LEMMA MnCut ==
  ASSUME NEW c, NEW list, NEW g, NEW o, NEW x \in MnBytes, NEW y \in MnBytes,
         MnLeads(c, list, g, x \o y, o)
  PROVE  \E h : MnLeads(c, list, g, x, h) /\ MnLeads(c, list, h, y, o)
<1> DEFINE m == Len(x)
           n == Len(y)
           z == x \o y
<1>1. PICK w : MnThrough(c, list, g, z, o, w)
  BY DEF MnLeads
<1> DEFINE u == [i \in 0 .. n |-> w[m + i]]
<1>2. m \in Nat /\ n \in Nat /\ x \in Seq(MnByte) /\ y \in Seq(MnByte)
  BY DEF MnBytes
<1>3. Len(z) = m + n /\ \A i \in 1 .. m + n : z[i] = IF i <= m THEN x[i] ELSE y[i - m]
  BY <1>2, ConcatProperties
<1>4. w[0] = g /\ w[m + n] = o /\ \A i \in 1 .. m + n : MnFollows(c, list, w[i - 1], z[i], w[i])
  BY <1>1, <1>3 DEF MnThrough
<1>5. \A i \in 0 .. n : u[i] = w[m + i]
  OBVIOUS
<1> HIDE DEF u, z, m, n
<1>6. MnThrough(c, list, g, x, w[m], w)
  <2>1. Len(x) = m
    BY DEF m
  <2>2. ASSUME NEW i \in 1 .. m PROVE MnFollows(c, list, w[i - 1], x[i], w[i])
    <3>1. i \in 1 .. m + n /\ i <= m
      BY <1>2
    <3> QED BY <1>3, <1>4, <3>1
  <2> QED BY <1>4, <2>1, <2>2 DEF MnThrough
<1>7. MnThrough(c, list, w[m], y, o, u)
  <2>1. Len(y) = n /\ 0 \in 0 .. n /\ n \in 0 .. n /\ m + 0 = m
    BY <1>2 DEF n
  <2>2. ASSUME NEW i \in 1 .. n PROVE MnFollows(c, list, u[i - 1], y[i], u[i])
    <3>1. /\ m + i \in 1 .. m + n /\ ~(m + i <= m) /\ (m + i) - m = i
          /\ (m + i) - 1 = m + (i - 1) /\ i \in 0 .. n /\ i - 1 \in 0 .. n
      BY <1>2
    <3>2. z[m + i] = y[i]
      BY <1>3, <3>1
    <3>3. MnFollows(c, list, w[(m + i) - 1], z[m + i], w[m + i])
      BY <1>4, <3>1
    <3>4. u[i] = w[m + i] /\ u[i - 1] = w[m + (i - 1)]
      BY <1>5, <3>1
    <3> QED BY <3>1, <3>2, <3>3, <3>4
  <2> QED BY <1>4, <1>5, <2>1, <2>2 DEF MnThrough
<1> QED BY <1>6, <1>7 DEF MnLeads

\* No byte leads nowhere, one byte one step on.
LEMMA MnSteps ==
  ASSUME NEW c, NEW list
  PROVE  /\ \A g, h : MnLeads(c, list, g, << >>, h) <=> g = h
         /\ \A g, h, b : MnFollows(c, list, g, b, h) => MnLeads(c, list, g, <<b>>, h)
<1>1. ASSUME NEW g PROVE MnLeads(c, list, g, << >>, g)
  <2> DEFINE w == [i \in 0 .. 0 |-> g]
  <2>1. w[0] = g
    OBVIOUS
  <2> HIDE DEF w
  <2>2. << >> \in MnBytes /\ Len(<< >>) = 0
    BY DEF MnBytes
  <2>3. MnThrough(c, list, g, << >>, g, w)
    BY <2>1, <2>2 DEF MnThrough
  <2> QED BY <2>3 DEF MnLeads
<1>2. ASSUME NEW g, NEW h, MnLeads(c, list, g, << >>, h) PROVE g = h
  <2>1. PICK w : MnThrough(c, list, g, << >>, h, w)
    BY <1>2 DEF MnLeads
  <2>2. Len(<< >>) = 0
    OBVIOUS
  <2> QED BY <2>1, <2>2 DEF MnThrough
<1>3. ASSUME NEW g, NEW h, NEW b, MnFollows(c, list, g, b, h) PROVE MnLeads(c, list, g, <<b>>, h)
  <2> DEFINE w == [i \in 0 .. 1 |-> IF i = 0 THEN g ELSE h]
  <2>1. w[0] = g /\ w[1] = h
    OBVIOUS
  <2> HIDE DEF w
  <2>2. b \in MnByte
    BY <1>3 DEF MnFollows
  <2>3. <<b>> \in MnBytes /\ Len(<<b>>) = 1 /\ <<b>>[1] = b
    BY <2>2 DEF MnBytes
  <2>4. \A i \in 1 .. 1 : i = 1 /\ i - 1 = 0
    OBVIOUS
  <2>5. MnThrough(c, list, g, <<b>>, h, w)
    BY <1>3, <2>1, <2>3, <2>4 DEF MnThrough
  <2> QED BY <2>5 DEF MnLeads
<1> QED BY <1>1, <1>2, <1>3

\* More frames behind it change no way.
LEMMA MnLeadsOn ==
  ASSUME NEW c, NEW list \in Seq(Mn!Frames), NEW f \in Mn!Frames, NEW g, NEW bytes, NEW h,
         MnLeads(c, list, g, bytes, h)
  PROVE  MnLeads(c, Append(list, f), g, bytes, h)
<1> DEFINE new == Append(list, f)
<1>1. Len(new) = Len(list) + 1 /\ Len(list) \in Nat /\ \A k \in 1 .. Len(list) : new[k] = list[k]
  BY AppendProperties
<1> HIDE DEF new
<1>2. ASSUME NEW a, NEW b, NEW o, MnFollows(c, list, a, b, o) PROVE MnFollows(c, new, a, b, o)
  <2>1. a[1] \in 1 .. Len(list) /\ a[1] \in 1 .. Len(new) /\ new[a[1]] = list[a[1]]
    BY <1>1, <1>2 DEF MnFollows
  <2> QED BY <1>2, <2>1 DEF MnFollows
<1>3. PICK w : MnThrough(c, list, g, bytes, h, w)
  BY DEF MnLeads
<1>4. MnThrough(c, new, g, bytes, h, w)
  BY <1>2, <1>3 DEF MnThrough
<1> QED BY <1>4 DEF MnLeads, new

MnStates == {"SOF", "ID", "LENGTH", "PAYLOAD", "CHECKSUM"}
MnRec == [state : MnStates, header_seen : 0 .. 2, ok : {TRUE}, id : 0 .. 63, b : MnBytes,
          frame_length : 0 .. 255, crc : MnBytes, sum : MnBytes, queue : Seq(Mn!Frames), lost : Nat]

\* An In object.
MnMake(st, x, id, b, n, crc, sum, queue, lost) ==
  [state |-> st, header_seen |-> x, ok |-> TRUE, id |-> id, b |-> b, frame_length |-> n, crc |-> crc,
   sum |-> sum, queue |-> queue, lost |-> lost]

LEMMA MnMade ==
  ASSUME NEW st, NEW x, NEW id, NEW b, NEW n, NEW crc, NEW sum, NEW queue, NEW lost, NEW t,
         t = MnMake(st, x, id, b, n, crc, sum, queue, lost)
  PROVE  /\ t.state = st /\ t.header_seen = x /\ t.id = id /\ t.b = b /\ t.frame_length = n
         /\ t.crc = crc /\ t.sum = sum /\ t.queue = queue /\ t.lost = lost
BY DEF MnMake

LEMMA MnMadeType ==
  ASSUME NEW st \in MnStates, NEW x \in 0 .. 2, NEW id \in 0 .. 63, NEW b \in MnBytes, NEW n \in 0 .. 255,
         NEW crc \in MnBytes, NEW sum \in MnBytes, NEW queue \in Seq(Mn!Frames), NEW lost \in Nat
  PROVE  MnMake(st, x, id, b, n, crc, sum, queue, lost) \in MnRec
BY DEF MnRec, MnMake

LEMMA MnFields ==
  ASSUME NEW s \in MnRec
  PROVE  /\ s = MnMake(s.state, s.header_seen, s.id, s.b, s.frame_length, s.crc, s.sum, s.queue, s.lost)
         /\ s.state \in MnStates /\ s.header_seen \in 0 .. 2 /\ s.ok /\ s.id \in 0 .. 63
         /\ s.b \in MnBytes /\ s.frame_length \in 0 .. 255 /\ s.crc \in MnBytes /\ s.sum \in MnBytes
         /\ s.queue \in Seq(Mn!Frames) /\ s.lost \in Nat
<1>1. s = MnMake(s.state, s.header_seen, s.id, s.b, s.frame_length, s.crc, s.sum, s.queue, s.lost)
  BY DEF MnRec, MnMake
<1>2. /\ s.state \in MnStates /\ s.header_seen \in 0 .. 2 /\ s.ok /\ s.id \in 0 .. 63
      /\ s.b \in MnBytes /\ s.frame_length \in 0 .. 255 /\ s.crc \in MnBytes /\ s.sum \in MnBytes
      /\ s.queue \in Seq(Mn!Frames) /\ s.lost \in Nat
  BY DEF MnRec
<1> QED BY <1>1, <1>2

\* What a byte makes of it, state by state.
LEMMA MnMakes ==
  ASSUME NEW st, NEW x, NEW id, NEW b, NEW n, NEW crc, NEW sum, NEW queue, NEW lost, NEW y
  PROVE  LET s == MnMake(st, x, id, b, n, crc, sum, queue, lost)
         IN  /\ x = 2 /\ y = 170 => Mn!byte(s, y) = MnMake("ID", 0, id, b, n, crc, sum, queue, lost)
             /\ x = 2 /\ y = 85 => Mn!byte(s, y) = MnMake(st, 0, id, b, n, crc, sum, queue, lost)
             /\ x # 2 => Mn!byte(s, y) = Mn!Field(MnMake(st, IF y = 170 THEN x + 1 ELSE 0, id, b, n, crc, sum, queue, lost), y)
<1> DEFINE s == MnMake(st, x, id, b, n, crc, sum, queue, lost)
<1>1. s.header_seen = x
  BY DEF MnMake
<1>2. ASSUME x = 2, y = 170 PROVE Mn!byte(s, y) = MnMake("ID", 0, id, b, n, crc, sum, queue, lost)
  <2>1. Mn!byte(s, y) = [s EXCEPT !.header_seen = 0, !.state = "ID"]
    BY <1>1, <1>2 DEF Mn!byte, Mn!ThirdByte, Mn!HEADER_BYTE, Mn!STUFF_BYTE
  <2> QED BY <2>1 DEF MnMake
<1>3. ASSUME x = 2, y = 85 PROVE Mn!byte(s, y) = MnMake(st, 0, id, b, n, crc, sum, queue, lost)
  <2>1. Mn!byte(s, y) = [s EXCEPT !.header_seen = 0, !.state = @]
    BY <1>1, <1>3 DEF Mn!byte, Mn!ThirdByte, Mn!HEADER_BYTE, Mn!STUFF_BYTE
  <2> QED BY <2>1, ZenonT(60) DEF MnMake
<1>4. ASSUME x # 2
      PROVE  Mn!byte(s, y) = Mn!Field(MnMake(st, IF y = 170 THEN x + 1 ELSE 0, id, b, n, crc, sum, queue, lost), y)
  <2>1. Mn!byte(s, y) = Mn!Field([s EXCEPT !.header_seen = IF y = 170 THEN @ + 1 ELSE 0], y)
    BY <1>1, <1>4 DEF Mn!byte, Mn!HEADER_BYTE
  <2> DEFINE z == IF y = 170 THEN x + 1 ELSE 0
             t == [s EXCEPT !.header_seen = IF y = 170 THEN @ + 1 ELSE 0]
  <2>2. t = [s EXCEPT !.header_seen = z]
    BY <1>1
  <2> HIDE DEF z, t
  <2>3. t = MnMake(st, z, id, b, n, crc, sum, queue, lost)
    BY <2>2 DEF MnMake
  <2> QED BY <2>1, <2>3 DEF z, t
<1> QED BY <1>2, <1>3, <1>4 DEF s

LEMMA MnFieldSof ==
  ASSUME NEW x, NEW id, NEW b, NEW n, NEW crc, NEW sum, NEW queue, NEW lost, NEW y
  PROVE  Mn!Field(MnMake("SOF", x, id, b, n, crc, sum, queue, lost), y)
           = MnMake("SOF", x, id, b, n, crc, sum, queue, lost)
BY DEF Mn!Field, MnMake

LEMMA MnFieldId ==
  ASSUME NEW x, NEW id, NEW b, NEW n, NEW crc, NEW sum, NEW queue, NEW lost, NEW y
  PROVE  Mn!Field(MnMake("ID", x, id, b, n, crc, sum, queue, lost), y)
           = MnMake("LENGTH", x, y % 64, << >>, n, <<y>>, sum, queue, lost)
<1> DEFINE r == MnMake("ID", x, id, b, n, crc, sum, queue, lost)
           z == y % 64
<1>1. r.state = "ID"
  BY DEF MnMake
<1> HIDE DEF r, z
<1>2. Mn!Field(r, y) = [r EXCEPT !.id = z, !.b = << >>, !.crc = <<y>>, !.state = "LENGTH"]
  BY <1>1 DEF Mn!Field, z
<1>3. Mn!Field(MnMake("ID", x, id, b, n, crc, sum, queue, lost), y) = MnMake("LENGTH", x, z, << >>, n, <<y>>, sum, queue, lost)
  BY <1>2, ZenonT(60) DEF MnMake, r
<1> QED BY <1>3 DEF z

LEMMA MnFieldLength ==
  ASSUME NEW x, NEW id, NEW b, NEW n, NEW crc, NEW sum, NEW queue, NEW lost, NEW y
  PROVE  Mn!Field(MnMake("LENGTH", x, id, b, n, crc, sum, queue, lost), y) =
         MnMake(IF y > 0 THEN "PAYLOAD" ELSE "CHECKSUM", x, id, b, y, Append(crc, y), << >>, queue, lost)
<1> DEFINE r == MnMake("LENGTH", x, id, b, n, crc, sum, queue, lost)
           o == Append(crc, y)
           to == IF y > 0 THEN "PAYLOAD" ELSE "CHECKSUM"
<1>1. r.state = "LENGTH" /\ r.crc = crc
  BY DEF MnMake
<1> HIDE DEF r, o, to
<1>2. Mn!Field(r, y) = [[r EXCEPT !.crc = o] EXCEPT !.frame_length = y, !.sum = << >>, !.state = to]
  BY <1>1 DEF Mn!Field, Mn!Stepped, o, to
<1>3. Mn!Field(MnMake("LENGTH", x, id, b, n, crc, sum, queue, lost), y) = MnMake(to, x, id, b, y, o, << >>, queue, lost)
  BY <1>2, ZenonT(60) DEF MnMake, r
<1> QED BY <1>3 DEF to, o

LEMMA MnFieldPayload ==
  ASSUME NEW x, NEW id, NEW b, NEW n, NEW crc, NEW sum, NEW queue, NEW lost, NEW y,
         Len(b) # MnFrameSize
  PROVE  Mn!Field(MnMake("PAYLOAD", x, id, b, n, crc, sum, queue, lost), y) =
         MnMake(IF n = 1 THEN "CHECKSUM" ELSE "PAYLOAD", x, id, Append(b, y), n - 1, Append(crc, y), sum, queue, lost)
<1> DEFINE r == MnMake("PAYLOAD", x, id, b, n, crc, sum, queue, lost)
           o == Append(crc, y)
           p == Append(b, y)
           m == n - 1
           to == IF n = 1 THEN "CHECKSUM" ELSE "PAYLOAD"
<1>1. r.state = "PAYLOAD" /\ r.crc = crc /\ r.b = b /\ r.frame_length = n
  BY DEF MnMake
<1> HIDE DEF r, o, p, m, to
<1>2. Mn!Field(r, y) = [[r EXCEPT !.crc = o] EXCEPT !.b = p, !.frame_length = m, !.state = to]
  <2> DEFINE v == [r EXCEPT !.crc = o]
  <2>1. v.state = "PAYLOAD" /\ v.b = b /\ v.frame_length = n
    BY DEF MnMake, r
  <2>2. Mn!Field(r, y) = [v EXCEPT !.b = Append(@, y), !.frame_length = @ - 1,
                                   !.state = IF r.frame_length = 1 THEN "CHECKSUM" ELSE @]
    BY <1>1 DEF Mn!Field, Mn!Stepped, o
  <2> HIDE DEF v
  <2>3. Append(v.b, y) = p /\ v.frame_length - 1 = m /\ (IF r.frame_length = 1 THEN "CHECKSUM" ELSE v.state) = to
    BY <1>1, <2>1 DEF p, m, to
  <2> QED BY <2>2, <2>3 DEF v
<1>3. Mn!Field(MnMake("PAYLOAD", x, id, b, n, crc, sum, queue, lost), y) = MnMake(to, x, id, p, m, o, sum, queue, lost)
  BY <1>2, ZenonT(60) DEF MnMake, r
<1> QED BY <1>3 DEF to, o, p, m

LEMMA MnFieldSum ==
  ASSUME NEW x, NEW id, NEW b, NEW n, NEW crc, NEW sum, NEW queue, NEW lost, NEW y,
         Len(Append(sum, y)) < 4
  PROVE  Mn!Field(MnMake("CHECKSUM", x, id, b, n, crc, sum, queue, lost), y)
           = MnMake("CHECKSUM", x, id, b, n, crc, Append(sum, y), queue, lost)
<1> DEFINE r == MnMake("CHECKSUM", x, id, b, n, crc, sum, queue, lost)
           o == Append(sum, y)
<1>1. r.state = "CHECKSUM" /\ r.sum = sum
  BY DEF MnMake
<1> HIDE DEF r, o
<1>2. Mn!Field(r, y) = [r EXCEPT !.sum = o]
  BY <1>1 DEF Mn!Field, o
<1>3. Mn!Field(MnMake("CHECKSUM", x, id, b, n, crc, sum, queue, lost), y) = MnMake("CHECKSUM", x, id, b, n, crc, o, queue, lost)
  BY <1>2 DEF MnMake, r
<1> QED BY <1>3 DEF o

LEMMA MnFieldLast ==
  ASSUME NEW x, NEW id, NEW b, NEW n, NEW crc, NEW sum, NEW queue, NEW lost, NEW y,
         ~(Len(Append(sum, y)) < 4), crc \in DOMAIN nSums, nSums[crc] = Append(sum, y)
  PROVE  Mn!Field(MnMake("CHECKSUM", x, id, b, n, crc, sum, queue, lost), y) =
         IF Len(queue) < MnQSize
         THEN MnMake("SOF", x, id, b, n, crc, << >>, Append(queue, [id |-> id, b |-> b]), lost)
         ELSE MnMake("SOF", x, id, b, n, crc, << >>, queue, lost + 1)
<1> DEFINE r == MnMake("CHECKSUM", x, id, b, n, crc, sum, queue, lost)
           o == Append(sum, y)
           f == [id |-> id, b |-> b]
<1>1. r.state = "CHECKSUM" /\ r.sum = sum /\ r.crc = crc /\ r.id = id /\ r.b = b /\ r.queue = queue /\ r.lost = lost
  BY DEF MnMake
<1> HIDE DEF r, f
<1>2. Mn!Field(r, y) = [Mn!Delivered(r, f) EXCEPT !.sum = << >>, !.state = "SOF"]
  <2>1. Mn!CrcMatches(r, o)
    BY <1>1 DEF Mn!CrcMatches
  <2>2. f = [id |-> r.id, b |-> r.b]
    BY <1>1 DEF f
  <2> QED BY <1>1, <2>1, <2>2 DEF Mn!Field
<1>3. CASE Len(queue) < MnQSize
  <2> DEFINE w == Append(queue, f)
  <2>1. Mn!Delivered(r, f) = [r EXCEPT !.queue = w]
    BY <1>1, <1>3 DEF Mn!Delivered
  <2> HIDE DEF w
  <2>2. Mn!Field(r, y) = [[r EXCEPT !.queue = w] EXCEPT !.sum = << >>, !.state = "SOF"]
    BY <1>2, <2>1
  <2>3. Mn!Field(MnMake("CHECKSUM", x, id, b, n, crc, sum, queue, lost), y) = MnMake("SOF", x, id, b, n, crc, << >>, w, lost)
    BY <2>2, ZenonT(60) DEF MnMake, r
  <2> QED BY <1>3, <2>3 DEF w, f
<1>4. CASE ~(Len(queue) < MnQSize)
  <2> DEFINE w == lost + 1
  <2>1. Mn!Delivered(r, f) = [r EXCEPT !.lost = w]
    BY <1>1, <1>4 DEF Mn!Delivered
  <2> HIDE DEF w
  <2>2. Mn!Field(r, y) = [[r EXCEPT !.lost = w] EXCEPT !.sum = << >>, !.state = "SOF"]
    BY <1>2, <2>1
  <2>3. Mn!Field(MnMake("CHECKSUM", x, id, b, n, crc, sum, queue, lost), y) = MnMake("SOF", x, id, b, n, crc, << >>, queue, w)
    BY <2>2, ZenonT(60) DEF MnMake, r
  <2> QED BY <1>4, <2>3 DEF w
<1> QED BY <1>3, <1>4


\* Two elements.
LEMMA MnPair ==
  ASSUME NEW a \in MnByte, NEW b \in MnByte
  PROVE  Append(<<a>>, b) = <<a, b>>
<1> DEFINE u == <<a>>
           v == <<a, b>>
           w == Append(u, b)
<1>1. u \in Seq(MnByte) /\ v \in Seq(MnByte) /\ Len(u) = 1 /\ u[1] = a /\ Len(v) = 2 /\ v[1] = a /\ v[2] = b
  OBVIOUS
<1> HIDE DEF u, v
<1>2. w \in Seq(MnByte) /\ Len(w) = Len(u) + 1 /\ (\A i \in 1 .. Len(u) : w[i] = u[i]) /\ w[Len(u) + 1] = b
  <2>0. u \in Seq(MnByte)
    BY <1>1
  <2>1. \A i \in 1 .. Len(u) : w[i] = u[i]
    BY <2>0, AppendProperties
  <2>2. w \in Seq(MnByte) /\ Len(w) = Len(u) + 1
    BY <1>1, AppendProperties, ZenonT(60)
  <2>3. w[Len(u) + 1] = b
    BY <1>1, AppendProperties
  <2> QED BY <2>1, <2>2, <2>3
<1> HIDE DEF w
<1>3. Len(w) = 2 /\ w[1] = a /\ w[2] = b
  <2>1. 1 \in 1 .. 1 /\ 1 + 1 = 2
    OBVIOUS
  <2> QED BY <1>1, <1>2, <2>1
<1>4. \A i \in 1 .. 2 : i = 1 \/ i = 2
  OBVIOUS
<1>5. \A i \in 1 .. 2 : w[i] = v[i]
  BY <1>1, <1>3, <1>4
<1>6. w = v
  BY <1>1, <1>2, <1>3, <1>5, SeqEqual
<1> QED BY <1>6 DEF u, v, w

\* The first k bytes, and one more.
LEMMA MnPrefix ==
  ASSUME NEW z \in MnBytes, NEW k \in 0 .. Len(z)
  PROVE  /\ SubSeq(z, 1, k) \in MnBytes /\ Len(SubSeq(z, 1, k)) = k
         /\ k = 0 => SubSeq(z, 1, k) = << >>
         /\ k = Len(z) => SubSeq(z, 1, k) = z
         /\ k < Len(z) => Append(SubSeq(z, 1, k), z[k + 1]) = SubSeq(z, 1, k + 1)
<1>1. z \in Seq(MnByte) /\ Len(z) \in Nat /\ k \in Nat
  BY DEF MnBytes
<1>2. ASSUME NEW n \in 0 .. Len(z)
      PROVE  /\ SubSeq(z, 1, n) \in Seq(MnByte) /\ Len(SubSeq(z, 1, n)) = n
             /\ \A i \in 1 .. n : SubSeq(z, 1, n)[i] = z[i]
  BY <1>1
<1> DEFINE a == SubSeq(z, 1, k)
           b == SubSeq(z, 1, k + 1)
<1>3. a \in Seq(MnByte) /\ Len(a) = k /\ \A i \in 1 .. k : a[i] = z[i]
  BY <1>2
<1>4. k < Len(z) => b \in Seq(MnByte) /\ Len(b) = k + 1 /\ \A i \in 1 .. k + 1 : b[i] = z[i]
  <2> HAVE k < Len(z)
  <2> DEFINE n == k + 1
  <2>1. n \in 0 .. Len(z)
    BY <1>1
  <2> HIDE DEF n
  <2>2. /\ SubSeq(z, 1, n) \in Seq(MnByte) /\ Len(SubSeq(z, 1, n)) = n
        /\ \A i \in 1 .. n : SubSeq(z, 1, n)[i] = z[i]
    BY <1>2, <2>1
  <2> QED BY <2>2 DEF n
<1> HIDE DEF a, b
<1>5. k = 0 => a = << >>
  BY <1>3, EmptySeq
<1>6. k = Len(z) => a = z
  BY <1>1, <1>3, SeqEqual
<1>7. k < Len(z) => Append(a, z[k + 1]) = b
  <2> HAVE k < Len(z)
  <2> DEFINE u == Append(a, z[k + 1])
  <2>1. k + 1 \in 1 .. Len(z) /\ z[k + 1] \in MnByte
    BY <1>1
  <2>2. u \in Seq(MnByte) /\ Len(u) = k + 1 /\ u[k + 1] = z[k + 1] /\ \A i \in 1 .. k : u[i] = a[i]
    BY <1>3, <2>1, AppendProperties
  <2> HIDE DEF u
  <2>3. \A i \in 1 .. k + 1 : u[i] = b[i]
    <3> SUFFICES ASSUME NEW i \in 1 .. k + 1 PROVE u[i] = b[i]
      OBVIOUS
    <3>1. i = k + 1 \/ i \in 1 .. k
      BY <1>1
    <3> QED BY <1>3, <1>4, <2>2, <3>1
  <2>4. u = b
    BY <1>4, <2>2, <2>3, SeqEqual
  <2> QED BY <2>4 DEF u
<1> QED BY <1>3, <1>5, <1>6, <1>7 DEF a, b, MnBytes

\* In's buffers are in their bounds.
MnFine(s) == /\ s \in MnRec /\ Len(s.b) <= MnFrameSize /\ Len(s.sum) < 4 /\ Len(s.queue) <= MnQSize

\* What In has of frame f when k of its bytes are through.
MnKnows(f, k, s) ==
  LET n == Len(f.b)
      body == Mn!Body(f)
  IN  \/ k = 0 /\ s.state = "ID"
      \/ k = 1 /\ s.state = "LENGTH" /\ s.id = f.id /\ s.b = << >> /\ s.crc = <<f.id>>
      \/ /\ k - 2 \in 0 .. n - 1 /\ s.state = "PAYLOAD" /\ s.id = f.id /\ s.frame_length = n - (k - 2)
         /\ s.b = SubSeq(f.b, 1, k - 2) /\ s.crc = <<f.id, n>> \o s.b /\ s.sum = << >>
      \/ /\ k - 2 - n \in 0 .. 3 /\ s.state = "CHECKSUM" /\ s.id = f.id
         /\ s.b = f.b /\ s.crc = body /\ s.sum = SubSeq(nSums[body], 1, k - 2 - n)
      \/ k = n + 6 /\ s.state = "SOF"

\* In has frame f, or had no room for it.
MnTaken(f, queue, lost, s) == \/ s.queue = Append(queue, f) /\ s.lost = lost
                              \/ s.queue = queue /\ s.lost = lost + 1

\* What byte k of frame f makes of In.
MnTold(f, k, x, queue, lost, s) ==
  /\ MnFine(s) /\ s.header_seen = x /\ MnKnows(f, k, s)
  /\ IF k = Len(f.b) + 6 THEN MnTaken(f, queue, lost, s) ELSE s.queue = queue /\ s.lost = lost

\* The identifier.
LEMMA MnIdTold ==
  ASSUME nSums \in MnSumsOf, NEW f \in Mn!Frames, NEW x, NEW s, MnFine(s), s.header_seen = x, s.state = "ID"
  PROVE  MnTold(f, 1, x, s.queue, s.lost, Mn!Field(s, f.id))
<1> DEFINE i == f.id
           o == <<i>>
           e == << >>
           n == Len(f.b)
           m == s.frame_length
           sum == s.sum
           to == s.queue
           lost == s.lost
           t == MnMake("LENGTH", x, i, e, m, o, sum, to, lost)
<1>1. i \in 0 .. 63 /\ n \in 0 .. 255
  BY MnFrame
<1>2. s \in MnRec
  BY DEF MnFine
<1>3. /\ s = MnMake("ID", x, s.id, s.b, m, s.crc, sum, to, lost)
      /\ x \in 0 .. 2 /\ m \in 0 .. 255 /\ sum \in MnBytes
      /\ to \in Seq(Mn!Frames) /\ lost \in Nat
  BY <1>2, MnFields
<1>4. Len(sum) < 4 /\ Len(to) <= MnQSize
  BY DEF MnFine
<1>5. o \in MnBytes /\ e \in MnBytes /\ Len(e) = 0
  <2>1. i \in MnByte
    BY <1>1 DEF MnByte
  <2> HIDE DEF i
  <2> QED BY <2>1, SMTT(60) DEF MnBytes
<1> DEFINE id == s.id
           b == s.b
           crc == s.crc
<1> HIDE DEF i, n, m, sum, to, lost, id, b, crc
<1>6. i % 64 = i
  BY <1>1
<1>7. s = MnMake("ID", x, id, b, m, crc, sum, to, lost)
  BY <1>3 DEF id, b, crc
<1>8. Mn!Field(s, i) = MnMake("LENGTH", x, i % 64, << >>, m, <<i>>, sum, to, lost)
  <2>1. Mn!Field(MnMake("ID", x, id, b, m, crc, sum, to, lost), i)
          = MnMake("LENGTH", x, i % 64, << >>, m, <<i>>, sum, to, lost)
    BY MnFieldId
  <2> QED BY <1>7, <2>1
<1>9. Mn!Field(s, i) = t
  BY <1>6, <1>8
<1> HIDE DEF o, e
<1>10. "LENGTH" \in MnStates
  BY DEF MnStates
<1>11. /\ t.state = "LENGTH" /\ t.header_seen = x /\ t.id = i /\ t.b = e
       /\ t.crc = o /\ t.sum = sum /\ t.queue = to /\ t.lost = lost
       /\ t \in MnRec
  <2>1. t \in MnRec
    BY <1>1, <1>3, <1>5, <1>10 DEF MnRec, MnMake
  <2> QED BY <2>1, MnMade
<1> HIDE DEF t
<1>12. MnFine(t)
  <2>1. 0 <= MnFrameSize
    BY MinAssumption
  <2> QED BY <1>4, <1>5, <1>11, <2>1 DEF MnFine
<1>13. MnKnows(f, 1, t)
  BY <1>11 DEF MnKnows, i, o, e
<1>14. 1 # n + 6
  BY <1>1
<1>15. MnTold(f, 1, x, to, lost, t)
  BY <1>11, <1>12, <1>13, <1>14 DEF MnTold, n
<1> QED BY <1>9, <1>15, SMTT(60) DEF i, to, lost

\* The length.
LEMMA MnLengthTold ==
  ASSUME nSums \in MnSumsOf, NEW f \in Mn!Frames, NEW x, NEW s, MnFine(s), s.header_seen = x, MnKnows(f, 1, s)
  PROVE  MnTold(f, 2, x, s.queue, s.lost, Mn!Field(s, Len(f.b)))
<1> DEFINE n == Len(f.b)
           st == IF n > 0 THEN "PAYLOAD" ELSE "CHECKSUM"
           i == f.id
           o == <<i, n>>
           first == <<i>>
           e == << >>
           m == s.frame_length
           sum == s.sum
           to == s.queue
           lost == s.lost
           t == MnMake(st, x, i, e, n, o, e, to, lost)
<1>1. i \in 0 .. 63 /\ n \in 0 .. 255 /\ f.b \in MnBytes /\ Mn!Body(f) = o \o f.b
  BY MnFrame
<1>2. s.state = "LENGTH" /\ s.id = i /\ s.b = e /\ s.crc = first /\ s \in MnRec
  <2>1. 1 # 0 /\ ~(1 - 2 \in 0 .. n - 1) /\ ~(1 - 2 - n \in 0 .. 3) /\ 1 # n + 6
    BY <1>1
  <2> QED BY <2>1 DEF MnKnows, MnFine, n
<1>3. /\ s = MnMake(s.state, x, s.id, s.b, m, s.crc, sum, to, lost)
      /\ x \in 0 .. 2 /\ to \in Seq(Mn!Frames) /\ lost \in Nat
  BY <1>2, MnFields, SMTT(60)
<1>4. Len(to) <= MnQSize
  BY DEF MnFine
<1>5. o \in MnBytes /\ e \in MnBytes /\ st \in MnStates /\ o \o e = o /\ Len(e) = 0
  <2>1. i \in MnByte /\ n \in MnByte
    BY <1>1 DEF MnByte
  <2> HIDE DEF i, n
  <2>2. o \in Seq(MnByte)
    BY <2>1
  <2>3. Len(e) = 0
    OBVIOUS
  <2> HIDE DEF o
  <2> QED BY <2>2, <2>3, ConcatEmptySeq, SMTT(60) DEF MnBytes, MnStates
<1> HIDE DEF n, i, m, sum, to, lost
<1>6. Append(first, n) = o
  <2>1. i \in MnByte /\ n \in MnByte
    BY <1>1 DEF MnByte
  <2> QED BY <2>1, MnPair
<1> HIDE DEF o, first
<1>7. s = MnMake("LENGTH", x, i, e, m, first, sum, to, lost)
  BY <1>2, <1>3
<1>8. Mn!Field(s, n) = MnMake(st, x, i, e, n, Append(first, n), e, to, lost)
  <2>1. Mn!Field(MnMake("LENGTH", x, i, e, m, first, sum, to, lost), n)
          = MnMake(st, x, i, e, n, Append(first, n), << >>, to, lost)
    BY MnFieldLength
  <2> QED BY <1>7, <2>1
<1> HIDE DEF st, e
<1>9. Mn!Field(s, n) = t
  BY <1>6, <1>8
<1>10. /\ t.state = st /\ t.header_seen = x /\ t.id = i /\ t.b = e /\ t.frame_length = n
       /\ t.crc = o /\ t.sum = e /\ t.queue = to /\ t.lost = lost
       /\ t \in MnRec
  <2>1. t \in MnRec
    BY <1>1, <1>3, <1>5 DEF MnRec, MnMake
  <2> QED BY <2>1, MnMade
<1> HIDE DEF t
<1>11. MnFine(t)
  <2>1. 0 <= MnFrameSize
    BY MinAssumption
  <2> QED BY <1>4, <1>5, <1>10, <2>1 DEF MnFine
<1>12. MnKnows(f, 2, t)
  <2>1. SubSeq(f.b, 1, 0) = e /\ SubSeq(nSums[Mn!Body(f)], 1, 0) = e
    <3> DEFINE z == nSums[Mn!Body(f)]
               p == f.b
    <3>1. z \in MnBytes /\ Len(z) = 4
      BY MnSum, SMTT(60)
    <3>2. p \in MnBytes /\ Len(p) \in 0 .. 255
      BY <1>1, SMTT(60) DEF n
    <3> HIDE DEF z, p
    <3>3. 0 \in 0 .. Len(z) /\ 0 \in 0 .. Len(p)
      BY <3>1, <3>2, SMTT(60)
    <3>4. SubSeq(p, 1, 0) = << >> /\ SubSeq(z, 1, 0) = << >>
      BY <3>1, <3>2, <3>3, MnPrefix
    <3> QED BY <3>4 DEF z, p, e
  <2>2. CASE n > 0
    <3>1. 2 - 2 \in 0 .. n - 1 /\ n - (2 - 2) = n /\ 2 - 2 = 0 /\ st = "PAYLOAD"
      BY <1>1, <2>2 DEF st
    <3>2. t.crc = <<f.id, Len(f.b)>> \o t.b
      BY <1>5, <1>10 DEF o, i, n
    <3> QED BY <1>10, <2>1, <3>1, <3>2 DEF MnKnows, n, i, e
  <2>3. CASE ~(n > 0)
    <3>1. n = 0 /\ 2 - 2 - n \in 0 .. 3 /\ 2 - 2 - n = 0 /\ st = "CHECKSUM"
      BY <1>1, <2>3 DEF st
    <3>2. f.b = e
      BY <1>1, <3>1, EmptySeq DEF MnBytes, n, e
    <3>3. t.crc = Mn!Body(f)
      BY <1>1, <1>5, <1>10, <3>2
    <3> QED BY <1>10, <2>1, <3>1, <3>2, <3>3 DEF MnKnows, n, i
  <2> QED BY <2>2, <2>3
<1>13. 2 # n + 6
  BY <1>1
<1>14. MnTold(f, 2, x, to, lost, t)
  BY <1>10, <1>11, <1>12, <1>13 DEF MnTold, n
<1> QED BY <1>9, <1>14, SMTT(60) DEF n, to, lost

\* What is appended to a part goes to the end of the whole.
LEMMA MnAppendBehind ==
  ASSUME NEW s \in MnBytes, NEW t \in MnBytes, NEW y \in MnByte
  PROVE  /\ Append(t, y) \in MnBytes /\ s \o t \in MnBytes
         /\ Append(s \o t, y) = s \o Append(t, y)
<1>1. s \in Seq(MnByte) /\ t \in Seq(MnByte) /\ <<y>> \in Seq(MnByte)
  BY DEF MnBytes
<1>2. s \o t \in Seq(MnByte) /\ Append(t, y) \in Seq(MnByte)
  BY <1>1, ConcatProperties, AppendProperties
<1>3. Append(s \o t, y) = (s \o t) \o <<y>> /\ Append(t, y) = t \o <<y>>
  BY <1>1, <1>2, AppendIsConcat
<1>4. (s \o t) \o <<y>> = s \o (t \o <<y>>)
  BY <1>1, ConcatAssociative, SMTT(60)
<1> QED BY <1>2, <1>3, <1>4 DEF MnBytes

\* A byte of the payload.
LEMMA MnPayloadTold ==
  ASSUME nSums \in MnSumsOf, NEW f \in Mn!Frames, NEW k, NEW x, NEW s, MnFine(s), s.header_seen = x,
         k - 2 \in 0 .. Len(f.b) - 1, k \in Nat, MnKnows(f, k, s)
  PROVE  MnTold(f, k + 1, x, s.queue, s.lost, Mn!Field(s, f.b[k - 2 + 1]))
<1> DEFINE n == Len(f.b)
           i == f.id
           j == k - 2
           p == f.b
           y == p[j + 1]
           st == IF n - j = 1 THEN "CHECKSUM" ELSE "PAYLOAD"
           head == <<i, n>>
           b == s.b
           crc == s.crc
           e == << >>
           to == s.queue
           lost == s.lost
           c == Append(b, y)
           o == Append(crc, y)
           m == n - j
           t == MnMake(st, x, i, c, m - 1, o, e, to, lost)
<1>1. i \in 0 .. 63 /\ n \in 0 .. 255 /\ n \in 0 .. MnFrameSize /\ p \in MnBytes /\ Mn!Body(f) = head \o p
  BY MnFrame
<1>2. j \in 0 .. n - 1 /\ k = j + 2 /\ k \in Nat
  BY <1>1
<1>3. s \in MnRec /\ Len(to) <= MnQSize
  BY DEF MnFine
<1>4. /\ s.state = "PAYLOAD" /\ s.id = i /\ s.frame_length = m
      /\ b = SubSeq(p, 1, j) /\ crc = head \o b /\ s.sum = e
  <2>1. k # 0 /\ k # 1 /\ ~(k - 2 - n \in 0 .. 3) /\ k # n + 6
    BY <1>1, <1>2
  <2> QED BY <2>1 DEF MnKnows
<1>5. /\ s = MnMake(s.state, x, s.id, b, s.frame_length, crc, s.sum, to, lost)
      /\ x \in 0 .. 2 /\ to \in Seq(Mn!Frames) /\ lost \in Nat /\ b \in MnBytes /\ crc \in MnBytes /\ s.sum \in MnBytes
  BY <1>3, MnFields
<1>6. s = MnMake("PAYLOAD", x, i, b, m, crc, e, to, lost) /\ e \in MnBytes
  BY <1>4, <1>5
<1>7. head \in MnBytes
  <2>1. i \in MnByte /\ n \in MnByte
    BY <1>1 DEF MnByte
  <2> HIDE DEF i, n
  <2> QED BY <2>1, SMTT(60) DEF MnBytes
<1> HIDE DEF n, i, p, j, to, lost, head, b, crc, e
<1>8. Len(p) = n
  BY DEF p, n
<1>9. Len(b) = j /\ c = SubSeq(p, 1, j + 1) /\ (j = n - 1 => c = p) /\ Len(c) = j + 1 /\ y \in MnByte /\ c \in MnBytes
  <2>1. j \in 0 .. Len(p) /\ j < Len(p) /\ j + 1 \in 0 .. Len(p) /\ j + 1 \in 1 .. Len(p)
    BY <1>1, <1>2, <1>8
  <2>2. Len(SubSeq(p, 1, j)) = j /\ Append(SubSeq(p, 1, j), y) = SubSeq(p, 1, j + 1)
    BY <1>1, <2>1, MnPrefix
  <2> DEFINE r == j + 1
  <2>3. r \in 0 .. Len(p)
    BY <2>1
  <2> HIDE DEF r
  <2>4. SubSeq(p, 1, r) \in MnBytes /\ Len(SubSeq(p, 1, r)) = r /\ (r = Len(p) => SubSeq(p, 1, r) = p)
    BY <1>1, <2>3, MnPrefix
  <2>5. p[j + 1] \in MnByte
    BY <1>1, <2>1 DEF MnBytes
  <2>6. j = n - 1 => r = Len(p)
    BY <1>1, <1>2, <1>8 DEF r
  <2>7. c = SubSeq(p, 1, r)
    BY <1>4, <2>2 DEF r
  <2> HIDE DEF c
  <2>8. Len(b) = j
    BY <1>4, <2>2
  <2> QED BY <2>4, <2>5, <2>6, <2>7, <2>8 DEF r
<1>10. m \in 0 .. 255 /\ m - 1 \in 0 .. 255 /\ st \in MnStates /\ m - 1 = n - (j + 1)
  BY <1>1, <1>2 DEF MnStates
<1>11. o = head \o c /\ o \in MnBytes
  <2>1. Append(head \o b, y) = head \o Append(b, y)
    BY <1>5, <1>7, <1>9, MnAppendBehind
  <2>2. o = head \o c
    BY <1>4, <2>1
  <2> HIDE DEF c, o
  <2>3. head \o c \in MnBytes
    BY <1>7, <1>9, ConcatProperties DEF MnBytes
  <2> QED BY <2>2, <2>3
<1>12. Len(b) # MnFrameSize
  <2>1. MnFrameSize \in Nat
    BY MinAssumption
  <2> QED BY <1>1, <1>2, <1>9, <2>1
<1> HIDE DEF y, m
<1>13. Mn!Field(s, y) = MnMake(IF m = 1 THEN "CHECKSUM" ELSE "PAYLOAD", x, i, Append(b, y), m - 1, Append(crc, y), e, to, lost)
  <2>1. Mn!Field(MnMake("PAYLOAD", x, i, b, m, crc, e, to, lost), y)
          = MnMake(IF m = 1 THEN "CHECKSUM" ELSE "PAYLOAD", x, i, Append(b, y), m - 1, Append(crc, y), e, to, lost)
    BY <1>12, MnFieldPayload
  <2> QED BY <1>6, <2>1
<1>14. Mn!Field(s, y) = t
  BY <1>13 DEF m
<1> DEFINE l == m - 1
<1>15. l \in 0 .. 255 /\ t = MnMake(st, x, i, c, l, o, e, to, lost)
  BY <1>10
<1> HIDE DEF st, c, o, l, t
<1>16. /\ t.state = st /\ t.header_seen = x /\ t.id = i /\ t.b = c /\ t.frame_length = l
       /\ t.crc = o /\ t.sum = e /\ t.queue = to /\ t.lost = lost
  BY <1>15, MnMade, SMTT(60)
<1>17. t \in MnRec
  BY <1>1, <1>5, <1>6, <1>9, <1>10, <1>11, <1>15, MnMadeType
<1>18. MnFine(t)
  <2>1. Len(e) = 0
    BY DEF e
  <2>2. Len(c) <= MnFrameSize
    BY <1>1, <1>2, <1>9, MinAssumption
  <2>3. t.ok
    BY <1>17 DEF MnRec
  <2> QED BY <1>3, <1>16, <1>17, <2>1, <2>2, <2>3 DEF MnFine
<1>19. k + 1 - 2 = j + 1 /\ k + 1 # n + 6
  BY <1>1, <1>2
<1>20. MnKnows(f, k + 1, t)
  <2>1. CASE j = n - 1
    <3>1. st = "CHECKSUM" /\ k + 1 - 2 - n = 0 /\ k + 1 - 2 - n \in 0 .. 3
      BY <1>1, <1>2, <2>1 DEF st
    <3>2. SubSeq(nSums[Mn!Body(f)], 1, 0) = << >>
      <4> DEFINE z == nSums[Mn!Body(f)]
      <4>1. z \in MnBytes /\ Len(z) = 4
        BY MnSum
      <4> HIDE DEF z
      <4>2. 0 \in 0 .. Len(z)
        BY <4>1
      <4>3. SubSeq(z, 1, 0) = << >>
        BY <4>1, <4>2, MnPrefix
      <4> QED BY <4>3 DEF z
    <3>3. t.b = f.b /\ t.crc = Mn!Body(f)
      BY <1>1, <1>9, <1>11, <1>16, <2>1 DEF p
    <3> DEFINE r == k + 1 - 2 - n
    <3>4. r = 0 /\ r \in 0 .. 3 /\ t.sum = SubSeq(nSums[Mn!Body(f)], 1, r)
      BY <1>16, <3>1, <3>2 DEF e
    <3> QED BY <1>16, <3>1, <3>3, <3>4 DEF MnKnows, n, i
  <2>2. CASE j # n - 1
    <3>1. st = "PAYLOAD" /\ k + 1 - 2 \in 0 .. n - 1 /\ l = n - (k + 1 - 2)
      BY <1>1, <1>2, <1>10, <1>19, <2>2 DEF st, l
    <3>2. t.b = SubSeq(f.b, 1, k + 1 - 2)
      BY <1>9, <1>16, <1>19 DEF p
    <3>3. t.crc = <<f.id, Len(f.b)>> \o t.b
      BY <1>11, <1>16 DEF head, i, n
    <3> QED BY <1>16, <3>1, <3>2, <3>3 DEF MnKnows, n, i, e
  <2> QED BY <2>1, <2>2
<1>21. MnTold(f, k + 1, x, to, lost, t)
  BY <1>16, <1>18, <1>19, <1>20 DEF MnTold, n
<1>22. MnTold(f, k + 1, x, to, lost, Mn!Field(s, y))
  BY <1>14, <1>21
<1> QED BY <1>22 DEF to, lost, y, p, j

\* A byte of the checksum.
LEMMA MnSumTold ==
  ASSUME nSums \in MnSumsOf, NEW f \in Mn!Frames, NEW k \in Nat, NEW x, NEW s, MnFine(s), s.header_seen = x,
         k - 2 - Len(f.b) \in 0 .. 3, MnKnows(f, k, s)
  PROVE  MnTold(f, k + 1, x, s.queue, s.lost, Mn!Field(s, nSums[Mn!Body(f)][k - 2 - Len(f.b) + 1]))
<1> DEFINE n == Len(f.b)
           i == f.id
           j == k - 2 - n
           p == f.b
           body == Mn!Body(f)
           z == nSums[body]
           y == z[j + 1]
           sum == s.sum
           m == s.frame_length
           to == s.queue
           lost == s.lost
           o == Append(sum, y)
           e == << >>
<1>1. i \in 0 .. 63 /\ n \in 0 .. 255 /\ n \in 0 .. MnFrameSize /\ p \in MnBytes /\ body \in MnBytes /\ f = [id |-> i, b |-> p]
  BY MnFrame
<1>2. z \in MnBytes /\ Len(z) = 4 /\ body \in DOMAIN nSums
  BY MnSum
<1>3. j \in 0 .. 3 /\ k = j + 2 + n
  BY <1>1
<1>4. s \in MnRec /\ Len(to) <= MnQSize
  BY DEF MnFine
<1>5. s.state = "CHECKSUM" /\ s.id = i /\ s.b = p /\ s.crc = body /\ sum = SubSeq(z, 1, j)
  <2>1. k # 0 /\ k # 1 /\ ~(k - 2 \in 0 .. n - 1) /\ k # n + 6
    BY <1>1, <1>3, SMTT(60)
  <2> QED BY <2>1 DEF MnKnows
<1>6. /\ s = MnMake(s.state, x, s.id, s.b, m, s.crc, sum, to, lost)
      /\ x \in 0 .. 2 /\ m \in 0 .. 255 /\ to \in Seq(Mn!Frames) /\ lost \in Nat
  BY <1>4, MnFields
<1>7. s = MnMake("CHECKSUM", x, i, p, m, body, sum, to, lost)
  BY <1>5, <1>6
<1>8. e \in MnBytes /\ Len(e) = 0
  BY DEF MnBytes
<1> HIDE DEF n, i, p, j, to, lost, body, z, sum, m, e
<1>9. Len(p) = n /\ Len(p) <= MnFrameSize
  <2>1. Len(p) = n
    BY DEF p, n
  <2> QED BY <1>1, <2>1, MinAssumption
<1>10. o = SubSeq(z, 1, j + 1) /\ o \in MnBytes /\ Len(o) = j + 1 /\ (j = 3 => o = z)
  <2>1. j \in 0 .. Len(z) /\ j < Len(z)
    BY <1>2, <1>3
  <2>2. Append(SubSeq(z, 1, j), y) = SubSeq(z, 1, j + 1)
    BY <1>2, <2>1, MnPrefix
  <2> DEFINE r == j + 1
  <2>3. r \in 0 .. Len(z) /\ (j = 3 => r = Len(z))
    BY <1>2, <1>3
  <2> HIDE DEF r
  <2>4. SubSeq(z, 1, r) \in MnBytes /\ Len(SubSeq(z, 1, r)) = r /\ (r = Len(z) => SubSeq(z, 1, r) = z)
    BY <1>2, <2>3, MnPrefix
  <2>5. o = SubSeq(z, 1, r)
    BY <1>5, <2>2 DEF r
  <2> HIDE DEF o
  <2> QED BY <2>3, <2>4, <2>5 DEF r
<1> HIDE DEF y
<1>11. k + 1 = n + 6 <=> j = 3
  BY <1>1, <1>3
<1>12. CASE j < 3
  <2> DEFINE t == MnMake("CHECKSUM", x, i, p, m, body, o, to, lost)
  <2>1. Len(Append(sum, y)) < 4
    BY <1>3, <1>10, <1>12
  <2>2. Mn!Field(s, y) = t
    <3>1. Mn!Field(MnMake("CHECKSUM", x, i, p, m, body, sum, to, lost), y)
            = MnMake("CHECKSUM", x, i, p, m, body, Append(sum, y), to, lost)
      BY <2>1, MnFieldSum
    <3> QED BY <1>7, <3>1
  <2>3. t = MnMake("CHECKSUM", x, i, p, m, body, o, to, lost)
    OBVIOUS
  <2> HIDE DEF o, t
  <2>4. /\ t.state = "CHECKSUM" /\ t.header_seen = x /\ t.id = i /\ t.b = p /\ t.crc = body /\ t.sum = o
        /\ t.queue = to /\ t.lost = lost
    BY <2>3, MnMade, SMTT(60)
  <2>5. t \in MnRec
    <3>1. "CHECKSUM" \in MnStates
      BY DEF MnStates
    <3> QED BY <1>1, <1>6, <1>10, <2>3, <3>1, MnMadeType
  <2>6. MnFine(t)
    <3>1. t.ok
      BY <2>5 DEF MnRec
    <3>2. Len(o) < 4
      BY <1>3, <1>10, <1>12
    <3> QED BY <1>4, <1>9, <2>4, <2>5, <3>1, <3>2 DEF MnFine
  <2>7. k + 1 - 2 - n = j + 1 /\ j + 1 \in 0 .. 3 /\ k + 1 # n + 6
    BY <1>1, <1>3, <1>12
  <2>8. MnKnows(f, k + 1, t)
    <3>1. t.sum = SubSeq(nSums[Mn!Body(f)], 1, k + 1 - 2 - n)
      BY <1>10, <2>4, <2>7 DEF z, body
    <3>2. k + 1 - 2 - n \in 0 .. 3
      BY <2>7
    <3>3. t.state = "CHECKSUM" /\ t.id = f.id /\ t.b = f.b /\ t.crc = Mn!Body(f)
      BY <2>4 DEF i, p, body
    <3> QED BY <3>1, <3>2, <3>3 DEF MnKnows, n
  <2>9. MnTold(f, k + 1, x, to, lost, t)
    BY <2>4, <2>6, <2>7, <2>8 DEF MnTold, n
  <2> QED BY <2>2, <2>9 DEF to, lost, y, z, body, j, n
<1>13. CASE ~(j < 3)
  <2>1. j = 3 /\ ~(Len(Append(sum, y)) < 4) /\ nSums[body] = Append(sum, y) /\ k + 1 = n + 6
    <3>1. j = 3
      BY <1>3, <1>13
    <3>2. Len(o) = 4 /\ o = z /\ k + 1 = n + 6
      BY <1>10, <1>11, <3>1
    <3> QED BY <3>1, <3>2 DEF z
  <2>2. Mn!Field(s, y) = IF Len(to) < MnQSize
                         THEN MnMake("SOF", x, i, p, m, body, e, Append(to, f), lost)
                         ELSE MnMake("SOF", x, i, p, m, body, e, to, lost + 1)
    <3>1. Mn!Field(MnMake("CHECKSUM", x, i, p, m, body, sum, to, lost), y) =
            IF Len(to) < MnQSize
            THEN MnMake("SOF", x, i, p, m, body, << >>, Append(to, [id |-> i, b |-> p]), lost)
            ELSE MnMake("SOF", x, i, p, m, body, << >>, to, lost + 1)
      BY <1>2, <2>1, MnFieldLast, SMTT(60)
    <3>2. f = [id |-> i, b |-> p]
      BY <1>1
    <3> QED BY <1>7, <3>1, <3>2 DEF e
  <2>3. ASSUME NEW q2 \in Seq(Mn!Frames), NEW l2 \in Nat, Len(q2) <= MnQSize, MnTaken(f, to, lost, [queue |-> q2, lost |-> l2]),
               NEW t, t = MnMake("SOF", x, i, p, m, body, e, q2, l2)
        PROVE  MnTold(f, k + 1, x, to, lost, t)
    <3>1. /\ t.state = "SOF" /\ t.header_seen = x /\ t.b = p /\ t.sum = e
          /\ t.queue = q2 /\ t.lost = l2
      BY <2>3, MnMade, SMTT(60)
    <3>2. t \in MnRec
      <4>1. "SOF" \in MnStates
        BY DEF MnStates
      <4> QED BY <1>1, <1>6, <1>8, <2>3, <4>1, MnMadeType, ZenonT(60)
    <3>3. MnFine(t)
      <4>1. t.ok
        BY <3>2 DEF MnRec
      <4> QED BY <1>8, <1>9, <2>3, <3>1, <3>2, <4>1 DEF MnFine
    <3>4. MnKnows(f, k + 1, t)
      BY <2>1, <3>1 DEF MnKnows, n
    <3>5. MnTaken(f, to, lost, t)
      BY <2>3, <3>1 DEF MnTaken
    <3> QED BY <2>1, <3>1, <3>3, <3>4, <3>5 DEF MnTold, n
  <2> DEFINE room == Append(to, f)
             more == lost + 1
  <2>4. room \in Seq(Mn!Frames) /\ Len(room) = Len(to) + 1 /\ more \in Nat /\ Len(to) \in Nat
    BY <1>6, AppendProperties
  <2>5. MnTaken(f, to, lost, [queue |-> room, lost |-> lost]) /\ MnTaken(f, to, lost, [queue |-> to, lost |-> more])
    BY DEF MnTaken
  <2> HIDE DEF room, more
  <2>6. CASE Len(to) < MnQSize
    <3>1. Mn!Field(s, y) = MnMake("SOF", x, i, p, m, body, e, room, lost)
      BY <2>2, <2>6 DEF room
    <3>2. Len(room) <= MnQSize
      BY <2>4, <2>6, MinAssumption
    <3>3. MnTold(f, k + 1, x, to, lost, Mn!Field(s, y))
      BY <1>6, <2>3, <2>4, <2>5, <3>1, <3>2
    <3> QED BY <3>3 DEF to, lost, y, z, body, j, n
  <2>7. CASE ~(Len(to) < MnQSize)
    <3>1. Mn!Field(s, y) = MnMake("SOF", x, i, p, m, body, e, to, more)
      BY <2>2, <2>7 DEF more
    <3>2. MnTold(f, k + 1, x, to, lost, Mn!Field(s, y))
      BY <1>4, <1>6, <2>3, <2>4, <2>5, <3>1
    <3> QED BY <3>2 DEF to, lost, y, z, body, j, n
  <2> QED BY <2>6, <2>7
<1> QED BY <1>12, <1>13

\* The byte behind the first k of a frame.
LEMMA MnRawTold ==
  ASSUME nSums \in MnSumsOf, NEW f \in Mn!Frames, NEW k \in 0 .. Len(f.b) + 5, NEW x, NEW s, MnFine(s),
         s.header_seen = x, MnKnows(f, k, s)
  PROVE  MnTold(f, k + 1, x, s.queue, s.lost, Mn!Field(s, MnRaw(nSums, f)[k + 1]))
<1> DEFINE n == Len(f.b)
           raw == MnRaw(nSums, f)
<1>1. n \in 0 .. 255 /\ k \in Nat
  <2>1. n \in 0 .. 255
    BY MnFrame
  <2>2. k \in 0 .. n + 5
    OBVIOUS
  <2> HIDE DEF n
  <2> QED BY <2>1, <2>2
<1>2. /\ raw[1] = f.id /\ raw[2] = n
      /\ \A i \in 1 .. n : raw[i + 2] = f.b[i]
      /\ \A i \in 1 .. 4 : raw[i + 2 + n] = nSums[Mn!Body(f)][i]
  BY MnRawIs
<1> HIDE DEF raw
<1>3. CASE k = 0
  <2>1. s.state = "ID"
    <3>1. 0 # 1 /\ ~(0 - 2 \in 0 .. n - 1) /\ ~(0 - 2 - n \in 0 .. 3) /\ 0 # n + 6
      BY <1>1
    <3> QED BY <1>3, <3>1, SMTT(60) DEF MnKnows
  <2>2. MnTold(f, 1, x, s.queue, s.lost, Mn!Field(s, f.id))
    BY <2>1, MnIdTold
  <2>3. k + 1 = 1
    BY <1>3
  <2> QED BY <1>2, <2>2, <2>3 DEF raw
<1>4. CASE k = 1
  <2>1. MnTold(f, 2, x, s.queue, s.lost, Mn!Field(s, n))
    BY <1>4, MnLengthTold
  <2>2. k + 1 = 2
    BY <1>4
  <2> QED BY <1>2, <2>1, <2>2 DEF raw
<1>5. CASE k - 2 \in 0 .. n - 1
  <2>1. MnTold(f, k + 1, x, s.queue, s.lost, Mn!Field(s, f.b[k - 2 + 1]))
    BY <1>1, <1>5, MnPayloadTold, SMTT(60)
  <2> DEFINE i == k - 2 + 1
  <2>2. i \in 1 .. n /\ k + 1 = i + 2
    BY <1>1, <1>5
  <2>3. raw[k + 1] = f.b[i]
    BY <1>2, <2>2
  <2> QED BY <2>1, <2>3, SMTT(60) DEF raw
<1>6. CASE k - 2 - n \in 0 .. 3
  <2>1. MnTold(f, k + 1, x, s.queue, s.lost, Mn!Field(s, nSums[Mn!Body(f)][k - 2 - n + 1]))
    BY <1>1, <1>6, MnSumTold
  <2> DEFINE i == k - 2 - n + 1
  <2>2. i \in 1 .. 4 /\ k + 1 = i + 2 + n
    BY <1>1, <1>6
  <2> DEFINE z == nSums[Mn!Body(f)]
  <2> HIDE DEF i, n, z
  <2>3. raw[k + 1] = z[i]
    <3>1. raw[i + 2 + n] = z[i]
      BY <1>2, <2>2 DEF z
    <3> QED BY <2>2, <3>1
  <2> QED BY <2>1, <2>3 DEF raw, i, n, z
<1> QED BY <1>1, <1>3, <1>4, <1>5, <1>6

\* In has read the stream up to place g.
MnReads(list, g, s) ==
  /\ g \in MnPlace /\ s.header_seen = g[3] /\ g[1] \in 1 .. Len(list) + 1
  /\ g[2] < 3 => s.state = "SOF" /\ g[3] = g[2]
  /\ g[2] >= 3 => g[1] \in 1 .. Len(list) /\ MnKnows(list[g[1]], g[2] - 3, s)

\* So many frames have come up to there.
MnCame(list, g) == IF g[2] >= 3 /\ g[2] = Len(list[g[1]].b) + 9 THEN g[1] ELSE g[1] - 1

\* What a byte on the way to place h makes of In.
MnHeard(list, g, h, queue, lost, s) ==
  /\ MnFine(s) /\ MnReads(list, h, s)
  /\ \/ MnCame(list, h) = MnCame(list, g) /\ s.queue = queue /\ s.lost = lost
     \/ MnCame(list, h) = MnCame(list, g) + 1 /\ h[1] = MnCame(list, h) /\ MnTaken(list[h[1]], queue, lost, s)

\* In follows the stream.
LEMMA MnByteRead ==
  ASSUME nSums \in MnSumsOf, NEW list \in Seq(Mn!Frames), NEW g, NEW s, MnFine(s), MnReads(list, g, s),
         NEW y, NEW h, MnFollows(nSums, list, g, y, h)
  PROVE  MnHeard(list, g, h, s.queue, s.lost, Mn!byte(s, y))
<1> DEFINE f == list[g[1]]
           n == Len(f.b)
           x == s.header_seen
           k == g[2] - 3
           t == Mn!byte(s, y)
<1>1. g \in MnPlace /\ h \in MnPlace /\ y \in MnByte /\ g[1] \in 1 .. Len(list) /\ x = g[3] /\ Len(list) \in Nat
  BY DEF MnFollows, MnReads
<1>2. f \in Mn!Frames /\ g[1] \in Nat /\ g[2] \in Nat /\ g[3] \in 0 .. 2 /\ h[3] \in 0 .. 2
  BY <1>1, SMTT(60) DEF MnPlace
<1>3. n \in 0 .. 255
  <2> HIDE DEF f
  <2> QED BY <1>2, MnFrame
<1>4. s = MnMake(s.state, x, s.id, s.b, s.frame_length, s.crc, s.sum, s.queue, s.lost) /\ s \in MnRec
  <2>1. s \in MnRec
    BY DEF MnFine
  <2> QED BY <2>1, MnFields
<1> DEFINE made(st, z) == MnMake(st, z, s.id, s.b, s.frame_length, s.crc, s.sum, s.queue, s.lost)
<1>5. ASSUME NEW st \in MnStates, NEW z \in 0 .. 2
      PROVE  /\ MnFine(made(st, z)) /\ made(st, z).state = st /\ made(st, z).header_seen = z
             /\ made(st, z).queue = s.queue /\ made(st, z).lost = s.lost
             /\ \A j : j = 0 /\ st = "ID" => MnKnows(f, j, made(st, z))
             /\ \A j : st = s.state /\ MnKnows(f, j, s) => MnKnows(f, j, made(st, z))
  <2> DEFINE u == made(st, z)
  <2>1. /\ u.state = st /\ u.header_seen = z /\ u.id = s.id /\ u.b = s.b /\ u.frame_length = s.frame_length
        /\ u.crc = s.crc /\ u.sum = s.sum /\ u.queue = s.queue /\ u.lost = s.lost
    BY MnMade
  <2>2. u \in MnRec
    <3>1. /\ s.id \in 0 .. 63 /\ s.b \in MnBytes /\ s.frame_length \in 0 .. 255 /\ s.crc \in MnBytes
          /\ s.sum \in MnBytes /\ s.queue \in Seq(Mn!Frames) /\ s.lost \in Nat
      <4>1. s \in MnRec
        BY <1>4
      <4> QED BY <4>1, MnFields
    <3> QED BY <1>5, <3>1 DEF MnRec, MnMake
  <2> HIDE DEF u, f
  <2>3. MnFine(u)
    <3>1. u.ok
      BY <2>2 DEF MnRec
    <3> QED BY <2>1, <2>2, <3>1 DEF MnFine
  <2>4. \A j : j = 0 /\ st = "ID" => MnKnows(f, j, u)
    BY <2>1 DEF MnKnows
  <2>5. \A j : st = s.state /\ MnKnows(f, j, s) => MnKnows(f, j, u)
    BY <2>1 DEF MnKnows
  <2> QED BY <2>1, <2>3, <2>4, <2>5 DEF u
<1> HIDE DEF made
<1>6. CASE g[2] < 3 /\ y = 170 /\ h = <<g[1], g[2] + 1, IF g[2] = 2 THEN 0 ELSE g[2] + 1>>
  <2>1. s.state = "SOF" /\ g[3] = g[2] /\ x = g[2] /\ "SOF" \in MnStates /\ "ID" \in MnStates
    BY <1>1, <1>6 DEF MnReads, MnStates
  <2>2. MnCame(list, g) = g[1] - 1
    BY <1>2, <1>6 DEF MnCame
  <2>3. CASE g[2] = 2
    <3>1. h = <<g[1], 3, 0>>
      BY <1>6, <2>3
    <3>2. t = made("ID", 0)
      BY <1>4, <1>6, <2>1, <2>3, MnMakes DEF made
    <3>3. MnCame(list, h) = g[1] - 1
      <4>1. h[1] = g[1] /\ h[2] = 3
        BY <3>1
      <4> HIDE DEF n
      <4>2. 3 # n + 9
        BY <1>3
      <4> QED BY <4>1, <4>2 DEF MnCame, n
    <3>4. MnReads(list, h, t)
      <4>1. h[1] = g[1] /\ h[2] = 3 /\ h[3] = 0 /\ h[2] - 3 = 0
        BY <3>1
      <4>2. MnKnows(f, 0, t) /\ t.header_seen = 0
        BY <1>5, <2>1, <3>2
      <4>3. g[1] \in 1 .. Len(list) + 1
        BY <1>1
      <4> QED BY <1>1, <4>1, <4>2, <4>3 DEF MnReads
    <3>5. MnFine(t) /\ t.queue = s.queue /\ t.lost = s.lost
      BY <1>5, <2>1, <3>2
    <3> QED BY <2>2, <3>3, <3>4, <3>5 DEF MnHeard
  <2>4. CASE g[2] # 2
    <3> DEFINE z == g[2] + 1
    <3>1. h = <<g[1], z, z>> /\ x # 2 /\ z \in 0 .. 2 /\ z = x + 1
      BY <1>2, <1>6, <2>1, <2>4
    <3> HIDE DEF z
    <3>2. t = made("SOF", z)
      <4>1. t = Mn!Field(made("SOF", IF y = 170 THEN x + 1 ELSE 0), y)
        BY <1>4, <2>1, <3>1, MnMakes DEF made
      <4>2. t = Mn!Field(made("SOF", z), y)
        BY <1>6, <3>1, <4>1
      <4> QED BY <4>2, MnFieldSof DEF made
    <3>3. h[1] = g[1] /\ h[2] = z /\ h[3] = z
      BY <3>1
    <3>4. MnCame(list, h) = g[1] - 1
      BY <3>1, <3>3 DEF MnCame
    <3>5. MnFine(t) /\ t.queue = s.queue /\ t.lost = s.lost /\ t.state = "SOF" /\ t.header_seen = z
      BY <1>5, <2>1, <3>1, <3>2
    <3>6. MnReads(list, h, t)
      <4>1. g[1] \in 1 .. Len(list) + 1 /\ ~(z >= 3)
        BY <1>1, <3>1
      <4> QED BY <1>1, <3>3, <3>5, <4>1 DEF MnReads
    <3> QED BY <2>2, <3>4, <3>5, <3>6 DEF MnHeard
  <2> QED BY <2>3, <2>4
<1>7. CASE g[2] >= 3 /\ g[3] = 2 /\ y = 85 /\ h = <<g[1], g[2], 0>>
  <2>1. t = made(s.state, 0)
    BY <1>1, <1>4, <1>7, MnMakes DEF made
  <2>2. h[1] = g[1] /\ h[2] = g[2] /\ h[3] = 0 /\ s.state \in MnStates
    <3>1. s.state \in MnStates
      BY <1>4, MnFields
    <3> QED BY <1>7, <3>1
  <2>3. MnFine(t) /\ t.queue = s.queue /\ t.lost = s.lost /\ t.header_seen = 0
    BY <1>5, <2>1, <2>2
  <2>4. MnKnows(f, k, t)
    <3>1. MnKnows(f, k, s)
      BY <1>7 DEF MnReads
    <3> HIDE DEF f, k
    <3> QED BY <1>5, <2>1, <2>2, <3>1
  <2>5. MnReads(list, h, t)
    <3>1. g[1] \in 1 .. Len(list) + 1 /\ ~(g[2] < 3)
      BY <1>1, <1>2, <1>7
    <3> QED BY <1>1, <2>2, <2>3, <2>4, <3>1 DEF MnReads
  <2>6. MnCame(list, h) = MnCame(list, g)
    BY <2>2 DEF MnCame
  <2> QED BY <2>3, <2>5, <2>6 DEF MnHeard
<1>8. CASE /\ g[2] >= 3 /\ g[2] < n + 9 /\ g[3] # 2 /\ y = MnRaw(nSums, f)[g[2] - 2]
           /\ h = <<g[1], g[2] + 1, IF y = 170 THEN g[3] + 1 ELSE 0>>
  <2> DEFINE z == IF y = 170 THEN g[3] + 1 ELSE 0
             u == made(s.state, z)
  <2>1. h[1] = g[1] /\ h[2] = g[2] + 1 /\ h[3] = z /\ z \in 0 .. 2 /\ s.state \in MnStates
    <3>1. s.state \in MnStates
      BY <1>4, MnFields
    <3>2. z \in 0 .. 2
      BY <1>2, <1>8
    <3> QED BY <1>8, <3>1, <3>2
  <2>2. t = Mn!Field(u, y)
    BY <1>1, <1>4, <1>8, MnMakes DEF made
  <2>3. k \in 0 .. n + 5 /\ k + 1 = g[2] - 2 /\ g[2] + 1 - 3 = k + 1 /\ (k + 1 = n + 6 <=> g[2] + 1 = n + 9) /\ g[2] # n + 9
    <3>1. g[2] >= 3 /\ g[2] < n + 9
      BY <1>8
    <3> HIDE DEF n
    <3> QED BY <1>2, <1>3, <3>1, SMTT(60)
  <2>4. MnKnows(f, k, s)
    BY <1>8 DEF MnReads
  <2> HIDE DEF z
  <2>5. MnFine(u) /\ u.header_seen = z /\ u.queue = s.queue /\ u.lost = s.lost
    BY <1>5, <2>1
  <2>6. MnKnows(f, k, u)
    <3> HIDE DEF f, k
    <3> QED BY <1>5, <2>1, <2>4
  <2> HIDE DEF u
  <2>7. MnTold(f, k + 1, z, s.queue, s.lost, t)
    <3> HIDE DEF f, k
    <3>1. MnTold(f, k + 1, z, u.queue, u.lost, Mn!Field(u, MnRaw(nSums, f)[k + 1]))
      BY <1>2, <2>3, <2>5, <2>6, MnRawTold DEF n
    <3>2. y = MnRaw(nSums, f)[k + 1]
      BY <1>8, <2>3
    <3> HIDE DEF t
    <3> QED BY <2>2, <2>5, <3>1, <3>2
  <2>8. MnFine(t) /\ t.header_seen = z /\ MnKnows(f, k + 1, t)
    BY <2>7 DEF MnTold
  <2> HIDE DEF t
  <2>9. MnReads(list, h, t)
    <3>1. g[1] \in 1 .. Len(list) + 1 /\ ~(g[2] + 1 < 3)
      BY <1>1, <1>2, <1>8
    <3>2. h[2] - 3 = k + 1
      <4>1. g[2] \in Nat /\ h[2] = g[2] + 1
        BY <1>2, <2>1
      <4> DEFINE a == g[2]
      <4> HIDE DEF a
      <4>2. h[2] = a + 1 /\ a \in Nat
        BY <4>1 DEF a
      <4>3. h[2] - 3 = (a - 3) + 1
        BY <4>2
      <4> QED BY <4>3 DEF a
    <3> HIDE DEF n
    <3> QED BY <1>1, <2>1, <2>8, <3>1, <3>2 DEF MnReads
  <2>10. MnCame(list, g) = g[1] - 1
    BY <2>3 DEF MnCame
  <2>11. CASE k + 1 = n + 6
    <3>1. MnTaken(f, s.queue, s.lost, t)
      BY <2>7, <2>11 DEF MnTold
    <3>2. MnCame(list, h) = g[1]
      <4>1. g[2] + 1 = n + 9 /\ g[2] + 1 >= 3
        BY <1>2, <1>8, <2>3, <2>11
      <4> QED BY <2>1, <4>1 DEF MnCame
    <3>3. MnCame(list, h) = MnCame(list, g) + 1 /\ h[1] = MnCame(list, h) /\ list[h[1]] = f
      BY <1>2, <2>1, <2>10, <3>2
    <3>4. MnFine(t)
      BY <2>8
    <3> HIDE DEF f
    <3>5. MnTaken(list[h[1]], s.queue, s.lost, t)
      BY <3>1, <3>3
    <3> QED BY <2>9, <3>3, <3>4, <3>5 DEF MnHeard, t
  <2>12. CASE k + 1 # n + 6
    <3>1. t.queue = s.queue /\ t.lost = s.lost
      BY <2>7, <2>12 DEF MnTold
    <3>2. MnCame(list, h) = g[1] - 1
      <4>1. g[2] + 1 # n + 9
        BY <2>3, <2>12
      <4> QED BY <2>1, <4>1 DEF MnCame
    <3>3. MnCame(list, h) = MnCame(list, g)
      BY <2>10, <3>2
    <3>4. MnFine(t)
      BY <2>8
    <3> QED BY <2>9, <3>1, <3>3, <3>4 DEF MnHeard, t
  <2> QED BY <2>11, <2>12
<1>9. CASE g[2] = n + 9 /\ g[3] # 2 /\ y = 85 /\ h = <<g[1] + 1, 0, 0>>
  <2>1. g[2] >= 3 /\ g[2] - 3 = n + 6
    <3>1. g[2] \in Nat /\ g[2] = n + 9 /\ n \in 0 .. 255
      BY <1>2, <1>3, <1>9
    <3> HIDE DEF n
    <3> QED BY <3>1, SMTT(60)
  <2>2. s.state = "SOF" /\ "SOF" \in MnStates
    <3>1. MnKnows(f, n + 6, s)
      BY <2>1 DEF MnReads
    <3>2. n + 6 # 0 /\ n + 6 # 1 /\ ~(n + 6 - 2 \in 0 .. n - 1) /\ ~(n + 6 - 2 - n \in 0 .. 3)
      <4> HIDE DEF n
      <4> QED BY <1>3
    <3> QED BY <3>1, <3>2 DEF MnKnows, MnStates
  <2>3. t = made("SOF", 0)
    <3>1. t = Mn!Field(made("SOF", IF y = 170 THEN x + 1 ELSE 0), y)
      BY <1>1, <1>4, <1>9, <2>2, MnMakes DEF made
    <3>2. t = Mn!Field(made("SOF", 0), y)
      BY <1>9, <3>1
    <3> QED BY <3>2, MnFieldSof DEF made
  <2>4. MnFine(t) /\ t.queue = s.queue /\ t.lost = s.lost /\ t.state = "SOF" /\ t.header_seen = 0
    BY <1>5, <2>2, <2>3
  <2>5. h[1] = g[1] + 1 /\ h[2] = 0 /\ h[3] = 0 /\ g[1] + 1 \in 1 .. Len(list) + 1
    BY <1>1, <1>9
  <2>6. MnReads(list, h, t)
    BY <1>1, <2>4, <2>5 DEF MnReads
  <2>7. MnCame(list, g) = g[1]
    BY <1>9, <2>1 DEF MnCame
  <2>8. MnCame(list, h) = g[1]
    <3>1. h[1] - 1 = g[1] /\ ~(h[2] >= 3)
      BY <1>2, <2>5
    <3> QED BY <3>1 DEF MnCame
  <2> QED BY <2>4, <2>6, <2>7, <2>8 DEF MnHeard
<1>10. \/ g[2] < 3 /\ y = 170 /\ h = <<g[1], g[2] + 1, IF g[2] = 2 THEN 0 ELSE g[2] + 1>>
       \/ g[2] >= 3 /\ g[3] = 2 /\ y = 85 /\ h = <<g[1], g[2], 0>>
       \/ /\ g[2] >= 3 /\ g[2] < n + 9 /\ g[3] # 2 /\ y = MnRaw(nSums, f)[g[2] - 2]
          /\ h = <<g[1], g[2] + 1, IF y = 170 THEN g[3] + 1 ELSE 0>>
       \/ g[2] = n + 9 /\ g[3] # 2 /\ y = 85 /\ h = <<g[1] + 1, 0, 0>>
  BY Zenon DEF MnFollows
<1> QED BY <1>6, <1>7, <1>8, <1>9, <1>10

\* Of the first d frames of list those have arrived, in order, and the others
\* are lost.
MnDone(list, d, frames, lost) ==
  /\ d \in 0 .. Len(list) /\ frames \in Seq(Mn!Frames) /\ lost \in Nat /\ Len(frames) + lost = d
  /\ \E at \in [1 .. Len(frames) -> 1 .. d] :
       /\ \A i, j \in 1 .. Len(frames) : i < j => at[i] < at[j]
       /\ \A i \in 1 .. Len(frames) : frames[i] = list[at[i]]

LEMMA MnDoneNext ==
  ASSUME NEW list \in Seq(Mn!Frames), NEW d, NEW frames, NEW lost, MnDone(list, d, frames, lost), d + 1 \in 1 .. Len(list)
  PROVE  /\ MnDone(list, d + 1, Append(frames, list[d + 1]), lost)
         /\ MnDone(list, d + 1, frames, lost + 1)
<1> DEFINE f == list[d + 1]
           n == Len(frames)
           more == Append(frames, f)
           e == d + 1
<1>1. /\ d \in 0 .. Len(list) /\ frames \in Seq(Mn!Frames) /\ lost \in Nat /\ n + lost = d /\ n \in Nat
      /\ Len(list) \in Nat /\ d \in Nat
  BY DEF MnDone
<1>2. PICK at \in [1 .. n -> 1 .. d] : /\ \A i, j \in 1 .. n : i < j => at[i] < at[j]
                                       /\ \A i \in 1 .. n : frames[i] = list[at[i]]
  BY DEF MnDone
<1>3. f \in Mn!Frames
  OBVIOUS
<1>4. more \in Seq(Mn!Frames) /\ Len(more) = n + 1 /\ more[n + 1] = f /\ \A i \in 1 .. n : more[i] = frames[i]
  <2>1. frames \in Seq(Mn!Frames)
    BY <1>1
  <2> HIDE DEF f
  <2> QED BY <1>3, <2>1, AppendProperties
<1>5. e \in 0 .. Len(list) /\ e \in Nat /\ e = d + 1 /\ n + 1 + lost = e /\ n + (lost + 1) = e /\ lost + 1 \in Nat
  BY <1>1
<1> DEFINE to == [i \in 1 .. n + 1 |-> IF i <= n THEN at[i] ELSE e]
           c == n + 1
<1>6. \A i \in 1 .. n : to[i] = at[i] /\ at[i] \in 1 .. d /\ at[i] < e /\ at[i] \in 1 .. e
  <2> SUFFICES ASSUME NEW i \in 1 .. n PROVE to[i] = at[i] /\ at[i] \in 1 .. d /\ at[i] < e /\ at[i] \in 1 .. e
    OBVIOUS
  <2>1. i \in 1 .. n + 1 /\ i <= n /\ at[i] \in 1 .. d
    BY <1>1, SMTT(60)
  <2> QED BY <1>1, <2>1
<1>7. to[n + 1] = e
  BY <1>1
<1>8. \A i \in 1 .. n + 1 : i \in 1 .. n \/ i = n + 1
  BY <1>1
<1>9. to \in [1 .. n + 1 -> 1 .. e]
  <2>1. \A i \in 1 .. n + 1 : to[i] \in 1 .. e
    <3> SUFFICES ASSUME NEW i \in 1 .. n + 1 PROVE to[i] \in 1 .. e
      OBVIOUS
    <3>1. e \in 1 .. e
      BY <1>1
    <3> HIDE DEF to, e
    <3> QED BY <1>6, <1>7, <1>8, <3>1
  <2> QED BY <2>1
<1> HIDE DEF f, n, more, e, to
<1>10. \A i, j \in 1 .. n + 1 : i < j => to[i] < to[j]
  <2> SUFFICES ASSUME NEW i \in 1 .. n + 1, NEW j \in 1 .. n + 1, i < j PROVE to[i] < to[j]
    OBVIOUS
  <2>1. i \in 1 .. n
    BY <1>1
  <2>2. CASE j \in 1 .. n
    BY <1>2, <1>6, <2>1, <2>2
  <2>3. CASE j = n + 1
    BY <1>6, <1>7, <2>1, <2>3
  <2> QED BY <1>8, <2>2, <2>3
<1>11. \A i \in 1 .. n + 1 : more[i] = list[to[i]]
  <2> SUFFICES ASSUME NEW i \in 1 .. n + 1 PROVE more[i] = list[to[i]]
    OBVIOUS
  <2>1. f = list[e]
    BY DEF f, e
  <2> QED BY <1>2, <1>4, <1>6, <1>7, <1>8, <2>1
<1>12. MnDone(list, e, more, lost)
  <2>1. to \in [1 .. Len(more) -> 1 .. e]
    BY <1>4, <1>9
  <2>2. \A i, j \in 1 .. Len(more) : i < j => to[i] < to[j]
    BY <1>4, <1>10
  <2>3. \A i \in 1 .. Len(more) : more[i] = list[to[i]]
    BY <1>4, <1>11
  <2>4. Len(more) + lost = e
    BY <1>4, <1>5
  <2> QED BY <1>1, <1>4, <1>5, <2>1, <2>2, <2>3, <2>4 DEF MnDone
<1>13. MnDone(list, e, frames, lost + 1)
  <2>1. at \in [1 .. n -> 1 .. e]
    <3>1. \A i \in 1 .. n : at[i] \in 1 .. e
      BY <1>6
    <3> QED BY <1>2, <3>1
  <2>2. at \in [1 .. Len(frames) -> 1 .. e]
    BY <2>1 DEF n
  <2>3. /\ \A i, j \in 1 .. Len(frames) : i < j => at[i] < at[j]
        /\ \A i \in 1 .. Len(frames) : frames[i] = list[at[i]]
    BY <1>2 DEF n
  <2>4. Len(frames) + (lost + 1) = e
    BY <1>5 DEF n
  <2> QED BY <1>1, <1>5, <2>2, <2>3, <2>4 DEF MnDone
<1> QED BY <1>12, <1>13 DEF more, e, f

\* More frames change nothing for the first ones.
LEMMA MnDoneOn ==
  ASSUME NEW list \in Seq(Mn!Frames), NEW f \in Mn!Frames, NEW d, NEW frames, NEW lost, MnDone(list, d, frames, lost)
  PROVE  MnDone(Append(list, f), d, frames, lost)
<1> DEFINE new == Append(list, f)
           n == Len(frames)
<1>1. Len(new) = Len(list) + 1 /\ Len(list) \in Nat /\ \A k \in 1 .. Len(list) : new[k] = list[k]
  BY AppendProperties
<1> HIDE DEF new
<1>2. PICK at \in [1 .. n -> 1 .. d] : /\ \A i, j \in 1 .. n : i < j => at[i] < at[j]
                                       /\ \A i \in 1 .. n : frames[i] = list[at[i]]
  BY DEF MnDone
<1>3. d \in 0 .. Len(list) /\ d \in 0 .. Len(new) /\ frames \in Seq(Mn!Frames) /\ lost \in Nat /\ n + lost = d
  <2>1. d \in 0 .. Len(list) /\ frames \in Seq(Mn!Frames) /\ lost \in Nat /\ n + lost = d
    BY DEF MnDone
  <2> HIDE DEF n
  <2> QED BY <1>1, <2>1
<1>4. \A i \in 1 .. n : frames[i] = new[at[i]]
  <2> SUFFICES ASSUME NEW i \in 1 .. n PROVE frames[i] = new[at[i]]
    OBVIOUS
  <2>1. at[i] \in 1 .. d
    OBVIOUS
  <2>2. at[i] \in 1 .. Len(list)
    BY <1>1, <1>3, <2>1
  <2> QED BY <1>1, <1>2, <2>2
<1> QED BY <1>2, <1>3, <1>4 DEF MnDone, new

LEMMA MnReadsOn ==
  ASSUME NEW list \in Seq(Mn!Frames), NEW f \in Mn!Frames, NEW g, NEW s, MnReads(list, g, s)
  PROVE  /\ MnReads(Append(list, f), g, s) /\ MnCame(Append(list, f), g) = MnCame(list, g)
         /\ MnCame(list, g) \in 0 .. Len(list)
         /\ g[1] <= Len(list) => MnCame(list, g) \in {g[1] - 1, g[1]}
<1> DEFINE new == Append(list, f)
<1>1. Len(new) = Len(list) + 1 /\ Len(list) \in Nat /\ \A k \in 1 .. Len(list) : new[k] = list[k]
  BY AppendProperties
<1> HIDE DEF new
<1>2. g[1] \in 1 .. Len(list) + 1 /\ (g[2] >= 3 => g[1] \in 1 .. Len(list)) /\ g \in MnPlace /\ g[2] \in Nat
  BY DEF MnReads, MnPlace
<1>3. g[1] \in 1 .. Len(new) + 1 /\ (g[2] >= 3 => g[1] \in 1 .. Len(new) /\ new[g[1]] = list[g[1]])
  BY <1>1, <1>2
<1>4. MnReads(new, g, s)
  BY <1>3 DEF MnReads
<1>5. MnCame(new, g) = MnCame(list, g)
  BY <1>3 DEF MnCame
<1>6. MnCame(list, g) \in 0 .. Len(list) /\ (g[1] <= Len(list) => MnCame(list, g) \in {g[1] - 1, g[1]})
  BY <1>1, <1>2 DEF MnCame
<1> QED BY <1>4, <1>5, <1>6 DEF new

LEMMA MnCameIn ==
  ASSUME NEW list \in Seq(Mn!Frames), NEW g, NEW s, MnReads(list, g, s)
  PROVE  MnCame(list, g) \in 0 .. Len(list)
<1>1. Len(list) \in Nat
  OBVIOUS
<1>2. g[1] \in 1 .. Len(list) + 1 /\ (g[2] >= 3 => g[1] \in 1 .. Len(list))
  BY DEF MnReads
<1> QED BY <1>1, <1>2 DEF MnCame

\* In has read up to place g, and of the frames up to there those are in
\* `got` and its queue that are not lost.
MnHas(list, g, got, base, s) ==
  /\ MnFine(s) /\ MnReads(list, g, s)
  /\ MnDone(list, MnCame(list, g), got \o s.queue, base + s.lost)

LEMMA MnByteHas ==
  ASSUME nSums \in MnSumsOf, NEW list \in Seq(Mn!Frames), NEW got \in Seq(Mn!Frames), NEW base \in Nat,
         NEW g, NEW s, MnHas(list, g, got, base, s), NEW y, NEW h, MnFollows(nSums, list, g, y, h)
  PROVE  MnHas(list, h, got, base, Mn!byte(s, y))
<1> DEFINE t == Mn!byte(s, y)
           queue == s.queue
           lost == s.lost
           d == MnCame(list, g)
<1>1. MnFine(s) /\ MnReads(list, g, s) /\ MnDone(list, d, got \o queue, base + lost)
  BY DEF MnHas
<1>2. MnHeard(list, g, h, queue, lost, t)
  BY <1>1, MnByteRead
<1>3. queue \in Seq(Mn!Frames) /\ lost \in Nat
  <2>1. s \in MnRec
    BY <1>1 DEF MnFine
  <2> QED BY <2>1, MnFields
<1>4. d \in 0 .. Len(list) /\ Len(list) \in Nat
  BY <1>1, MnCameIn
<1> HIDE DEF t, queue, lost, d
<1>5. MnFine(t) /\ MnReads(list, h, t)
  BY <1>2 DEF MnHeard
<1>6. MnCame(list, h) \in 0 .. Len(list)
  BY <1>5, MnCameIn
<1>7. CASE MnCame(list, h) = d /\ t.queue = queue /\ t.lost = lost
  BY <1>1, <1>5, <1>7 DEF MnHas, t
<1>8. CASE MnCame(list, h) = d + 1 /\ h[1] = MnCame(list, h) /\ MnTaken(list[h[1]], queue, lost, t)
  <2> DEFINE f == list[d + 1]
             all == got \o queue
             gone == base + lost
  <2>1. d + 1 \in 1 .. Len(list) /\ h[1] = d + 1
    BY <1>4, <1>6, <1>8
  <2>2. f \in Mn!Frames
    BY <2>1
  <2>3. MnTaken(f, queue, lost, t)
    BY <1>8
  <2>4. /\ MnDone(list, d + 1, Append(all, f), gone)
        /\ MnDone(list, d + 1, all, gone + 1)
    BY <1>1, <2>1, MnDoneNext
  <2> HIDE DEF f
  <2>5. Append(all, f) = got \o Append(queue, f)
    <3>1. <<f>> \in Seq(Mn!Frames) /\ all \in Seq(Mn!Frames)
      BY <1>3, <2>2, ConcatProperties
    <3>2. Append(all, f) = all \o <<f>> /\ Append(queue, f) = queue \o <<f>>
      BY <1>3, <2>2, <3>1, AppendIsConcat
    <3>3. (got \o queue) \o <<f>> = got \o (queue \o <<f>>)
      BY <1>3, <3>1, ConcatAssociative, SMTT(60)
    <3> QED BY <3>2, <3>3
  <2>6. CASE t.queue = Append(queue, f) /\ t.lost = lost
    <3>1. MnDone(list, MnCame(list, h), got \o t.queue, base + t.lost)
      BY <1>8, <2>4, <2>5, <2>6
    <3> QED BY <1>5, <3>1 DEF MnHas, t
  <2>7. CASE t.queue = queue /\ t.lost = lost + 1
    <3>1. gone + 1 = base + (lost + 1)
      BY <1>3
    <3>2. MnDone(list, MnCame(list, h), got \o t.queue, base + t.lost)
      BY <1>8, <2>4, <2>7, <3>1
    <3> QED BY <1>5, <3>2 DEF MnHas, t
  <2> QED BY <2>3, <2>6, <2>7 DEF MnTaken
<1> QED BY <1>2, <1>7, <1>8 DEF MnHeard, d

\* A buffer of bytes.
LEMMA MnConsumed ==
  ASSUME nSums \in MnSumsOf, NEW list \in Seq(Mn!Frames), NEW got \in Seq(Mn!Frames), NEW base \in Nat,
         NEW g, NEW s, MnHas(list, g, got, base, s), NEW bytes, NEW h, MnLeads(nSums, list, g, bytes, h)
  PROVE  MnHas(list, h, got, base, Mn!Consumed(s, bytes))
<1> DEFINE L == Len(bytes)
           F(f) == f = [n \in 0 .. L |-> IF n = 0 THEN s ELSE Mn!byte(f[n - 1], bytes[n])]
           u == CHOOSE f : F(f)
           t == Mn!Consumed(s, bytes)
           step == [n \in 1 .. L |-> [x \in MnRec |-> IF Mn!byte(x, bytes[n]) \in MnRec THEN Mn!byte(x, bytes[n]) ELSE x]]
<1>1. PICK w : MnThrough(nSums, list, g, bytes, h, w)
  BY DEF MnLeads
<1>2. /\ bytes \in MnBytes /\ w[0] = g /\ w[L] = h
      /\ \A i \in 1 .. L : MnFollows(nSums, list, w[i - 1], bytes[i], w[i])
  BY <1>1 DEF MnThrough
<1>3. L \in Nat
  BY <1>2 DEF MnBytes
<1>4. s \in MnRec
  BY DEF MnHas, MnFine
<1>5. t = u[L]
  BY Zenon DEF Mn!Consumed
<1>6. Steps(L, MnRec, step)
  BY DEF Steps
<1>7. \A n \in 1 .. L, x \in MnRec : Mn!byte(x, bytes[n]) \in MnRec => step[n][x] = Mn!byte(x, bytes[n])
  OBVIOUS
<1> HIDE DEF step, L, t
<1>8. PICK v : Walk(L, MnRec, s, step, v)
  BY <1>3, <1>4, <1>6, StepsTaken
<1>9. v \in [0 .. L -> MnRec] /\ v[0] = s /\ \A i \in 1 .. L : v[i] = step[i][v[i - 1]]
  BY <1>8 DEF Walk
<1>10. ASSUME NEW n \in 1 .. L, MnHas(list, w[n - 1], got, base, v[n - 1])
       PROVE  v[n] = Mn!byte(v[n - 1], bytes[n]) /\ MnHas(list, w[n], got, base, v[n])
  <2> DEFINE x == v[n - 1]
             y == bytes[n]
  <2>1. MnHas(list, w[n], got, base, Mn!byte(x, y))
    <3>1. MnFollows(nSums, list, w[n - 1], y, w[n])
      BY <1>2
    <3> HIDE DEF x, y
    <3>2. MnHas(list, w[n - 1], got, base, x)
      BY <1>10 DEF x
    <3> QED BY <3>1, <3>2, MnByteHas
  <2>2. Mn!byte(x, y) \in MnRec
    BY <2>1 DEF MnHas, MnFine
  <2>3. x \in MnRec
    <3>1. n - 1 \in 0 .. L
      BY <1>3
    <3> QED BY <1>9, <3>1
  <2>4. v[n] = Mn!byte(x, y)
    <3>1. v[n] = step[n][x]
      BY <1>9
    <3> HIDE DEF x
    <3> QED BY <1>7, <2>2, <2>3, <3>1
  <2> QED BY <2>1, <2>4
<1>11. \A n \in 0 .. L : MnHas(list, w[n], got, base, v[n])
  <2> DEFINE T == {n \in 0 .. L : MnHas(list, w[n], got, base, v[n])}
  <2>1. 0 \in T
    BY <1>2, <1>3, <1>9
  <2>2. ASSUME NEW n \in 1 .. L, n - 1 \in T PROVE n \in T
    <3>1. n \in 0 .. L /\ MnHas(list, w[n - 1], got, base, v[n - 1])
      BY <1>3, <2>2
    <3> QED BY <1>10, <3>1
  <2> HIDE DEF T
  <2>3. \A n \in 0 .. L : n \in T
    BY <1>3, <2>1, <2>2, UpTo
  <2> QED BY <2>3 DEF T
<1>12. \A n \in 0 .. L : v[n] = IF n = 0 THEN s ELSE Mn!byte(v[n - 1], bytes[n])
  <2> SUFFICES ASSUME NEW n \in 0 .. L PROVE v[n] = IF n = 0 THEN s ELSE Mn!byte(v[n - 1], bytes[n])
    OBVIOUS
  <2>1. CASE n = 0
    BY <1>9, <2>1
  <2>2. CASE n # 0
    <3>1. n \in 1 .. L /\ n - 1 \in 0 .. L
      BY <1>3, <2>2
    <3> QED BY <1>10, <1>11, <2>2, <3>1
  <2> QED BY <2>1, <2>2
<1>13. F(v)
  <2>1. v = [n \in 0 .. L |-> v[n]]
    BY <1>9
  <2> QED BY <1>12, <2>1, Zenon
<1>14. F(u)
  <2> HIDE DEF F
  <2> QED BY <1>13
<1> HIDE DEF u
<1>15. \A n \in 0 .. L : u[n] = IF n = 0 THEN s ELSE Mn!byte(u[n - 1], bytes[n])
  <2>1. u = [n \in 0 .. L |-> IF n = 0 THEN s ELSE Mn!byte(u[n - 1], bytes[n])]
    BY <1>14
  <2> SUFFICES ASSUME NEW n \in 0 .. L PROVE u[n] = IF n = 0 THEN s ELSE Mn!byte(u[n - 1], bytes[n])
    OBVIOUS
  <2> QED BY <2>1, Zenon
<1>16. \A n \in 0 .. L : u[n] = v[n]
  <2> DEFINE T == {n \in 0 .. L : u[n] = v[n]}
  <2>1. 0 \in T
    <3>1. 0 \in 0 .. L
      BY <1>3
    <3> QED BY <1>9, <1>15, <3>1, Zenon
  <2>2. ASSUME NEW n \in 1 .. L, n - 1 \in T PROVE n \in T
    <3>1. n \in 0 .. L /\ n # 0 /\ u[n - 1] = v[n - 1]
      BY <1>3, <2>2
    <3>2. u[n] = Mn!byte(u[n - 1], bytes[n]) /\ v[n] = Mn!byte(v[n - 1], bytes[n])
      BY <1>12, <1>15, <3>1, Zenon
    <3> QED BY <3>1, <3>2
  <2> HIDE DEF T
  <2>3. \A n \in 0 .. L : n \in T
    BY <1>3, <2>1, <2>2, UpTo
  <2> QED BY <2>3 DEF T
<1>17. MnHas(list, h, got, base, t)
  <2>1. L \in 0 .. L
    BY <1>3
  <2> QED BY <1>2, <1>5, <1>11, <1>16, <2>1
<1> QED BY <1>17 DEF t

\* One byte more.
LEMMA MnLeadsNext ==
  ASSUME NEW c, NEW list, NEW g, NEW x, NEW h, MnLeads(c, list, g, x, h), NEW b, NEW o, MnFollows(c, list, h, b, o)
  PROVE  x \in MnBytes /\ b \in MnByte /\ Append(x, b) \in MnBytes /\ MnLeads(c, list, g, Append(x, b), o)
<1>1. x \in MnBytes /\ b \in MnByte
  BY DEF MnLeads, MnThrough, MnFollows
<1>2. MnLeads(c, list, h, <<b>>, o)
  BY MnSteps
<1>3. MnLeads(c, list, g, x \o <<b>>, o)
  BY <1>2, MnJoined
<1>4. x \in Seq(MnByte)
  BY <1>1 DEF MnBytes
<1>5. Append(x, b) = x \o <<b>> /\ Append(x, b) \in Seq(MnByte)
  BY <1>1, <1>4, AppendIsConcat, AppendProperties
<1> QED BY <1>1, <1>3, <1>5 DEF MnBytes

MnOut == [req : MnBytes, countdown : {1, 2}]

\* Out has stuffed n bytes of frame k: the countdown is what is left of the
\* two header bytes, except at the start, where it is that of the last frame.
MnGoes(list, k, n, s) ==
  /\ s \in MnOut
  /\ MnLeads(nSums, list, <<k, 0, 0>>, s.req, <<k, n + 3, IF n = 0 THEN 0 ELSE 2 - s.countdown>>)

LEMMA MnStuff ==
  ASSUME NEW s \in MnOut, NEW b \in MnByte
  PROVE  /\ Mn!stuff(s, b) \in MnOut
         /\ b # 170 => Mn!stuff(s, b).req = Append(s.req, b) /\ Mn!stuff(s, b).countdown = 2
         /\ b = 170 /\ s.countdown = 2 => Mn!stuff(s, b).req = Append(s.req, b) /\ Mn!stuff(s, b).countdown = 1
         /\ b = 170 /\ s.countdown = 1 => /\ Mn!stuff(s, b).req = Append(Append(s.req, b), 85)
                                          /\ Mn!stuff(s, b).countdown = 2
<1> DEFINE t == Mn!stuff(s, b)
           x == s.req
           o == Append(x, b)
           o2 == Append(o, 85)
           cd == s.countdown
<1>1. x \in Seq(MnByte) /\ cd \in {1, 2} /\ 85 \in MnByte
  BY DEF MnOut, MnBytes, MnByte
<1>2. o \in Seq(MnByte)
  BY <1>1, AppendProperties
<1>3. o2 \in Seq(MnByte)
  <2> HIDE DEF o
  <2> QED BY <1>1, <1>2, AppendProperties
<1>4. x \o <<b, 85>> = o2
  <2>1. <<b>> \in Seq(MnByte) /\ <<85>> \in Seq(MnByte)
    BY <1>1
  <2>2. <<b, 85>> = Append(<<b>>, 85)
    BY <1>1, MnPair
  <2>3. Append(<<b>>, 85) = <<b>> \o <<85>>
    BY <1>1, <2>1, AppendIsConcat
  <2>4. (x \o <<b>>) \o <<85>> = x \o (<<b>> \o <<85>>)
    BY <1>1, <2>1, ConcatAssociative
  <2>5. o = x \o <<b>>
    BY <1>1, AppendIsConcat
  <2> HIDE DEF o
  <2>6. o2 = o \o <<85>>
    BY <1>1, <1>2, AppendIsConcat
  <2> QED BY <2>2, <2>3, <2>4, <2>5, <2>6
<1>5. t = [req |-> IF b = 170 /\ cd = 1 THEN o2 ELSE o, countdown |-> IF b = 170 /\ cd = 2 THEN 1 ELSE 2]
  BY <1>4 DEF Mn!stuff, Mn!HEADER_BYTE, Mn!STUFF_BYTE
<1> HIDE DEF t, o, o2, cd
<1>6. t.req = (IF b = 170 /\ cd = 1 THEN o2 ELSE o) /\ t.countdown = (IF b = 170 /\ cd = 2 THEN 1 ELSE 2)
  BY <1>5
<1>7. t \in MnOut
  BY <1>2, <1>3, <1>5 DEF MnOut, MnBytes
<1> QED BY <1>1, <1>6, <1>7 DEF t, o, o2, cd

LEMMA MnStuffed ==
  ASSUME nSums \in MnSumsOf, NEW list \in Seq(Mn!Frames), NEW k \in 1 .. Len(list),
         NEW n \in 1 .. Len(list[k].b) + 6, NEW s, MnGoes(list, k, n - 1, s)
  PROVE  MnGoes(list, k, n, Mn!stuff(s, MnRaw(nSums, list[k])[n]))
<1> DEFINE f == list[k]
           m == Len(f.b)
           b == MnRaw(nSums, f)[n]
           cd == s.countdown
           x == IF n - 1 = 0 THEN 0 ELSE 2 - cd
           z == IF b = 170 THEN x + 1 ELSE 0
           g == <<k, 0, 0>>
           p == <<k, n - 1 + 3, x>>
           h == <<k, n + 3, z>>
           t == Mn!stuff(s, b)
<1>1. f \in Mn!Frames /\ k \in Nat
  BY SMTT(60)
<1>2. m \in 0 .. 255 /\ f.id \in 0 .. 63
  <2> HIDE DEF f
  <2> QED BY <1>1, MnFrame
<1>3. n \in Nat /\ n >= 1 /\ n <= m + 6
  <2>1. n \in 1 .. m + 6
    OBVIOUS
  <2> HIDE DEF m
  <2> QED BY <1>2, <2>1
<1>4. b \in MnByte /\ (n = 1 => b = f.id)
  <2>1. MnRaw(nSums, f)[1] = f.id /\ \A i \in 1 .. m + 6 : MnRaw(nSums, f)[i] \in MnByte
    <3> HIDE DEF f
    <3> QED BY <1>1, MnRawIs DEF m
  <2>2. n \in 1 .. m + 6
    OBVIOUS
  <2> QED BY <2>1, <2>2
<1>5. s \in MnOut /\ MnLeads(nSums, list, g, s.req, p) /\ cd \in {1, 2}
  BY DEF MnGoes, MnOut
<1>6. x \in {0, 1} /\ z \in 0 .. 2 /\ (b = 170 => n # 1 /\ x = 2 - cd)
  <2>1. b = 170 => n # 1
    <3> DEFINE i == f.id
    <3>1. i \in 0 .. 63 /\ (n = 1 => b = i)
      BY <1>2, <1>4
    <3> HIDE DEF i, b
    <3> QED BY <3>1, SMTT(60)
  <2> HIDE DEF b, cd
  <2> QED BY <1>3, <1>5, <2>1
<1>7. MnFollows(nSums, list, p, b, h)
  <2>1. p[1] = k /\ p[2] = n - 1 + 3 /\ p[3] = x
    OBVIOUS
  <2>2. p \in MnPlace /\ h \in MnPlace
    <3>1. n - 1 + 3 \in Nat /\ n + 3 \in Nat /\ x \in 0 .. 2
      BY <1>3, <1>6
    <3> HIDE DEF x, z
    <3> QED BY <1>1, <1>6, <3>1 DEF MnPlace
  <2>3. n - 1 + 3 >= 3 /\ n - 1 + 3 < m + 9 /\ x # 2 /\ n - 1 + 3 - 2 = n /\ n - 1 + 3 + 1 = n + 3
    <3>1. x # 2
      BY <1>6
    <3> HIDE DEF x, m
    <3> QED BY <1>2, <1>3, <3>1
  <2>4. p[2] >= 3 /\ p[2] < Len(list[p[1]].b) + 9 /\ p[3] # 2
    <3> HIDE DEF p, x
    <3> QED BY <2>1, <2>3
  <2>5. b = MnRaw(nSums, list[p[1]])[p[2] - 2]
    <3> HIDE DEF p, x
    <3> QED BY <2>1, <2>3
  <2>6. h = <<p[1], p[2] + 1, IF b = 170 THEN p[3] + 1 ELSE 0>>
    <3>1. p[2] + 1 = n + 3
      <4> HIDE DEF p
      <4> QED BY <2>1, <2>3
    <3> HIDE DEF p, x, b
    <3> QED BY <2>1, <3>1
  <2>7. p[1] \in 1 .. Len(list)
    BY <2>1
  <2> HIDE DEF p, h, b, x, z
  <2> QED BY <1>4, <2>2, <2>4, <2>5, <2>6, <2>7 DEF MnFollows
<1> HIDE DEF f, b, p, h, g, x, z
<1>8. /\ t \in MnOut
      /\ b # 170 => t.req = Append(s.req, b) /\ t.countdown = 2
      /\ b = 170 /\ cd = 2 => t.req = Append(s.req, b) /\ t.countdown = 1
      /\ b = 170 /\ cd = 1 => t.req = Append(Append(s.req, b), 85) /\ t.countdown = 2
  BY <1>4, <1>5, MnStuff, SMTT(60)
<1> HIDE DEF t, cd
<1>9. MnLeads(nSums, list, g, Append(s.req, b), h)
  BY <1>5, <1>7, MnLeadsNext
<1>10. n # 0
  BY <1>3
<1>11. CASE b # 170
  <2>1. z = 2 - t.countdown
    BY <1>8, <1>11 DEF z
  <2>2. h = <<k, n + 3, IF n = 0 THEN 0 ELSE 2 - t.countdown>>
    BY <1>10, <2>1 DEF h
  <2>3. t.req = Append(s.req, b)
    BY <1>8, <1>11
  <2> QED BY <1>8, <1>9, <2>2, <2>3 DEF MnGoes, g, t, b, f
<1>12. CASE b = 170 /\ cd = 2
  <2>1. z = 2 - t.countdown
    BY <1>6, <1>8, <1>12 DEF z
  <2>2. h = <<k, n + 3, IF n = 0 THEN 0 ELSE 2 - t.countdown>>
    BY <1>10, <2>1 DEF h
  <2>3. t.req = Append(s.req, b)
    BY <1>8, <1>12
  <2> QED BY <1>8, <1>9, <2>2, <2>3 DEF MnGoes, g, t, b, f
<1>13. CASE b = 170 /\ cd = 1
  <2>1. z = 2 /\ t.countdown = 2 /\ t.req = Append(Append(s.req, b), 85)
    BY <1>6, <1>8, <1>13, SMTT(60) DEF z
  <2> DEFINE o == <<k, n + 3, 0>>
  <2>2. MnFollows(nSums, list, h, 85, o)
    <3>1. h[1] = k /\ h[2] = n + 3 /\ h[3] = 2
      BY <2>1 DEF h
    <3>2. h \in MnPlace /\ o \in MnPlace
      <4>1. n + 3 \in Nat
        BY <1>3
      <4>2. h = <<k, n + 3, 2>>
        BY <2>1 DEF h
      <4> QED BY <1>1, <4>1, <4>2 DEF MnPlace
    <3>3. h[2] >= 3
      BY <1>3, <3>1
    <3>4. 85 \in MnByte
      BY DEF MnByte
    <3>5. o = <<h[1], h[2], 0>>
      BY <3>1
    <3> HIDE DEF o
    <3> QED BY <3>1, <3>2, <3>3, <3>4, <3>5 DEF MnFollows
  <2>3. MnLeads(nSums, list, g, Append(Append(s.req, b), 85), o)
    <3> HIDE DEF o
    <3> QED BY <1>9, <2>2, MnLeadsNext
  <2>4. o = <<k, n + 3, IF n = 0 THEN 0 ELSE 2 - t.countdown>>
    BY <1>10, <2>1
  <2> HIDE DEF o
  <2> QED BY <1>8, <2>1, <2>3, <2>4 DEF MnGoes, g, t, b, f
<1> QED BY <1>5, <1>11, <1>12, <1>13

\* Out's bytes lead from the beginning of a frame to the next.
LEMMA MnEncoded ==
  ASSUME nSums \in MnSumsOf, nCountdown \in {1, 2}, NEW list \in Seq(Mn!Frames), NEW k \in 1 .. Len(list)
  PROVE  LET e == Mn!Encoded(list[k])
         IN  /\ e.countdown \in {1, 2} /\ e.req \in MnBytes
             /\ MnLeads(nSums, list, <<k, 0, 0>>, e.req, <<k + 1, 0, 0>>)
<1> DEFINE f == list[k]
           bytes == Mn!Body(f) \o nSums[Mn!Body(f)]
           L == Len(bytes)
           a == [req |-> <<170, 170, 170>>, countdown |-> nCountdown]
           F(v) == v = [n \in 0 .. L |-> IF n = 0 THEN a ELSE Mn!stuff(v[n - 1], bytes[n])]
           u == CHOOSE v : F(v)
           step == [n \in 1 .. L |-> [x \in MnOut |-> Mn!stuff(x, bytes[n])]]
           e == Mn!Encoded(f)
<1>1. f \in Mn!Frames /\ k \in Nat
  OBVIOUS
<1>2. bytes = MnRaw(nSums, f)
  BY SMTT(60) DEF MnRaw
<1>3. L = Len(f.b) + 6 /\ Len(f.b) \in 0 .. 255 /\ \A n \in 1 .. L : bytes[n] \in MnByte
  <2> DEFINE raw == MnRaw(nSums, f)
  <2>1. Len(raw) = Len(f.b) + 6 /\ \A n \in 1 .. Len(f.b) + 6 : raw[n] \in MnByte
    <3> HIDE DEF f
    <3> QED BY <1>1, MnRawIs
  <2>2. Len(f.b) \in 0 .. 255
    <3> HIDE DEF f
    <3> QED BY <1>1, MnFrame
  <2>3. bytes = raw
    BY <1>2
  <2> HIDE DEF bytes, raw, f
  <2> QED BY <2>1, <2>2, <2>3
<1>4. e = [req |-> Append(u[L].req, 85), countdown |-> u[L].countdown]
  BY Zenon DEF Mn!Encoded, Mn!HEADER_BYTE, Mn!EOF_BYTE
<1> HIDE DEF bytes, L, e
<1>5. L \in Nat /\ L >= 6
  <2> DEFINE m == Len(f.b)
  <2>1. L = m + 6 /\ m \in 0 .. 255
    BY <1>3
  <2> HIDE DEF m
  <2> QED BY <2>1, SMTT(60)
<1>6. MnGoes(list, k, 0, a)
  <2>1. 170 \in MnByte
    BY DEF MnByte
  <2>2. <<170, 170, 170>> = Append(Append(Append(<< >>, 170), 170), 170)
    <3> DEFINE x == <<170>>
               y == <<170, 170>>
               z == <<170, 170, 170>>
    <3>1. x \in Seq(MnByte) /\ y \in Seq(MnByte) /\ z \in Seq(MnByte)
      BY <2>1
    <3>2. Append(<< >>, 170) = x
      OBVIOUS
    <3>3. Append(x, 170) = y
      BY <2>1, MnPair
    <3>4. Append(y, 170) = z
      <4> DEFINE w == Append(y, 170)
      <4>1. Len(y) = 2 /\ y[1] = 170 /\ y[2] = 170
        OBVIOUS
      <4>2. Len(z) = 3 /\ z[1] = 170 /\ z[2] = 170 /\ z[3] = 170
        OBVIOUS
      <4> HIDE DEF y, z
      <4>3. w \in Seq(MnByte) /\ Len(w) = Len(y) + 1 /\ w[Len(y) + 1] = 170
        BY <2>1, <3>1, AppendProperties
      <4>4. \A i \in 1 .. Len(y) : w[i] = y[i]
        <5>1. y \in Seq(MnByte)
          BY <3>1
        <5> QED BY <2>1, <5>1, AppendProperties
      <4> HIDE DEF w
      <4>5. Len(w) = 3 /\ w[1] = 170 /\ w[2] = 170 /\ w[3] = 170
        <5>1. 1 \in 1 .. 2 /\ 2 \in 1 .. 2 /\ 2 + 1 = 3
          OBVIOUS
        <5> QED BY <4>1, <4>3, <4>4, <5>1
      <4>6. \A i \in 1 .. 3 : i = 1 \/ i = 2 \/ i = 3
        OBVIOUS
      <4>7. \A i \in 1 .. 3 : w[i] = z[i]
        BY <4>2, <4>5, <4>6
      <4>8. w = z
        BY <3>1, <4>2, <4>3, <4>5, <4>7, SeqEqual
      <4> QED BY <4>8 DEF w
    <3> HIDE DEF x, y
    <3> QED BY <3>2, <3>3, <3>4
  <2> DEFINE at(i) == <<k, i, IF i = 3 THEN 0 ELSE i>>
  <2>3. ASSUME NEW i \in 0 .. 2 PROVE MnFollows(nSums, list, at(i), 170, at(i + 1))
    <3> DEFINE g == at(i)
               h == at(i + 1)
    <3>1. g[1] = k /\ g[2] = i /\ g[3] = i /\ h = <<k, i + 1, IF i = 2 THEN 0 ELSE i + 1>>
      OBVIOUS
    <3>2. g \in MnPlace /\ h \in MnPlace
      BY <1>1 DEF MnPlace
    <3>3. g[2] < 3 /\ h = <<g[1], g[2] + 1, IF g[2] = 2 THEN 0 ELSE g[2] + 1>>
      BY <3>1
    <3> HIDE DEF g, h
    <3>4. g[1] \in 1 .. Len(list)
      BY <3>1
    <3>5. MnFollows(nSums, list, g, 170, h)
      BY <2>1, <3>2, <3>3, <3>4 DEF MnFollows
    <3> QED BY <3>5 DEF g, h
  <2>4. at(0) = <<k, 0, 0>> /\ at(3) = <<k, 3, 0>>
    OBVIOUS
  <2>5. 0 \in 0 .. 2 /\ 1 \in 0 .. 2 /\ 2 \in 0 .. 2 /\ 0 + 1 = 1 /\ 1 + 1 = 2 /\ 2 + 1 = 3 /\ 0 + 3 = 3
    OBVIOUS
  <2> HIDE DEF at
  <2>6. MnFollows(nSums, list, at(0), 170, at(1)) /\ MnFollows(nSums, list, at(1), 170, at(2)) /\ MnFollows(nSums, list, at(2), 170, at(3))
    <3>1. MnFollows(nSums, list, at(0), 170, at(0 + 1)) /\ MnFollows(nSums, list, at(1), 170, at(1 + 1))
          /\ MnFollows(nSums, list, at(2), 170, at(2 + 1))
      BY <2>3, <2>5
    <3> QED BY <2>5, <3>1
  <2>7. MnLeads(nSums, list, at(0), << >>, at(0))
    BY MnSteps
  <2> DEFINE o == << >>
             o1 == Append(o, 170)
             o2 == Append(o1, 170)
             o3 == Append(o2, 170)
  <2>8. <<170, 170, 170>> = o3
    BY <2>2
  <2> HIDE DEF o, o1, o2, o3
  <2>9. MnLeads(nSums, list, at(0), o, at(0))
    BY <2>7 DEF o
  <2>10. MnLeads(nSums, list, at(0), o1, at(1))
    BY <2>6, <2>9, MnLeadsNext DEF o1
  <2>11. MnLeads(nSums, list, at(0), o2, at(2))
    BY <2>6, <2>10, MnLeadsNext DEF o2
  <2>12. MnLeads(nSums, list, at(0), o3, at(3)) /\ o3 \in MnBytes
    BY <2>6, <2>11, MnLeadsNext DEF o3
  <2>13. a.req = o3 /\ a.countdown = nCountdown /\ a = [req |-> o3, countdown |-> nCountdown]
    BY <2>8
  <2> HIDE DEF a
  <2>14. a \in MnOut
    BY <2>12, <2>13 DEF MnOut
  <2>15. <<k, 0 + 3, IF 0 = 0 THEN 0 ELSE 2 - a.countdown>> = at(3)
    BY <2>4, <2>5, SMTT(60)
  <2> QED BY <2>4, <2>12, <2>13, <2>14, <2>15 DEF MnGoes
<1>7. \A n \in 1 .. L, x \in MnOut : Mn!stuff(x, bytes[n]) \in MnOut
  BY <1>3, MnStuff
<1>8. Steps(L, MnOut, step)
  BY <1>7 DEF Steps
<1>9. \A n \in 1 .. L, x \in MnOut : step[n][x] = Mn!stuff(x, bytes[n])
  OBVIOUS
<1>10. a \in MnOut
  BY <1>6 DEF MnGoes
<1> HIDE DEF step, a
<1>11. PICK v : Walk(L, MnOut, a, step, v)
  BY <1>5, <1>8, <1>10, StepsTaken
<1>12. F(v)
  <2>1. v \in [0 .. L -> MnOut] /\ v[0] = a
    BY <1>11 DEF Walk
  <2>2. \A n \in 0 .. L : v[n] = IF n = 0 THEN a ELSE Mn!stuff(v[n - 1], bytes[n])
    <3> SUFFICES ASSUME NEW n \in 0 .. L PROVE v[n] = IF n = 0 THEN a ELSE Mn!stuff(v[n - 1], bytes[n])
      OBVIOUS
    <3>1. CASE n = 0
      BY <2>1, <3>1
    <3>2. CASE n # 0
      <4>1. n \in 1 .. L /\ n - 1 \in 0 .. L
        BY <1>5, <3>2
      <4>2. v[n] = step[n][v[n - 1]] /\ v[n - 1] \in MnOut
        BY <1>11, <4>1 DEF Walk
      <4> QED BY <1>9, <3>2, <4>1, <4>2
    <3> QED BY <3>1, <3>2
  <2>3. v = [n \in 0 .. L |-> v[n]]
    BY <2>1
  <2> QED BY <2>2, <2>3, Zenon
<1>13. F(u)
  <2> HIDE DEF F
  <2> QED BY <1>12
<1> HIDE DEF u
<1>14. \A n \in 0 .. L : u[n] = IF n = 0 THEN a ELSE Mn!stuff(u[n - 1], bytes[n])
  <2>1. u = [n \in 0 .. L |-> IF n = 0 THEN a ELSE Mn!stuff(u[n - 1], bytes[n])]
    BY <1>13
  <2> SUFFICES ASSUME NEW n \in 0 .. L PROVE u[n] = IF n = 0 THEN a ELSE Mn!stuff(u[n - 1], bytes[n])
    OBVIOUS
  <2> QED BY <2>1, Zenon
<1>15. MnGoes(list, k, L, u[L])
  <2> DEFINE T == {n \in 0 .. L : MnGoes(list, k, n, u[n])}
  <2>1. 0 \in T
    <3>1. 0 \in 0 .. L
      BY <1>5
    <3>2. u[0] = a
      BY <1>14, <3>1, Zenon
    <3> QED BY <1>6, <3>1, <3>2
  <2>2. ASSUME NEW n \in 1 .. L, n - 1 \in T PROVE n \in T
    <3>1. n \in 0 .. L /\ n # 0 /\ MnGoes(list, k, n - 1, u[n - 1])
      BY <1>5, <2>2
    <3>2. u[n] = Mn!stuff(u[n - 1], bytes[n])
      BY <1>14, <3>1, ZenonT(60)
    <3> DEFINE s == u[n - 1]
    <3>3. n \in 1 .. Len(list[k].b) + 6 /\ bytes[n] = MnRaw(nSums, list[k])[n]
      BY <1>2, <1>3
    <3> HIDE DEF s
    <3>4. MnGoes(list, k, n - 1, s)
      BY <3>1 DEF s
    <3>5. MnGoes(list, k, n, Mn!stuff(s, MnRaw(nSums, list[k])[n]))
      BY <3>3, <3>4, MnStuffed
    <3>6. MnGoes(list, k, n, u[n])
      BY <3>2, <3>3, <3>5 DEF s
    <3> QED BY <3>1, <3>6
  <2> HIDE DEF T
  <2>3. \A n \in 0 .. L : n \in T
    BY <1>5, <2>1, <2>2, UpTo
  <2>4. L \in 0 .. L
    BY <1>5
  <2>5. L \in T
    BY <2>3, <2>4
  <2> QED BY <2>5 DEF T
<1> DEFINE s == u[L]
           x == 2 - s.countdown
           h == <<k, L + 3, x>>
           o == <<k + 1, 0, 0>>
<1>16. s \in MnOut /\ MnLeads(nSums, list, <<k, 0, 0>>, s.req, h) /\ s.countdown \in {1, 2}
  <2>1. L # 0
    BY <1>5
  <2>2. s \in MnOut /\ MnLeads(nSums, list, <<k, 0, 0>>, s.req, h)
    <3> HIDE DEF u
    <3> QED BY <1>15, <2>1 DEF MnGoes
  <2> QED BY <2>2 DEF MnOut
<1>17. MnFollows(nSums, list, h, 85, o)
  <2>1. x \in {0, 1}
    BY <1>16
  <2> HIDE DEF x
  <2>2. h[1] = k /\ h[2] = L + 3 /\ h[3] = x /\ h \in MnPlace /\ o \in MnPlace
    <3>1. L + 3 \in Nat /\ k + 1 \in Nat /\ x \in 0 .. 2
      BY <1>1, <1>5, <2>1
    <3> QED BY <1>1, <3>1 DEF MnPlace
  <2>3. L + 3 = Len(list[k].b) + 9
    <3> DEFINE m == Len(list[k].b)
    <3>1. L = m + 6 /\ m \in 0 .. 255
      BY <1>3
    <3> HIDE DEF m
    <3>2. L + 3 = m + 9
      BY <3>1
    <3> QED BY <3>2, SMTT(60) DEF m
  <2>4. h[3] # 2 /\ o = <<h[1] + 1, 0, 0>>
    BY <2>1, <2>2
  <2>5. 85 \in MnByte
    BY DEF MnByte
  <2> HIDE DEF h, o
  <2>6. h[1] \in 1 .. Len(list) /\ h[2] = Len(list[h[1]].b) + 9
    BY <2>2, <2>3
  <2> QED BY <2>2, <2>4, <2>5, <2>6 DEF MnFollows
<1> HIDE DEF s, h, o
<1>18. Append(s.req, 85) \in MnBytes /\ MnLeads(nSums, list, <<k, 0, 0>>, Append(s.req, 85), o)
  BY <1>16, <1>17, MnLeadsNext
<1>19. e.req = Append(s.req, 85) /\ e.countdown = s.countdown
  BY <1>4 DEF s
<1> QED BY <1>16, <1>18, <1>19 DEF e, f, o

\* What Receive and Pop change of it beside the bytes.
MnRelieve(s) == [s EXCEPT !.lost = 0]
MnEnqueue(s, r) == [s EXCEPT !.queue = r]

LEMMA MnRelieved ==
  ASSUME NEW s \in MnRec, NEW t, t = MnRelieve(s)
  PROVE  /\ t \in MnRec /\ t.ok /\ t.b = s.b /\ t.sum = s.sum /\ t.queue = s.queue /\ t.lost = 0
         /\ t.header_seen = s.header_seen /\ t.state = s.state /\ t.id = s.id /\ t.crc = s.crc
         /\ t.frame_length = s.frame_length
<1> DEFINE st == s.state
           x == s.header_seen
           id == s.id
           b == s.b
           n == s.frame_length
           crc == s.crc
           sum == s.sum
           queue == s.queue
           lost == s.lost
<1>0. s = MnMake(st, x, id, b, n, crc, sum, queue, lost)
  BY MnFields
<1>1. /\ st \in MnStates /\ x \in 0 .. 2 /\ id \in 0 .. 63 /\ b \in MnBytes /\ n \in 0 .. 255 /\ crc \in MnBytes
      /\ sum \in MnBytes /\ queue \in Seq(Mn!Frames)
  BY MnFields
<1> HIDE DEF st, x, id, b, n, crc, sum, queue, lost
<1>2. t = MnMake(st, x, id, b, n, crc, sum, queue, 0)
  BY <1>0 DEF MnMake, MnRelieve
<1>3. t \in MnRec
  <2>1. MnMake(st, x, id, b, n, crc, sum, queue, 0) \in MnRec
    BY <1>1 DEF MnRec, MnMake
  <2> QED BY <1>2, <2>1
<1>4. t.ok
  BY <1>3, MnFields
<1>5. /\ t.state = st /\ t.header_seen = x /\ t.id = id /\ t.b = b /\ t.frame_length = n
      /\ t.crc = crc /\ t.sum = sum /\ t.queue = queue /\ t.lost = 0
  BY <1>2 DEF MnMake
<1> QED BY <1>3, <1>4, <1>5 DEF st, x, id, b, n, crc, sum, queue

LEMMA MnQueueSet ==
  ASSUME NEW s \in MnRec, NEW r \in Seq(Mn!Frames), NEW t, t = MnEnqueue(s, r)
  PROVE  /\ t \in MnRec /\ t.ok /\ t.b = s.b /\ t.sum = s.sum /\ t.queue = r /\ t.lost = s.lost
         /\ t.header_seen = s.header_seen /\ t.state = s.state /\ t.id = s.id /\ t.crc = s.crc
         /\ t.frame_length = s.frame_length
<1> DEFINE st == s.state
           x == s.header_seen
           id == s.id
           b == s.b
           n == s.frame_length
           crc == s.crc
           sum == s.sum
           queue == s.queue
           lost == s.lost
<1>0. s = MnMake(st, x, id, b, n, crc, sum, queue, lost)
  BY MnFields
<1>1. /\ st \in MnStates /\ x \in 0 .. 2 /\ id \in 0 .. 63 /\ b \in MnBytes /\ n \in 0 .. 255 /\ crc \in MnBytes
      /\ sum \in MnBytes /\ lost \in Nat
  BY MnFields
<1> HIDE DEF st, x, id, b, n, crc, sum, queue, lost
<1>2. t = MnMake(st, x, id, b, n, crc, sum, r, lost)
  BY <1>0 DEF MnMake, MnEnqueue
<1>3. t \in MnRec
  <2>1. MnMake(st, x, id, b, n, crc, sum, r, lost) \in MnRec
    BY <1>1 DEF MnRec, MnMake
  <2> QED BY <1>2, <2>1
<1>4. t.ok
  BY <1>3, MnFields
<1>5. /\ t.state = st /\ t.header_seen = x /\ t.id = id /\ t.b = b /\ t.frame_length = n
      /\ t.crc = crc /\ t.sum = sum /\ t.queue = r /\ t.lost = lost
  BY <1>2 DEF MnMake
<1> QED BY <1>3, <1>4, <1>5 DEF st, x, id, b, n, crc, sum, lost

\* The inductive invariant, while nothing was damaged: what is on the line
\* leads In from where it is to the end of what was sent.
MnGood(list, line, got, base, s) ==
  /\ line \in MnBytes /\ got \in Seq(Mn!Frames) /\ base \in Nat /\ s.lost = 0
  /\ \E g : MnHas(list, g, got, base, s) /\ MnLeads(nSums, list, g, line, <<Len(list) + 1, 0, 0>>)

MnInv ==
  /\ nFaults \in Nat /\ nCountdown \in {1, 2} /\ nSums \in MnSumsOf /\ nSent \in Seq(Mn!Frames)
  /\ nFaults = 0 => MnGood(nSent, nLine, nReceived, nDropped, nIn)

LEMMA MnStart == Mn!Init => MnInv
<1> SUFFICES ASSUME Mn!Init PROVE MnInv
  OBVIOUS
<1> DEFINE g == <<1, 0, 0>>
<1>1. /\ nFaults = 0 /\ nCountdown = 2 /\ nSums \in MnSumsOf /\ nSent = << >> /\ nLine = << >> /\ nReceived = << >>
      /\ nDropped = 0 /\ nIn = [state |-> "SOF", header_seen |-> 0, ok |-> TRUE, id |-> 0, b |-> << >>,
                                frame_length |-> 0, crc |-> << >>, sum |-> << >>, queue |-> << >>, lost |-> 0]
  BY DEF Mn!Init, Mn!Checksums, MnSumsOf
<1>2. nIn = MnMake("SOF", 0, 0, << >>, 0, << >>, << >>, << >>, 0)
  BY <1>1 DEF MnMake
<1>3. << >> \in MnBytes /\ << >> \in Seq(Mn!Frames) /\ "SOF" \in MnStates /\ Len(<< >>) = 0
  BY DEF MnBytes, MnStates
<1>4. nIn \in MnRec
  BY <1>2, <1>3 DEF MnRec, MnMake
<1>5. /\ nIn.state = "SOF" /\ nIn.header_seen = 0 /\ nIn.b = << >> /\ nIn.sum = << >> /\ nIn.queue = << >> /\ nIn.lost = 0
  BY <1>2, MnMade
<1>6. MnFine(nIn)
  <2>1. nIn.ok
    BY <1>4 DEF MnRec
  <2> QED BY <1>3, <1>4, <1>5, <2>1, MinAssumption DEF MnFine
<1>7. g \in MnPlace /\ g[1] = 1 /\ g[2] = 0 /\ g[3] = 0
  BY DEF MnPlace
<1> HIDE DEF g
<1>8. MnReads(nSent, g, nIn)
  BY <1>1, <1>3, <1>5, <1>7 DEF MnReads
<1>9. MnCame(nSent, g) = 0
  BY <1>7 DEF MnCame
<1>10. MnDone(nSent, 0, << >>, 0)
  <2> DEFINE at == [i \in 1 .. 0 |-> 0]
  <2>1. at \in [1 .. 0 -> 1 .. 0] /\ \A i \in 1 .. 0 : FALSE
    OBVIOUS
  <2> HIDE DEF at
  <2>2. at \in [1 .. Len(<< >>) -> 1 .. 0] /\ \A i \in 1 .. Len(<< >>) : FALSE
    BY <1>3, <2>1
  <2>3. 0 \in 0 .. Len(nSent) /\ Len(<< >>) + 0 = 0
    BY <1>1, <1>3
  <2> QED BY <1>3, <2>2, <2>3 DEF MnDone
<1>11. nReceived \o nIn.queue = << >> /\ nDropped + nIn.lost = 0
  BY <1>1, <1>5
<1>12. MnHas(nSent, g, nReceived, nDropped, nIn)
  BY <1>6, <1>8, <1>9, <1>10, <1>11 DEF MnHas
<1>13. MnLeads(nSums, nSent, g, nLine, g)
  BY <1>1, MnSteps
<1>14. g = <<Len(nSent) + 1, 0, 0>>
  BY <1>1, <1>3 DEF g
<1> QED BY <1>1, <1>3, <1>5, <1>12, <1>13, <1>14 DEF MnInv, MnGood

\* A frame is sent.
LEMMA MnPushed ==
  ASSUME nSums \in MnSumsOf, nCountdown \in {1, 2}, NEW list \in Seq(Mn!Frames), NEW f \in Mn!Frames
  PROVE  /\ Append(list, f) \in Seq(Mn!Frames) /\ Mn!Encoded(f).countdown \in {1, 2}
         /\ \A line, got, base, s :
              MnGood(list, line, got, base, s) => MnGood(Append(list, f), line \o Mn!Encoded(f).req, got, base, s)
<1> DEFINE new == Append(list, f)
           k == Len(list) + 1
           e == Mn!Encoded(f)
           end == <<k + 1, 0, 0>>
<1>1. new \in Seq(Mn!Frames) /\ Len(new) = k /\ new[k] = f /\ k \in Nat /\ k \in 1 .. k
  <2>1. Len(list) \in Nat
    OBVIOUS
  <2> QED BY <2>1, AppendProperties
<1> HIDE DEF new, k
<1>2. /\ Mn!Encoded(new[k]).countdown \in {1, 2} /\ Mn!Encoded(new[k]).req \in MnBytes
      /\ MnLeads(nSums, new, <<k, 0, 0>>, Mn!Encoded(new[k]).req, end)
  BY <1>1, MnEncoded
<1>3. e.countdown \in {1, 2} /\ e.req \in MnBytes /\ MnLeads(nSums, new, <<k, 0, 0>>, e.req, end)
  BY <1>1, <1>2
<1> DEFINE req == e.req
<1> HIDE DEF e, req
<1>4. ASSUME NEW line, NEW got, NEW base, NEW s, MnGood(list, line, got, base, s)
      PROVE  MnGood(new, line \o req, got, base, s)
  <2>1. PICK g : MnHas(list, g, got, base, s) /\ MnLeads(nSums, list, g, line, <<k, 0, 0>>)
    BY <1>4 DEF MnGood, k
  <2>2. line \in MnBytes /\ got \in Seq(Mn!Frames) /\ base \in Nat /\ s.lost = 0
    BY <1>4 DEF MnGood
  <2>3. MnHas(new, g, got, base, s)
    <3>1. MnFine(s) /\ MnReads(list, g, s) /\ MnDone(list, MnCame(list, g), got \o s.queue, base + s.lost)
      BY <2>1 DEF MnHas
    <3>2. MnReads(new, g, s) /\ MnCame(new, g) = MnCame(list, g)
      BY <3>1, MnReadsOn DEF new
    <3>3. MnDone(new, MnCame(list, g), got \o s.queue, base + s.lost)
      BY <3>1, MnDoneOn DEF new
    <3> QED BY <3>1, <3>2, <3>3 DEF MnHas
  <2>4. MnLeads(nSums, new, g, line, <<k, 0, 0>>)
    BY <2>1, MnLeadsOn DEF new
  <2>5. MnLeads(nSums, new, g, line \o req, end)
    BY <1>3, <2>4, MnJoined DEF req
  <2>6. line \o req \in MnBytes
    BY <1>3, <2>2, ConcatProperties DEF MnBytes, req
  <2> QED BY <1>1, <2>2, <2>3, <2>5, <2>6 DEF MnGood
<1> QED BY <1>1, <1>3, <1>4 DEF new, e, req

\* A buffer is taken from the line.
LEMMA MnReceived ==
  ASSUME nSums \in MnSumsOf, NEW list \in Seq(Mn!Frames), NEW line, NEW got, NEW base, NEW s,
         MnGood(list, line, got, base, s), NEW size \in 0 .. Len(line), NEW next,
         next = Mn!Consumed(s, SubSeq(line, 1, size)), NEW t, t = [next EXCEPT !.lost = 0]
  PROVE  MnGood(list, SubSeq(line, size + 1, Len(line)), got, base + next.lost, t)
<1> DEFINE x == SubSeq(line, 1, size)
           y == SubSeq(line, size + 1, Len(line))
           end == <<Len(list) + 1, 0, 0>>
<1>1. line \in MnBytes /\ line \in Seq(MnByte) /\ got \in Seq(Mn!Frames) /\ base \in Nat /\ s.lost = 0 /\ Len(line) \in Nat
  BY DEF MnGood, MnBytes
<1>2. PICK g : MnHas(list, g, got, base, s) /\ MnLeads(nSums, list, g, line, end)
  BY DEF MnGood
<1>3. x \in MnBytes /\ y \in MnBytes /\ x \o y = line
  <2>1. 1 \in 1 .. Len(line) + 1 /\ size \in 1 - 1 .. Len(line) /\ Len(line) \in size .. Len(line)
    BY <1>1
  <2>2. x \o y = SubSeq(line, 1, Len(line))
    BY <1>1, <2>1, ConcatAdjacentSubSeq
  <2>3. SubSeq(line, 1, Len(line)) = line
    BY <1>1, SubSeqFull
  <2>4. x \in Seq(MnByte) /\ y \in Seq(MnByte)
    BY <1>1
  <2> QED BY <2>2, <2>3, <2>4 DEF MnBytes
<1> HIDE DEF x, y, end
<1>4. PICK h : MnLeads(nSums, list, g, x, h) /\ MnLeads(nSums, list, h, y, end)
  <2>1. MnLeads(nSums, list, g, x \o y, end)
    BY <1>2, <1>3
  <2> QED BY <1>3, <2>1, MnCut
<1>5. MnHas(list, h, got, base, next)
  <2>1. next = Mn!Consumed(s, x)
    BY DEF x
  <2> QED BY <1>1, <1>2, <1>4, <2>1, MnConsumed
<1>6. MnFine(next) /\ MnReads(list, h, next) /\ MnDone(list, MnCame(list, h), got \o next.queue, base + next.lost)
  BY <1>5 DEF MnHas
<1>7. next \in MnRec
  BY <1>6 DEF MnFine
<1>8. next.lost \in Nat
  BY <1>7, MnFields
<1>9. /\ t \in MnRec /\ t.ok /\ t.b = next.b /\ t.sum = next.sum /\ t.queue = next.queue /\ t.lost = 0
      /\ t.header_seen = next.header_seen /\ t.state = next.state /\ t.id = next.id /\ t.crc = next.crc
      /\ t.frame_length = next.frame_length
  <2>1. t = MnRelieve(next)
    BY DEF MnRelieve
  <2> QED BY <1>7, <2>1, MnRelieved
<1>10. MnFine(t)
  BY <1>6, <1>9 DEF MnFine
<1>11. MnReads(list, h, t)
  <2>1. \A f, k : MnKnows(f, k, next) => MnKnows(f, k, t)
    BY <1>9, ZenonT(60) DEF MnKnows
  <2> QED BY <1>6, <1>9, <2>1 DEF MnReads
<1> DEFINE more == base + next.lost
<1>12. more \in Nat /\ more + 0 = more
  BY <1>1, <1>8
<1> HIDE DEF more
<1>13. MnDone(list, MnCame(list, h), got \o t.queue, more + t.lost)
  <2>1. more + t.lost = more
    BY <1>9, <1>12
  <2> QED BY <1>6, <1>9, <2>1 DEF more
<1>14. MnHas(list, h, got, more, t)
  BY <1>10, <1>11, <1>13 DEF MnHas
<1>15. MnGood(list, y, got, more, t)
  BY <1>1, <1>3, <1>4, <1>9, <1>12, <1>14 DEF MnGood, end
<1> QED BY <1>15 DEF y, more

\* A frame is popped.
LEMMA MnPopped ==
  ASSUME NEW list \in Seq(Mn!Frames), NEW line, NEW got, NEW base, NEW s, MnGood(list, line, got, base, s),
         s.queue # << >>, NEW t, t = MnEnqueue(s, Tail(s.queue))
  PROVE  MnGood(list, line, Append(got, Head(s.queue)), base, t)
<1> DEFINE queue == s.queue
           f == Head(queue)
           r == Tail(queue)
<1>1. line \in MnBytes /\ got \in Seq(Mn!Frames) /\ base \in Nat /\ s.lost = 0
  BY DEF MnGood
<1>2. PICK g : MnHas(list, g, got, base, s) /\ MnLeads(nSums, list, g, line, <<Len(list) + 1, 0, 0>>)
  BY DEF MnGood
<1>3. MnFine(s) /\ MnReads(list, g, s) /\ MnDone(list, MnCame(list, g), got \o queue, base + s.lost)
  BY <1>2 DEF MnHas
<1>4. s \in MnRec
  BY <1>3 DEF MnFine
<1>5. queue \in Seq(Mn!Frames)
  BY <1>4, MnFields
<1>6. f \in Mn!Frames /\ r \in Seq(Mn!Frames) /\ queue = <<f>> \o r /\ Len(r) <= Len(queue) /\ Len(queue) \in Nat /\ Len(r) \in Nat
  <2> HIDE DEF queue
  <2>1. queue # << >>
    BY DEF queue
  <2>2. Len(r) = Len(queue) - 1 /\ Len(queue) \in Nat /\ Len(r) \in Nat
    BY <1>5, <2>1, HeadTailProperties
  <2> QED BY <1>5, <2>1, <2>2, HeadTailProperties
<1>7. /\ t \in MnRec /\ t.ok /\ t.b = s.b /\ t.sum = s.sum /\ t.queue = r /\ t.lost = s.lost
      /\ t.header_seen = s.header_seen /\ t.state = s.state /\ t.id = s.id /\ t.crc = s.crc
      /\ t.frame_length = s.frame_length
  <2>1. t = MnEnqueue(s, r)
    OBVIOUS
  <2>2. r \in Seq(Mn!Frames)
    BY <1>6
  <2> HIDE DEF r
  <2> QED BY <1>4, <2>1, <2>2, MnQueueSet
<1>8. MnFine(t)
  <2>1. Len(queue) <= MnQSize
    BY <1>3 DEF MnFine
  <2>2. Len(r) <= MnQSize
    <3> DEFINE m == Len(r)
               n == Len(queue)
    <3>1. m \in Nat /\ n \in Nat /\ m <= n /\ n <= MnQSize /\ MnQSize \in Nat
      BY <1>6, <2>1, MinAssumption
    <3> HIDE DEF m, n
    <3>2. m <= MnQSize
      BY <3>1
    <3> QED BY <3>2 DEF m
  <2> QED BY <1>3, <1>7, <2>2 DEF MnFine
<1>9. MnReads(list, g, t)
  <2>1. \A x, k : MnKnows(x, k, s) => MnKnows(x, k, t)
    BY <1>7, ZenonT(60) DEF MnKnows
  <2> QED BY <1>3, <1>7, <2>1, SMTT(60) DEF MnReads
<1> HIDE DEF queue, f, r
<1>10. Append(got, f) \in Seq(Mn!Frames) /\ Append(got, f) \o r = got \o queue
  <2>1. <<f>> \in Seq(Mn!Frames)
    BY <1>6
  <2>2. Append(got, f) \in Seq(Mn!Frames) /\ Append(got, f) = got \o <<f>>
    BY <1>1, <1>6, AppendProperties, AppendIsConcat
  <2>3. (got \o <<f>>) \o r = got \o (<<f>> \o r)
    BY <1>1, <1>6, <2>1, ConcatAssociative, SMTT(60)
  <2> QED BY <1>6, <2>2, <2>3
<1>11. MnHas(list, g, Append(got, f), base, t)
  BY <1>3, <1>7, <1>8, <1>9, <1>10 DEF MnHas
<1>12. MnGood(list, line, Append(got, f), base, t)
  BY <1>1, <1>2, <1>7, <1>10, <1>11 DEF MnGood
<1> QED BY <1>12 DEF f, queue

\* The CRC never changes.
LEMMA MnPrimed ==
  ASSUME nSums' = nSums, MnGood(nSent', nLine', nReceived', nDropped', nIn')
  PROVE  MnGood(nSent, nLine, nReceived, nDropped, nIn)'
<1>1. PICK g : MnHas(nSent', g, nReceived', nDropped', nIn')
               /\ MnLeads(nSums, nSent', g, nLine', <<Len(nSent') + 1, 0, 0>>)
  BY DEF MnGood
<1>2. MnReads(nSent', g, nIn')
  BY <1>1 DEF MnHas
<1>3. MnReads(nSent, g, nIn)'
  <2>1. g[2] >= 3 => MnKnows(nSent'[g[1]], g[2] - 3, nIn')
    BY <1>2 DEF MnReads
  <2>2. g[2] >= 3 => MnKnows(nSent[g[1]], g[2] - 3, nIn)'
    BY <2>1 DEF MnKnows
  <2> QED BY <1>2, <2>2 DEF MnReads
<1>4. MnHas(nSent, g, nReceived, nDropped, nIn)'
  BY <1>1, <1>3 DEF MnHas
<1>5. MnLeads(nSums', nSent', g, nLine', <<Len(nSent') + 1, 0, 0>>)
  BY <1>1
<1>6. nLine' \in MnBytes /\ nReceived' \in Seq(Mn!Frames) /\ nDropped' \in Nat /\ nIn'.lost = 0
  BY DEF MnGood
<1> QED BY <1>4, <1>5, <1>6 DEF MnGood

\* A step keeps it.
LEMMA MnNext ==
  ASSUME MnInv, [Mn!Next]_(Mn!vars)
  PROVE  MnInv'
<1>1. /\ nFaults \in Nat /\ nCountdown \in {1, 2} /\ nSums \in MnSumsOf /\ nSent \in Seq(Mn!Frames)
      /\ nFaults = 0 => MnGood(nSent, nLine, nReceived, nDropped, nIn)
  BY DEF MnInv
<1>2. CASE UNCHANGED Mn!vars
  <2>1. /\ nFaults' = nFaults /\ nCountdown' = nCountdown /\ nSums' = nSums /\ nSent' = nSent /\ nLine' = nLine
        /\ nReceived' = nReceived /\ nDropped' = nDropped /\ nIn' = nIn
    BY <1>2 DEF Mn!vars
  <2>2. nFaults' = 0 => MnGood(nSent', nLine', nReceived', nDropped', nIn')
    BY <1>1, <2>1
  <2>3. nFaults' = 0 => MnGood(nSent, nLine, nReceived, nDropped, nIn)'
    BY <2>1, <2>2, MnPrimed
  <2> QED BY <1>1, <2>1, <2>3 DEF MnInv
<1>3. CASE Mn!Pop
  <2>1. /\ nIn.queue # << >> /\ nReceived' = Append(nReceived, Head(nIn.queue)) /\ nIn' = [nIn EXCEPT !.queue = Tail(@)]
        /\ nFaults' = nFaults /\ nCountdown' = nCountdown /\ nSums' = nSums /\ nSent' = nSent /\ nLine' = nLine
        /\ nDropped' = nDropped
    BY <1>3 DEF Mn!Pop
  <2>2. ASSUME nFaults = 0 PROVE MnGood(nSent, nLine, Append(nReceived, Head(nIn.queue)), nDropped, nIn')
    <3>1. nIn' = [nIn EXCEPT !.queue = Tail(@)] /\ nIn.queue # << >>
      BY <2>1
    <3>2. MnGood(nSent, nLine, nReceived, nDropped, nIn) /\ nSent \in Seq(Mn!Frames)
      BY <1>1, <2>2
    <3> DEFINE t == nIn'
    <3>3. t = MnEnqueue(nIn, Tail(nIn.queue))
      BY <3>1 DEF MnEnqueue
    <3> HIDE DEF t
    <3>4. MnGood(nSent, nLine, Append(nReceived, Head(nIn.queue)), nDropped, t)
      BY Zenon, <3>1, <3>2, <3>3, MnPopped
    <3> QED BY <3>4 DEF t
  <2>3. nFaults' = 0 => MnGood(nSent', nLine', nReceived', nDropped', nIn')
    BY <2>1, <2>2
  <2>4. nFaults' = 0 => MnGood(nSent, nLine, nReceived, nDropped, nIn)'
    BY <2>1, <2>3, MnPrimed
  <2> QED BY <1>1, <2>1, <2>4 DEF MnInv
<1>4. CASE \E f \in Mn!Frames : Mn!Push(f)
  <2> PICK f \in Mn!Frames : Mn!Push(f)
    BY <1>4
  <2> DEFINE e == Mn!Encoded(f)
  <2>1. /\ nCountdown' = e.countdown /\ nSent' = Append(nSent, f) /\ nSums' = nSums /\ nIn' = nIn
        /\ nReceived' = nReceived /\ nDropped' = nDropped
        /\ \/ nLine' = nLine \o e.req /\ nFaults' = nFaults
           \/ nFaults' = nFaults + 1
    BY DEF Mn!Push
  <2> HIDE DEF e
  <2>2. /\ Append(nSent, f) \in Seq(Mn!Frames) /\ e.countdown \in {1, 2}
        /\ MnGood(nSent, nLine, nReceived, nDropped, nIn)
             => MnGood(Append(nSent, f), nLine \o e.req, nReceived, nDropped, nIn)
    BY <1>1, MnPushed DEF e
  <2>3. nFaults' = 0 => nFaults = 0 /\ nLine' = nLine \o e.req
    BY <1>1, <2>1
  <2>4. nFaults' = 0 => MnGood(nSent', nLine', nReceived', nDropped', nIn')
    BY <1>1, <2>1, <2>2, <2>3
  <2>5. nFaults' \in Nat
    BY <1>1, <2>1
  <2>6. nCountdown' \in {1, 2} /\ nSums' \in MnSumsOf /\ nSent' \in Seq(Mn!Frames)
    BY <1>1, <2>1, <2>2
  <2>7. nFaults' = 0 => MnGood(nSent, nLine, nReceived, nDropped, nIn)'
    BY <2>1, <2>4, MnPrimed
  <2> QED BY <2>5, <2>6, <2>7 DEF MnInv
<1>5. CASE \E n \in MnChunks : Mn!Receive(n)
  <2> PICK n \in MnChunks : Mn!Receive(n)
    BY <1>5
  <2> DEFINE size == IF n < Len(nLine) THEN n ELSE Len(nLine)
             next == Mn!Consumed(nIn, SubSeq(nLine, 1, size))
             lost == next.lost
  <2>1. /\ nLine' = SubSeq(nLine, size + 1, Len(nLine)) /\ nIn' = [next EXCEPT !.lost = 0]
        /\ nDropped' = nDropped + next.lost /\ nReceived' = nReceived
        /\ nFaults' = nFaults /\ nCountdown' = nCountdown /\ nSums' = nSums /\ nSent' = nSent
    BY DEF Mn!Receive
  <2>2. ASSUME nFaults = 0 PROVE MnGood(nSent, nLine', nReceived, nDropped', nIn')
    <3>1. MnGood(nSent, nLine, nReceived, nDropped, nIn) /\ nSent \in Seq(Mn!Frames) /\ nSums \in MnSumsOf
      BY <1>1, <2>2
    <3>2. size \in 0 .. Len(nLine)
      <4>1. Len(nLine) \in Nat
        BY <3>1 DEF MnGood, MnBytes
      <4>2. n \in Nat
        BY MinAssumption
      <4> QED BY <4>1, <4>2
    <3> HIDE DEF size
    <3> DEFINE t == nIn'
               w == Mn!Consumed(nIn, SubSeq(nLine, 1, size))
    <3>3. t = [w EXCEPT !.lost = 0]
      BY <2>1
    <3>4. w = Mn!Consumed(nIn, SubSeq(nLine, 1, size))
      OBVIOUS
    <3> HIDE DEF t, w
    <3>5. MnGood(nSent, SubSeq(nLine, size + 1, Len(nLine)), nReceived, nDropped + w.lost, t)
      BY Zenon, <3>1, <3>2, <3>3, <3>4, MnReceived
    <3> QED BY <2>1, <3>5 DEF t, w
  <2> HIDE DEF size, next
  <2>3. nFaults' = 0 => MnGood(nSent', nLine', nReceived', nDropped', nIn')
    BY <2>1, <2>2
  <2>4. nFaults' = 0 => MnGood(nSent, nLine, nReceived, nDropped, nIn)'
    BY <2>1, <2>3, MnPrimed
  <2>5. nFaults' \in Nat /\ nCountdown' \in {1, 2} /\ nSums' \in MnSumsOf /\ nSent' \in Seq(Mn!Frames)
    BY <1>1, <2>1
  <2> QED BY <2>4, <2>5 DEF MnInv
<1> QED BY <1>2, <1>3, <1>4, <1>5 DEF Mn!Next

\* What it says of the frames.
LEMMA MnImplies ==
  ASSUME MnInv, nFaults = 0
  PROVE  Mn!Sound /\ Mn!OnlySentFrames /\ Mn!OneFrameLost
<1> DEFINE all == nReceived \o nIn.queue
           L == Len(nSent)
<1>1. nSent \in Seq(Mn!Frames) /\ MnGood(nSent, nLine, nReceived, nDropped, nIn)
  BY DEF MnInv
<1>2. PICK g : MnHas(nSent, g, nReceived, nDropped, nIn) /\ MnLeads(nSums, nSent, g, nLine, <<L + 1, 0, 0>>)
  BY <1>1 DEF MnGood
<1> DEFINE d == MnCame(nSent, g)
<1>3. MnDone(nSent, d, all, nDropped + nIn.lost) /\ nIn.lost = 0 /\ nDropped \in Nat
  BY <1>1, <1>2 DEF MnHas, MnGood
<1>4. nDropped + nIn.lost = nDropped /\ L \in Nat
  BY <1>1, <1>3
<1> HIDE DEF d, all
<1>5. d \in 0 .. L /\ all \in Seq(Mn!Frames) /\ Len(all) + nDropped = d
  BY <1>3, <1>4 DEF MnDone
<1>6. Len(all) \in Nat /\ DOMAIN all = 1 .. Len(all) /\ DOMAIN nSent = 1 .. L
  BY <1>1, <1>5
<1>7. PICK at \in [1 .. Len(all) -> 1 .. d] :
         /\ \A i, j \in 1 .. Len(all) : i < j => at[i] < at[j]
         /\ \A i \in 1 .. Len(all) : all[i] = nSent[at[i]]
  BY <1>3, <1>4 DEF MnDone
<1>8. Mn!OnlySentFrames
  <2>1. 1 .. d \subseteq 1 .. L
    BY <1>4, <1>5
  <2>2. at \in [DOMAIN all -> DOMAIN nSent]
    BY <1>6, <1>7, <2>1
  <2> QED BY <1>6, <1>7, <2>2 DEF Mn!OnlySentFrames, Mn!Arrived, all
<1>9. Mn!OneFrameLost
  <2> SUFFICES ASSUME nLine = << >> PROVE L <= Len(all) + nDropped + nFaults
    BY DEF Mn!OneFrameLost, Mn!Arrived, all
  <2>1. g = <<L + 1, 0, 0>>
    BY <1>2, MnSteps
  <2>2. g[1] = L + 1 /\ g[2] = 0
    BY <2>1
  <2>3. d = L
    BY <1>4, <2>2 DEF MnCame, d
  <2> DEFINE m == Len(all)
  <2>4. m \in Nat /\ nDropped \in Nat /\ m + nDropped = L /\ nFaults = 0
    BY <1>3, <1>5, <1>6, <2>3
  <2> HIDE DEF m, L
  <2>5. L <= m + nDropped + nFaults
    BY <1>4, <2>4
  <2> QED BY <2>5 DEF m
<1>10. Mn!Sound
  <2>1. MnFine(nIn)
    BY <1>2 DEF MnHas
  <2>2. nIn \in MnRec
    BY <2>1 DEF MnFine
  <2>3. /\ nIn.state \in MnStates /\ nIn.header_seen \in 0 .. 2 /\ nIn.ok /\ nIn.id \in 0 .. 63
        /\ nIn.frame_length \in 0 .. 255
    BY <2>2, MnFields
  <2>4. Len(nIn.b) <= MnFrameSize /\ Len(nIn.sum) < 4 /\ Len(nIn.queue) <= MnQSize
    BY <2>1 DEF MnFine
  <2>5. nLine \in Seq(0 .. 255)
    BY <1>1 DEF MnGood, MnBytes, MnByte
  <2>6. nFaults \in 0 .. MnMaxFaults
    BY MinAssumption
  <2>7. nCountdown \in {1, 2} /\ nDropped \in Nat
    BY <1>3 DEF MnInv
  <2>8. Mn!Bounded
    BY <2>3, <2>4, <2>5, <2>6, <2>7 DEF Mn!Bounded, MnStates
  <2>9. \A i \in DOMAIN all : all[i] \in Mn!Frames
    BY <1>5
  <2>10. Mn!WholeFrames
    BY <2>9 DEF Mn!WholeFrames, Mn!Arrived, all
  <2> QED BY <2>3, <2>8, <2>10 DEF Mn!Sound
<1> QED BY <1>8, <1>9, <1>10

\* Over a line that damages nothing: what arrives was sent, in this order and
\* nothing of it twice (OnlySentFrames), and every frame arrives that In has
\* room for (OneFrameLost), for all identifiers, payloads and checksums, header
\* and stuffing bytes within them included, and wherever the stream is cut.
THEOREM UndamagedFramesArrive == Mn!Spec => [](nFaults = 0 => OnlySentFrames /\ OneFrameLost)
<1>1. MnInv /\ [Mn!Next]_(Mn!vars) => MnInv'
  BY MnNext
<1>2. MnInv => (nFaults = 0 => OnlySentFrames /\ OneFrameLost)
  BY MnImplies DEF OnlySentFrames, OneFrameLost
<1> QED BY MnStart, <1>1, <1>2, PTL DEF Mn!Spec

-----------------------------------------------------------------------------
(* Min, over a line that does damage                                       *)

MnAny == [state : MnStates, header_seen : 0 .. 2, ok : BOOLEAN, id : 0 .. 63, b : MnBytes,
          frame_length : 0 .. 255, crc : MnBytes, sum : MnBytes, queue : Seq(Mn!Frames), lost : Nat]

\* An In object, with whether its payload buffer has overflowed.
MnObj(st, x, ok, id, b, n, crc, sum, queue, lost) ==
  [state |-> st, header_seen |-> x, ok |-> ok, id |-> id, b |-> b, frame_length |-> n, crc |-> crc,
   sum |-> sum, queue |-> queue, lost |-> lost]

LEMMA MnObjHas ==
  ASSUME NEW st, NEW x, NEW ok, NEW id, NEW b, NEW n, NEW crc, NEW sum, NEW queue, NEW lost, NEW t,
         t = MnObj(st, x, ok, id, b, n, crc, sum, queue, lost)
  PROVE  /\ t.state = st /\ t.header_seen = x /\ t.ok = ok /\ t.id = id /\ t.b = b /\ t.frame_length = n
         /\ t.crc = crc /\ t.sum = sum /\ t.queue = queue /\ t.lost = lost
BY DEF MnObj

LEMMA MnObjType ==
  ASSUME NEW st \in MnStates, NEW x \in 0 .. 2, NEW ok \in BOOLEAN, NEW id \in 0 .. 63, NEW b \in MnBytes,
         NEW n \in 0 .. 255, NEW crc \in MnBytes, NEW sum \in MnBytes, NEW queue \in Seq(Mn!Frames),
         NEW lost \in Nat
  PROVE  MnObj(st, x, ok, id, b, n, crc, sum, queue, lost) \in MnAny
BY DEF MnAny, MnObj

LEMMA MnObjIs ==
  ASSUME NEW s \in MnAny
  PROVE  /\ s = MnObj(s.state, s.header_seen, s.ok, s.id, s.b, s.frame_length, s.crc, s.sum, s.queue, s.lost)
         /\ s.state \in MnStates /\ s.header_seen \in 0 .. 2 /\ s.ok \in BOOLEAN /\ s.id \in 0 .. 63
         /\ s.b \in MnBytes /\ s.frame_length \in 0 .. 255 /\ s.crc \in MnBytes /\ s.sum \in MnBytes
         /\ s.queue \in Seq(Mn!Frames) /\ s.lost \in Nat
<1>1. s = MnObj(s.state, s.header_seen, s.ok, s.id, s.b, s.frame_length, s.crc, s.sum, s.queue, s.lost)
  BY DEF MnAny, MnObj
<1>2. /\ s.state \in MnStates /\ s.header_seen \in 0 .. 2 /\ s.ok \in BOOLEAN /\ s.id \in 0 .. 63
      /\ s.b \in MnBytes /\ s.frame_length \in 0 .. 255 /\ s.crc \in MnBytes /\ s.sum \in MnBytes
      /\ s.queue \in Seq(Mn!Frames) /\ s.lost \in Nat
  BY DEF MnAny
<1> QED BY <1>1, <1>2

\* A byte is the third of a header, or is counted as one and given to the state.
LEMMA MnObjByte ==
  ASSUME NEW st, NEW x, NEW ok, NEW id, NEW b, NEW n, NEW crc, NEW sum, NEW queue, NEW lost, NEW y
  PROVE  LET s == MnObj(st, x, ok, id, b, n, crc, sum, queue, lost)
             z == IF y = 170 THEN x + 1 ELSE 0
         IN  /\ x = 2 => \E to \in {"ID", "SOF", st} :
                           Mn!byte(s, y) = MnObj(to, 0, ok, id, b, n, crc, sum, queue, lost)
             /\ x # 2 => Mn!byte(s, y) = Mn!Field(MnObj(st, z, ok, id, b, n, crc, sum, queue, lost), y)
<1> DEFINE s == MnObj(st, x, ok, id, b, n, crc, sum, queue, lost)
           z == IF y = 170 THEN x + 1 ELSE 0
<1>1. s.header_seen = x /\ s.state = st
  BY DEF MnObj
<1>2. ASSUME x = 2
      PROVE  \E to \in {"ID", "SOF", st} : Mn!byte(s, y) = MnObj(to, 0, ok, id, b, n, crc, sum, queue, lost)
  <2> DEFINE to == CASE y = 170 -> "ID" [] y = 85 -> st [] OTHER -> "SOF"
  <2>1. Mn!byte(s, y) = [s EXCEPT !.header_seen = 0, !.state = to]
    BY <1>1, <1>2 DEF Mn!byte, Mn!ThirdByte, Mn!HEADER_BYTE, Mn!STUFF_BYTE
  <2>2. to \in {"ID", "SOF", st}
    OBVIOUS
  <2> HIDE DEF to
  <2>3. Mn!byte(s, y) = MnObj(to, 0, ok, id, b, n, crc, sum, queue, lost)
    BY <2>1, ZenonT(60) DEF MnObj
  <2> QED BY <2>2, <2>3
<1>3. ASSUME x # 2
      PROVE  Mn!byte(s, y) = Mn!Field(MnObj(st, z, ok, id, b, n, crc, sum, queue, lost), y)
  <2>1. Mn!byte(s, y) = Mn!Field([s EXCEPT !.header_seen = IF y = 170 THEN @ + 1 ELSE 0], y)
    BY <1>1, <1>3 DEF Mn!byte, Mn!HEADER_BYTE
  <2> DEFINE t == [s EXCEPT !.header_seen = IF y = 170 THEN @ + 1 ELSE 0]
  <2>2. t = [s EXCEPT !.header_seen = z]
    BY <1>1
  <2> HIDE DEF z, t
  <2>3. t = MnObj(st, z, ok, id, b, n, crc, sum, queue, lost)
    BY <2>2 DEF MnObj
  <2> QED BY <2>1, <2>3 DEF z, t
<1> QED BY <1>2, <1>3 DEF s, z

LEMMA MnObjId ==
  ASSUME NEW x, NEW ok, NEW id, NEW b, NEW n, NEW crc, NEW sum, NEW queue, NEW lost, NEW y
  PROVE  Mn!Field(MnObj("ID", x, ok, id, b, n, crc, sum, queue, lost), y)
           = MnObj("LENGTH", x, ok, y % 64, << >>, n, <<y>>, sum, queue, lost)
<1> DEFINE r == MnObj("ID", x, ok, id, b, n, crc, sum, queue, lost)
           z == y % 64
<1>1. r.state = "ID"
  BY DEF MnObj
<1> HIDE DEF r, z
<1>2. Mn!Field(r, y) = [r EXCEPT !.id = z, !.b = << >>, !.crc = <<y>>, !.state = "LENGTH"]
  BY <1>1 DEF Mn!Field, z
<1>3. Mn!Field(r, y) = MnObj("LENGTH", x, ok, z, << >>, n, <<y>>, sum, queue, lost)
  BY <1>2, ZenonT(60) DEF MnObj, r
<1> QED BY <1>3 DEF z, r

LEMMA MnObjLength ==
  ASSUME NEW x, NEW ok, NEW id, NEW b, NEW n, NEW crc, NEW sum, NEW queue, NEW lost, NEW y
  PROVE  Mn!Field(MnObj("LENGTH", x, ok, id, b, n, crc, sum, queue, lost), y) =
         MnObj(IF y > 0 THEN "PAYLOAD" ELSE "CHECKSUM", x, ok, id, b, y, Append(crc, y), << >>, queue, lost)
<1> DEFINE r == MnObj("LENGTH", x, ok, id, b, n, crc, sum, queue, lost)
           o == Append(crc, y)
           to == IF y > 0 THEN "PAYLOAD" ELSE "CHECKSUM"
<1>1. r.state = "LENGTH" /\ r.crc = crc
  BY DEF MnObj
<1> HIDE DEF r, o, to
<1>2. Mn!Field(r, y) = [[r EXCEPT !.crc = o] EXCEPT !.frame_length = y, !.sum = << >>, !.state = to]
  BY <1>1 DEF Mn!Field, Mn!Stepped, o, to
<1>3. Mn!Field(r, y) = MnObj(to, x, ok, id, b, y, o, << >>, queue, lost)
  BY <1>2, ZenonT(60) DEF MnObj, r
<1> QED BY <1>3 DEF to, o, r

LEMMA MnObjOverrun ==
  ASSUME NEW x, NEW ok, NEW id, NEW b, NEW n, NEW crc, NEW sum, NEW queue, NEW lost, NEW y,
         Len(b) = MnFrameSize
  PROVE  \E no \in BOOLEAN :
           Mn!Field(MnObj("PAYLOAD", x, ok, id, b, n, crc, sum, queue, lost), y)
             = MnObj("PAYLOAD", x, no, id, b, n, crc, sum, queue, lost)
<1> DEFINE r == MnObj("PAYLOAD", x, ok, id, b, n, crc, sum, queue, lost)
           no == FALSE
<1>1. r.state = "PAYLOAD" /\ r.b = b
  BY DEF MnObj
<1>2. no \in BOOLEAN
  OBVIOUS
<1> HIDE DEF r
<1>3. Mn!Field(r, y) = [r EXCEPT !.ok = no]
  BY <1>1 DEF Mn!Field
<1> HIDE DEF no
<1>4. Mn!Field(r, y) = MnObj("PAYLOAD", x, no, id, b, n, crc, sum, queue, lost)
  BY <1>3 DEF MnObj, r
<1> QED BY <1>2, <1>4 DEF r

LEMMA MnObjPayload ==
  ASSUME NEW x, NEW ok, NEW id, NEW b, NEW n, NEW crc, NEW sum, NEW queue, NEW lost, NEW y,
         Len(b) # MnFrameSize
  PROVE  Mn!Field(MnObj("PAYLOAD", x, ok, id, b, n, crc, sum, queue, lost), y)
           = MnObj(IF n = 1 THEN "CHECKSUM" ELSE "PAYLOAD", x, ok, id, Append(b, y), n - 1,
                   Append(crc, y), sum, queue, lost)
<1> DEFINE r == MnObj("PAYLOAD", x, ok, id, b, n, crc, sum, queue, lost)
           to == IF n = 1 THEN "CHECKSUM" ELSE "PAYLOAD"
           o == Append(crc, y)
           p == Append(b, y)
           m == n - 1
           v == [r EXCEPT !.crc = o]
<1>1. r.state = "PAYLOAD" /\ r.crc = crc /\ r.b = b /\ r.frame_length = n
  BY DEF MnObj
<1>2. v.state = "PAYLOAD" /\ v.b = b /\ v.frame_length = n
  BY DEF MnObj
<1> HIDE DEF r, v
<1>3. Mn!Field(r, y) = [v EXCEPT !.b = Append(@, y), !.frame_length = @ - 1,
                                 !.state = IF r.frame_length = 1 THEN "CHECKSUM" ELSE @]
  BY <1>1 DEF Mn!Field, Mn!Stepped, v
<1>4. Append(v.b, y) = p /\ v.frame_length - 1 = m /\ (IF r.frame_length = 1 THEN "CHECKSUM" ELSE v.state) = to
  BY <1>1, <1>2
<1> HIDE DEF o, p, m, to
<1>5. Mn!Field(r, y) = [v EXCEPT !.b = p, !.frame_length = m, !.state = to]
  BY <1>3, <1>4
<1>6. Mn!Field(r, y) = MnObj(to, x, ok, id, p, m, o, sum, queue, lost)
  BY <1>5, ZenonT(60) DEF MnObj, r, v
<1> QED BY <1>6 DEF r, o, p, m, to

LEMMA MnObjSum ==
  ASSUME NEW x, NEW ok, NEW id, NEW b, NEW n, NEW crc, NEW sum, NEW queue, NEW lost, NEW y
  PROVE  LET t == Mn!Field(MnObj("CHECKSUM", x, ok, id, b, n, crc, sum, queue, lost), y)
         IN  \/ /\ Len(Append(sum, y)) < 4
                /\ t = MnObj("CHECKSUM", x, ok, id, b, n, crc, Append(sum, y), queue, lost)
             \/ t = MnObj("SOF", x, ok, id, b, n, crc, << >>, queue, lost)
             \/ t = MnObj("SOF", x, ok, id, b, n, crc, << >>, queue, lost + 1)
             \/ /\ crc \in DOMAIN nSums /\ Len(queue) < MnQSize
                /\ t = MnObj("SOF", x, ok, id, b, n, crc, << >>, Append(queue, [id |-> id, b |-> b]), lost)
<1> DEFINE r == MnObj("CHECKSUM", x, ok, id, b, n, crc, sum, queue, lost)
           o == Append(sum, y)
           f == [id |-> id, b |-> b]
           w == Append(queue, f)
           k == lost + 1
<1>1. r.state = "CHECKSUM" /\ r.sum = sum /\ r.crc = crc /\ r.id = id /\ r.b = b /\ r.queue = queue /\ r.lost = lost
  BY DEF MnObj
<1> HIDE DEF r, f, o, w, k
<1>2. CASE Len(o) < 4
  <2>1. Mn!Field(r, y) = [r EXCEPT !.sum = o]
    BY <1>1, <1>2 DEF Mn!Field, o
  <2>2. Mn!Field(r, y) = MnObj("CHECKSUM", x, ok, id, b, n, crc, o, queue, lost)
    BY <2>1 DEF MnObj, r
  <2> QED BY <1>2, <2>2 DEF o, r
<1>3. CASE ~(Len(o) < 4) /\ ~Mn!CrcMatches(r, o)
  <2>1. Mn!Field(r, y) = [r EXCEPT !.sum = << >>, !.state = "SOF"]
    BY <1>1, <1>3 DEF Mn!Field, o
  <2>2. Mn!Field(r, y) = MnObj("SOF", x, ok, id, b, n, crc, << >>, queue, lost)
    BY <2>1 DEF MnObj, r
  <2> QED BY <2>2 DEF r
<1>4. CASE ~(Len(o) < 4) /\ Mn!CrcMatches(r, o)
  <2>1. Mn!Field(r, y) = [Mn!Delivered(r, f) EXCEPT !.sum = << >>, !.state = "SOF"]
    <3>1. f = [id |-> r.id, b |-> r.b]
      BY <1>1 DEF f
    <3> QED BY <1>1, <1>4, <3>1 DEF Mn!Field, o
  <2>2. crc \in DOMAIN nSums
    BY <1>1, <1>4 DEF Mn!CrcMatches
  <2>3. CASE Len(queue) < MnQSize
    <3>1. Mn!Delivered(r, f) = [r EXCEPT !.queue = w]
      BY <1>1, <2>3 DEF Mn!Delivered, w
    <3>2. Mn!Field(r, y) = [[r EXCEPT !.queue = w] EXCEPT !.sum = << >>, !.state = "SOF"]
      BY <2>1, <3>1
    <3>3. Mn!Field(r, y) = MnObj("SOF", x, ok, id, b, n, crc, << >>, w, lost)
      BY <3>2, ZenonT(60) DEF MnObj, r
    <3> QED BY <2>2, <2>3, <3>3 DEF w, f, r
  <2>4. CASE ~(Len(queue) < MnQSize)
    <3>1. Mn!Delivered(r, f) = [r EXCEPT !.lost = k]
      BY <1>1, <2>4 DEF Mn!Delivered, k
    <3>2. Mn!Field(r, y) = [[r EXCEPT !.lost = k] EXCEPT !.sum = << >>, !.state = "SOF"]
      BY <2>1, <3>1
    <3>3. Mn!Field(r, y) = MnObj("SOF", x, ok, id, b, n, crc, << >>, queue, k)
      BY <3>2 DEF MnObj, r
    <3> QED BY <3>3 DEF k, r
  <2> QED BY <2>3, <2>4
<1> QED BY <1>2, <1>3, <1>4

\* What the checksum of a frame is reckoned over: the identifier, with the bits
\* that are masked, the length, and the payload so far.
MnCarries(st, id, b, n, crc) ==
  /\ st = "LENGTH" => b = << >> /\ \E y \in MnByte : crc = <<y>> /\ id = y % 64
  /\ st \in {"PAYLOAD", "CHECKSUM"} => \E y, k \in MnByte : crc = <<y, k>> \o b /\ id = y % 64
  /\ st = "PAYLOAD" => n # 0

\* In, whatever it was given.
MnSafe(s) ==
  /\ s \in MnAny /\ Len(s.b) <= MnFrameSize /\ Len(s.sum) < 4 /\ Len(s.queue) <= MnQSize
  /\ MnCarries(s.state, s.id, s.b, s.frame_length, s.crc)

\* A body that has a checksum is that of a frame.
LEMMA MnBodyKnown ==
  ASSUME nSums \in MnSumsOf, NEW b \in MnBytes, NEW y \in MnByte, NEW k \in MnByte,
         <<y, k>> \o b \in DOMAIN nSums
  PROVE  [id |-> y % 64, b |-> b] \in Mn!Frames
<1>1. PICK f \in Mn!Frames : <<y, k>> \o b = Mn!Body(f)
  BY SMTT(60) DEF MnSumsOf
<1> DEFINE i == f.id
           c == f.b
           l == Len(c)
           p == <<y, k>>
           q == <<i, l>>
<1>2. /\ i \in 0 .. 63 /\ c \in MnBytes /\ l \in 0 .. 255 /\ f = [id |-> i, b |-> c] /\ Mn!Body(f) = q \o c
  BY MnFrame
<1> HIDE DEF i, c, l
<1>3. p \in Seq(MnByte) /\ Len(p) = 2 /\ p[1] = y
  OBVIOUS
<1>4. q \in Seq(MnByte) /\ Len(q) = 2 /\ q[1] = i
  BY <1>2 DEF MnByte
<1> HIDE DEF p, q
<1> DEFINE u == p \o b
           v == q \o c
<1>5. b \in Seq(MnByte) /\ c \in Seq(MnByte) /\ Len(b) \in Nat /\ Len(c) \in Nat
  BY <1>2 DEF MnBytes
<1>6. /\ Len(u) = 2 + Len(b)
      /\ \A j \in 1 .. 2 + Len(b) : u[j] = IF j <= 2 THEN p[j] ELSE b[j - 2]
  <2>1. /\ Len(u) = Len(p) + Len(b)
        /\ \A j \in 1 .. Len(p) + Len(b) : u[j] = IF j <= Len(p) THEN p[j] ELSE b[j - Len(p)]
    BY <1>3, <1>5, ConcatProperties
  <2> HIDE DEF u
  <2> QED BY <1>3, <2>1
<1>7. /\ Len(v) = 2 + Len(c)
      /\ \A j \in 1 .. 2 + Len(c) : v[j] = IF j <= 2 THEN q[j] ELSE c[j - 2]
  <2>1. /\ Len(v) = Len(q) + Len(c)
        /\ \A j \in 1 .. Len(q) + Len(c) : v[j] = IF j <= Len(q) THEN q[j] ELSE c[j - Len(q)]
    BY <1>4, <1>5, ConcatProperties
  <2> HIDE DEF v
  <2> QED BY <1>4, <2>1
<1>8. u = v
  BY <1>1, <1>2 DEF p
<1> HIDE DEF u, v
<1>9. Len(b) = Len(c)
  BY <1>5, <1>6, <1>7, <1>8
<1>10. y = i
  <2>1. 1 \in 1 .. 2 + Len(b) /\ 1 \in 1 .. 2 + Len(c) /\ 1 <= 2
    BY <1>5
  <2>2. u[1] = p[1] /\ v[1] = q[1]
    BY <1>6, <1>7, <2>1
  <2> QED BY <1>3, <1>4, <1>8, <2>2
<1>11. b = c
  <2>1. ASSUME NEW j \in 1 .. Len(b) PROVE b[j] = c[j]
    <3> DEFINE m == j + 2
    <3>1. m \in 1 .. 2 + Len(b) /\ m \in 1 .. 2 + Len(c) /\ ~(m <= 2) /\ m - 2 = j
      BY <1>5, <1>9
    <3> HIDE DEF m
    <3>2. u[m] = b[j] /\ v[m] = c[j]
      BY <1>6, <1>7, <3>1
    <3> QED BY <1>8, <3>2
  <2> QED BY <1>5, <1>9, <2>1, SeqEqual
<1>12. y % 64 = i
  <2>1. i \in Nat /\ i < 64 /\ 64 \in Nat \ {0}
    BY <1>2
  <2>2. i % 64 = i
    BY <2>1, SmallMod, Zenon
  <2> QED BY <1>10, <2>2, Zenon
<1> QED BY <1>2, <1>11, <1>12

LEMMA MnSafeMade ==
  ASSUME NEW st \in MnStates, NEW x \in 0 .. 2, NEW ok \in BOOLEAN, NEW id \in 0 .. 63, NEW b \in MnBytes,
         NEW n \in 0 .. 255, NEW crc \in MnBytes, NEW sum \in MnBytes, NEW queue \in Seq(Mn!Frames),
         NEW lost \in Nat, Len(b) <= MnFrameSize, Len(sum) < 4, Len(queue) <= MnQSize,
         MnCarries(st, id, b, n, crc), NEW t, t = MnObj(st, x, ok, id, b, n, crc, sum, queue, lost)
  PROVE  MnSafe(t)
<1>1. t \in MnAny
  BY MnObjType, ZenonT(60)
<1>2. /\ t.state = st /\ t.id = id /\ t.b = b /\ t.frame_length = n
      /\ t.crc = crc /\ t.sum = sum /\ t.queue = queue
  BY MnObjHas
<1> QED BY <1>1, <1>2, SMTT(60) DEF MnSafe

\* What a state makes of a byte is safe.
LEMMA MnSafeField ==
  ASSUME nSums \in MnSumsOf, NEW y \in MnByte,
         NEW st \in MnStates, NEW x \in 0 .. 2, NEW ok \in BOOLEAN, NEW id \in 0 .. 63, NEW b \in MnBytes,
         NEW n \in 0 .. 255, NEW crc \in MnBytes, NEW sum \in MnBytes, NEW queue \in Seq(Mn!Frames),
         NEW lost \in Nat, Len(b) <= MnFrameSize, Len(sum) < 4, Len(queue) <= MnQSize,
         MnCarries(st, id, b, n, crc)
  PROVE  MnSafe(Mn!Field(MnObj(st, x, ok, id, b, n, crc, sum, queue, lost), y))
<1> DEFINE t == Mn!Field(MnObj(st, x, ok, id, b, n, crc, sum, queue, lost), y)
<1>1. y \in 0 .. 255 /\ MnFrameSize \in 0 .. 255 /\ MnQSize \in Nat
  BY MinAssumption DEF MnByte
<1>2. << >> \in MnBytes /\ Len(<< >>) = 0 /\ \A a \in MnBytes : Len(a) \in Nat
  BY DEF MnBytes
<1>3. CASE st = "SOF"
  <2>1. t = MnObj(st, x, ok, id, b, n, crc, sum, queue, lost)
    BY <1>3 DEF Mn!Field, MnObj
  <2> HIDE DEF t
  <2>2. MnSafe(t)
    BY <2>1, MnSafeMade, ZenonT(60)
  <2> QED BY <2>2 DEF t
<1>4. CASE st = "ID"
  <2> DEFINE i == y % 64
             one == <<y>>
  <2>1. t = MnObj("LENGTH", x, ok, i, << >>, n, one, sum, queue, lost)
    BY <1>4, MnObjId
  <2>2. i \in 0 .. 63
    BY <1>1
  <2>3. one \in MnBytes
    BY DEF MnBytes
  <2>4. MnCarries("LENGTH", i, << >>, n, one)
    BY DEF MnCarries
  <2>5. "LENGTH" \in MnStates /\ Len(<< >>) <= MnFrameSize
    BY <1>1, <1>2 DEF MnStates
  <2> HIDE DEF i, one, t
  <2>6. MnSafe(t)
    BY <1>2, <2>1, <2>2, <2>3, <2>4, <2>5, MnSafeMade
  <2> QED BY <2>6 DEF t
<1>5. CASE st = "LENGTH"
  <2> DEFINE to == IF y > 0 THEN "PAYLOAD" ELSE "CHECKSUM"
             o == Append(crc, y)
  <2>1. t = MnObj(to, x, ok, id, b, y, o, << >>, queue, lost)
    BY <1>5, MnObjLength
  <2>2. PICK z \in MnByte : crc = <<z>> /\ id = z % 64
    BY <1>5 DEF MnCarries
  <2>3. b = << >>
    BY <1>5 DEF MnCarries
  <2> DEFINE two == <<z, y>>
  <2>4. o = two /\ two \in MnBytes
    <3>1. o = two
      BY <2>2, MnPair
    <3>2. two \in MnBytes
      BY DEF MnBytes
    <3> QED BY <3>1, <3>2
  <2>5. two \o << >> = two
    BY <2>4, ConcatEmptySeq DEF MnBytes
  <2>6. o = <<z, y>> \o b
    BY <2>3, <2>4, <2>5
  <2>7. to \in MnStates /\ (to = "PAYLOAD" => y # 0) /\ to # "LENGTH"
    BY <1>1 DEF MnStates
  <2> HIDE DEF to, o, t, two
  <2>8. MnCarries(to, id, b, y, o)
    BY <2>2, <2>6, <2>7 DEF MnCarries
  <2>9. Len(b) <= MnFrameSize /\ o \in MnBytes /\ Len(<< >>) < 4
    BY <1>2, <2>4
  <2>10. MnSafe(t)
    BY <1>1, <1>2, <2>1, <2>7, <2>8, <2>9, MnSafeMade
  <2> QED BY <2>10 DEF t
<1>6. CASE st = "PAYLOAD"
  <2>1. PICK z, k \in MnByte : crc = <<z, k>> \o b /\ id = z % 64
    BY <1>6 DEF MnCarries
  <2>2. n # 0
    BY <1>6 DEF MnCarries
  <2> DEFINE two == <<z, k>>
             o == Append(crc, y)
             p == Append(b, y)
             m == n - 1
             to == IF n = 1 THEN "CHECKSUM" ELSE "PAYLOAD"
  <2>3. t = Mn!Field(MnObj("PAYLOAD", x, ok, id, b, n, crc, sum, queue, lost), y)
    BY <1>6
  <2>4. two \in MnBytes
    BY DEF MnBytes
  <2>5. p \in MnBytes /\ o = two \o p
    <3> HIDE DEF two
    <3> QED BY <2>1, <2>4, MnAppendBehind DEF two
  <2>6. Len(p) = Len(b) + 1 /\ o \in MnBytes
    <3>1. b \in Seq(MnByte) /\ crc \in Seq(MnByte)
      BY DEF MnBytes
    <3> QED BY <3>1, AppendProperties DEF MnBytes
  <2>7. m \in 0 .. 255 /\ to \in MnStates /\ to # "LENGTH" /\ (to = "PAYLOAD" => m # 0)
    BY <2>2 DEF MnStates
  <2>8. CASE Len(b) = MnFrameSize
    <3>1. MnCarries("PAYLOAD", id, b, n, crc) /\ "PAYLOAD" \in MnStates
      BY <1>6
    <3>2. PICK no \in BOOLEAN : t = MnObj("PAYLOAD", x, no, id, b, n, crc, sum, queue, lost)
      BY <2>3, <2>8, MnObjOverrun, SMTT(60)
    <3> HIDE DEF t
    <3>3. MnSafe(t)
      BY <3>1, <3>2, MnSafeMade, ZenonT(60)
    <3> QED BY <3>3 DEF t
  <2>9. CASE Len(b) # MnFrameSize
    <3>1. Len(p) <= MnFrameSize
      <4> DEFINE l == Len(b)
      <4>1. l \in Nat /\ l <= MnFrameSize /\ l # MnFrameSize /\ MnFrameSize \in 0 .. 255
        BY <1>1, <1>2, <2>9
      <4> HIDE DEF l
      <4>2. l + 1 <= MnFrameSize
        BY <4>1
      <4> QED BY <2>6, <4>2 DEF l
    <3> HIDE DEF t
    <3>2. t = MnObj(to, x, ok, id, p, m, o, sum, queue, lost)
      BY <2>3, <2>9, MnObjPayload
    <3> HIDE DEF p, o, m, to
    <3>3. MnCarries(to, id, p, m, o)
      BY <2>1, <2>5, <2>7 DEF MnCarries, two
    <3>4. MnSafe(t)
      BY <2>5, <2>6, <2>7, <3>1, <3>2, <3>3, MnSafeMade, ZenonT(60)
    <3> QED BY <3>4 DEF t
  <2> QED BY <2>8, <2>9
<1>7. CASE st = "CHECKSUM"
  <2>1. PICK z, k \in MnByte : crc = <<z, k>> \o b /\ id = z % 64
    BY <1>7 DEF MnCarries
  <2> DEFINE o == Append(sum, y)
             f == [id |-> id, b |-> b]
             w == Append(queue, f)
  <2> DEFINE More == Len(o) < 4 /\ t = MnObj("CHECKSUM", x, ok, id, b, n, crc, o, queue, lost)
             Bad  == t = MnObj("SOF", x, ok, id, b, n, crc, << >>, queue, lost)
             Full == t = MnObj("SOF", x, ok, id, b, n, crc, << >>, queue, lost + 1)
             Good == /\ crc \in DOMAIN nSums /\ Len(queue) < MnQSize
                     /\ t = MnObj("SOF", x, ok, id, b, n, crc, << >>, w, lost)
  <2>2. More \/ Bad \/ Full \/ Good
    BY <1>7, MnObjSum
  <2>3. o \in MnBytes
    BY AppendProperties DEF MnBytes
  <2>4. MnCarries("SOF", id, b, n, crc) /\ "SOF" \in MnStates /\ lost + 1 \in Nat /\ Len(<< >>) < 4
    BY <1>2 DEF MnCarries, MnStates
  <2>5. crc \in DOMAIN nSums /\ Len(queue) < MnQSize => w \in Seq(Mn!Frames) /\ Len(w) <= MnQSize
    <3> HAVE crc \in DOMAIN nSums /\ Len(queue) < MnQSize
    <3>1. f \in Mn!Frames
      BY <2>1, MnBodyKnown
    <3> HIDE DEF f
    <3>2. w \in Seq(Mn!Frames) /\ Len(w) = Len(queue) + 1
      BY <3>1, AppendProperties
    <3> DEFINE l == Len(queue)
    <3>3. l \in Nat /\ l < MnQSize /\ MnQSize \in Nat
      BY <1>1
    <3> HIDE DEF l, w
    <3>4. l + 1 <= MnQSize
      BY <3>3, SMTT(60)
    <3> QED BY <3>2, <3>4 DEF l
  <2> HIDE DEF t, o, w, f
  <2>6. CASE More
    <3>1. MnSafe(t)
      BY <1>7, <2>3, <2>6, MnSafeMade, ZenonT(60)
    <3> QED BY <3>1 DEF t
  <2>7. CASE Bad
    <3>1. MnSafe(t)
      BY <1>2, <2>4, <2>7, MnSafeMade
    <3> QED BY <3>1 DEF t
  <2>8. CASE Full
    <3> DEFINE g == lost + 1
    <3>1. g \in Nat /\ t = MnObj("SOF", x, ok, id, b, n, crc, << >>, queue, g)
      BY <2>4, <2>8
    <3> HIDE DEF g
    <3>2. MnSafe(t)
      BY <1>2, <2>4, <3>1, MnSafeMade, ZenonT(60)
    <3> QED BY <3>2 DEF t
  <2>9. CASE Good
    <3>1. MnSafe(t)
      BY <1>2, <2>4, <2>5, <2>9, MnSafeMade
    <3> QED BY <3>1 DEF t
  <2> HIDE DEF More, Bad, Full, Good
  <2> QED BY <2>2, <2>6, <2>7, <2>8, <2>9
<1>8. st \in {"SOF", "ID", "LENGTH", "PAYLOAD", "CHECKSUM"}
  BY DEF MnStates
<1> QED BY <1>3, <1>4, <1>5, <1>6, <1>7, <1>8

\* What a byte makes of In is safe.
LEMMA MnSafeByte ==
  ASSUME nSums \in MnSumsOf, NEW s, MnSafe(s), NEW y \in MnByte
  PROVE  MnSafe(Mn!byte(s, y))
<1> DEFINE st == s.state
           x == s.header_seen
           ok == s.ok
           id == s.id
           b == s.b
           n == s.frame_length
           crc == s.crc
           sum == s.sum
           queue == s.queue
           lost == s.lost
           z == IF y = 170 THEN x + 1 ELSE 0
           t == Mn!byte(s, y)
<1>1. s \in MnAny
  BY DEF MnSafe
<1>2. Len(b) <= MnFrameSize /\ Len(sum) < 4 /\ Len(queue) <= MnQSize /\ MnCarries(st, id, b, n, crc)
  BY DEF MnSafe
<1>3. s = MnObj(st, x, ok, id, b, n, crc, sum, queue, lost)
  BY <1>1, MnObjIs
<1>4. /\ st \in MnStates /\ x \in 0 .. 2 /\ ok \in BOOLEAN /\ id \in 0 .. 63 /\ b \in MnBytes /\ n \in 0 .. 255
      /\ crc \in MnBytes /\ sum \in MnBytes /\ queue \in Seq(Mn!Frames) /\ lost \in Nat
  BY <1>1, MnObjIs
<1> HIDE DEF st, x, ok, id, b, n, crc, sum, queue, lost
<1>5. /\ x = 2 => \E to \in {"ID", "SOF", st} : t = MnObj(to, 0, ok, id, b, n, crc, sum, queue, lost)
      /\ x # 2 => t = Mn!Field(MnObj(st, z, ok, id, b, n, crc, sum, queue, lost), y)
  BY <1>3, MnObjByte
<1>6. CASE x = 2
  <2> HIDE DEF t
  <2>1. PICK to \in {"ID", "SOF", st} : t = MnObj(to, 0, ok, id, b, n, crc, sum, queue, lost)
    BY <1>5, <1>6
  <2>2. to \in MnStates /\ 0 \in 0 .. 2
    BY <1>4 DEF MnStates
  <2>3. MnCarries(to, id, b, n, crc)
    <3>1. CASE to = st
      BY <1>2, <3>1
    <3>2. CASE to # st
      BY <3>2, SMTT(60) DEF MnCarries
    <3> QED BY <3>1, <3>2
  <2>4. MnSafe(t)
    BY <1>2, <1>4, <2>1, <2>2, <2>3, MnSafeMade, ZenonT(60)
  <2> QED BY <2>4 DEF t
<1>7. CASE x # 2
  <2>1. z \in 0 .. 2
    BY <1>4, <1>7
  <2> HIDE DEF t, z
  <2>2. t = Mn!Field(MnObj(st, z, ok, id, b, n, crc, sum, queue, lost), y)
    BY <1>5, <1>7
  <2>3. MnSafe(Mn!Field(MnObj(st, z, ok, id, b, n, crc, sum, queue, lost), y))
    BY <1>2, <1>4, <2>1, MnSafeField, ZenonT(60)
  <2>4. MnSafe(t)
    BY <2>2, <2>3
  <2> QED BY <2>4 DEF t
<1> QED BY <1>6, <1>7

\* And what a buffer makes of it.
LEMMA MnSafeBytes ==
  ASSUME nSums \in MnSumsOf, NEW s, MnSafe(s), NEW bytes \in MnBytes
  PROVE  MnSafe(Mn!Consumed(s, bytes))
<1> DEFINE L == Len(bytes)
           S == {x \in MnAny : MnSafe(x)}
           F(f) == f = [n \in 0 .. L |-> IF n = 0 THEN s ELSE Mn!byte(f[n - 1], bytes[n])]
           u == CHOOSE f : F(f)
           t == Mn!Consumed(s, bytes)
           step == [n \in 1 .. L |-> [x \in S |-> Mn!byte(x, bytes[n])]]
<1>1. \A x : x \in S <=> MnSafe(x)
  BY DEF MnSafe
<1>2. L \in Nat /\ \A n \in 1 .. L : bytes[n] \in MnByte
  BY DEF MnBytes
<1>3. t = u[L]
  BY Zenon DEF Mn!Consumed
<1> HIDE DEF S, t, L
<1>4. Steps(L, S, step)
  <2>1. \A n \in 1 .. L, x \in S : Mn!byte(x, bytes[n]) \in S
    BY <1>1, <1>2, MnSafeByte
  <2> QED BY <2>1 DEF Steps
<1>5. \A n \in 1 .. L, x \in S : step[n][x] = Mn!byte(x, bytes[n])
  OBVIOUS
<1> HIDE DEF step
<1>6. PICK v : Walk(L, S, s, step, v)
  BY <1>1, <1>2, <1>4, StepsTaken
<1>7. v \in [0 .. L -> S] /\ v[0] = s /\ \A i \in 1 .. L : v[i] = step[i][v[i - 1]]
  BY <1>6 DEF Walk
<1>8. \A n \in 0 .. L : v[n] = IF n = 0 THEN s ELSE Mn!byte(v[n - 1], bytes[n])
  <2> SUFFICES ASSUME NEW n \in 0 .. L PROVE v[n] = IF n = 0 THEN s ELSE Mn!byte(v[n - 1], bytes[n])
    OBVIOUS
  <2>1. CASE n = 0
    BY <1>7, <2>1
  <2>2. CASE n # 0
    <3>1. n \in 1 .. L /\ n - 1 \in 0 .. L
      BY <1>2, <2>2
    <3>2. v[n - 1] \in S /\ v[n] = step[n][v[n - 1]]
      BY <1>7, <3>1
    <3> QED BY <1>5, <2>2, <3>1, <3>2
  <2> QED BY <2>1, <2>2
<1>9. F(v)
  <2>1. v = [n \in 0 .. L |-> v[n]]
    BY <1>7
  <2> QED BY <1>8, <2>1, Zenon
<1>10. F(u)
  <2> HIDE DEF F
  <2> QED BY <1>9
<1> HIDE DEF u
<1>11. \A n \in 0 .. L : u[n] = IF n = 0 THEN s ELSE Mn!byte(u[n - 1], bytes[n])
  <2>1. u = [n \in 0 .. L |-> IF n = 0 THEN s ELSE Mn!byte(u[n - 1], bytes[n])]
    BY <1>10
  <2> SUFFICES ASSUME NEW n \in 0 .. L PROVE u[n] = IF n = 0 THEN s ELSE Mn!byte(u[n - 1], bytes[n])
    OBVIOUS
  <2> QED BY <2>1, Zenon
<1>12. \A n \in 0 .. L : u[n] = v[n]
  <2> DEFINE T == {n \in 0 .. L : u[n] = v[n]}
  <2>1. 0 \in T
    <3>1. 0 \in 0 .. L
      BY <1>2
    <3> QED BY <1>7, <1>11, <3>1, Zenon
  <2>2. ASSUME NEW n \in 1 .. L, n - 1 \in T PROVE n \in T
    <3>1. n \in 0 .. L /\ n # 0 /\ u[n - 1] = v[n - 1]
      BY <1>2, <2>2
    <3>2. u[n] = Mn!byte(u[n - 1], bytes[n]) /\ v[n] = Mn!byte(v[n - 1], bytes[n])
      BY <1>8, <1>11, <3>1, Zenon
    <3> QED BY <3>1, <3>2
  <2> HIDE DEF T
  <2>3. \A n \in 0 .. L : n \in T
    BY <1>2, <2>1, <2>2, UpTo
  <2> QED BY <2>3 DEF T
<1>13. MnSafe(t)
  <2>1. L \in 0 .. L
    BY <1>2
  <2>2. u[L] = v[L] /\ v[L] \in S
    BY <1>7, <1>12, <2>1
  <2> QED BY <1>1, <1>3, <2>2
<1> QED BY <1>13 DEF t

\* A damaged buffer is one of bytes.
LEMMA MnDamagedBytes ==
  ASSUME NEW req \in MnBytes, NEW d \in Mn!Damaged(req)
  PROVE  d \in MnBytes
<1>1. req \in Seq(MnByte) /\ Len(req) \in Nat
  BY DEF MnBytes
<1>2. ASSUME NEW i \in 0 .. Len(req)
      PROVE  SubSeq(req, 1, i) \in Seq(MnByte) /\ SubSeq(req, i + 1, Len(req)) \in Seq(MnByte)
  <2>1. SubSeq(req, 1, i) \in Seq(MnByte)
    BY <1>1
  <2>2. \A j \in i + 1 .. Len(req) : req[j] \in MnByte
    BY <1>1
  <2>3. i + 1 \in Int /\ Len(req) \in Int
    BY <1>1
  <2>4. SubSeq(req, i + 1, Len(req)) \in Seq(MnByte)
    BY <2>2, <2>3, SubSeqProperties
  <2> QED BY <2>1, <2>4
<1>3. Mn!Noise \subseteq MnByte
  BY DEF Mn!Noise, Mn!STUFF_BYTE, Mn!HEADER_BYTE, MnByte
<1>4. \/ \E i \in 1 .. Len(req) : d = SubSeq(req, 1, i - 1) \o SubSeq(req, i + 1, Len(req))
      \/ \E i \in 0 .. Len(req), x \in Mn!Noise : d = SubSeq(req, 1, i) \o <<x>> \o SubSeq(req, i + 1, Len(req))
      \/ \E i \in 1 .. Len(req), x \in Mn!Noise : d = [req EXCEPT ![i] = x]
  <2>1. CASE d \in Mn!Missing(req)
    BY <2>1 DEF Mn!Missing
  <2>2. CASE \E x \in Mn!Noise : d \in Mn!Extra(req, x)
    BY <2>2 DEF Mn!Extra
  <2>3. CASE \E x \in Mn!Noise : d \in Mn!Wrong(req, x)
    BY <2>3 DEF Mn!Wrong
  <2> QED BY <2>1, <2>2, <2>3 DEF Mn!Damaged
<1>5. ASSUME NEW i \in 1 .. Len(req), d = SubSeq(req, 1, i - 1) \o SubSeq(req, i + 1, Len(req))
      PROVE  d \in Seq(MnByte)
  <2> DEFINE k == i - 1
  <2>1. k \in 0 .. Len(req) /\ i \in 0 .. Len(req)
    BY <1>1
  <2> HIDE DEF k
  <2>2. SubSeq(req, 1, k) \in Seq(MnByte) /\ SubSeq(req, i + 1, Len(req)) \in Seq(MnByte)
    BY <1>2, <2>1
  <2>3. SubSeq(req, 1, k) \o SubSeq(req, i + 1, Len(req)) \in Seq(MnByte)
    BY <2>2, ConcatProperties
  <2> QED BY <1>5, <2>3 DEF k
<1>6. ASSUME NEW i \in 0 .. Len(req), NEW x \in Mn!Noise,
             d = SubSeq(req, 1, i) \o <<x>> \o SubSeq(req, i + 1, Len(req))
      PROVE  d \in Seq(MnByte)
  <2> DEFINE one == <<x>>
  <2>1. one \in Seq(MnByte)
    BY <1>3
  <2> HIDE DEF one
  <2>2. SubSeq(req, 1, i) \o one \in Seq(MnByte)
    BY <1>2, <2>1, ConcatProperties
  <2>3. (SubSeq(req, 1, i) \o one) \o SubSeq(req, i + 1, Len(req)) \in Seq(MnByte)
    BY <1>2, <2>2, ConcatProperties
  <2> QED BY <1>6, <2>3 DEF one
<1>7. ASSUME NEW i \in 1 .. Len(req), NEW x \in Mn!Noise, d = [req EXCEPT ![i] = x]
      PROVE  d \in Seq(MnByte)
  <2>1. x \in MnByte
    BY <1>3
  <2> QED BY <1>1, <1>7, <2>1, ExceptSeq
<1> QED BY <1>4, <1>5, <1>6, <1>7 DEF MnBytes

\* Whatever the line does: what it carries are bytes, In is safe, and frames are
\* delivered whole.
MnSafeInv ==
  /\ nLine \in MnBytes /\ nReceived \in Seq(Mn!Frames) /\ MnSafe(nIn)
  /\ nDropped \in Nat /\ nFaults \in 0 .. MnMaxFaults

LEMMA MnSafeStart == Mn!Init => MnSafeInv
<1> SUFFICES ASSUME Mn!Init PROVE MnSafeInv
  OBVIOUS
<1>1. /\ nFaults = 0 /\ nLine = << >> /\ nReceived = << >> /\ nDropped = 0
      /\ nIn = [state |-> "SOF", header_seen |-> 0, ok |-> TRUE, id |-> 0, b |-> << >>,
                frame_length |-> 0, crc |-> << >>, sum |-> << >>, queue |-> << >>, lost |-> 0]
  BY DEF Mn!Init
<1>2. nIn = MnObj("SOF", 0, TRUE, 0, << >>, 0, << >>, << >>, << >>, 0)
  BY <1>1 DEF MnObj
<1>3. /\ << >> \in MnBytes /\ << >> \in Seq(Mn!Frames) /\ "SOF" \in MnStates /\ 0 \in 0 .. 2 /\ TRUE \in BOOLEAN
      /\ 0 \in 0 .. 63 /\ 0 \in 0 .. 255 /\ 0 \in Nat
  BY DEF MnBytes, MnStates
<1>4. Len(<< >>) <= MnFrameSize /\ Len(<< >>) < 4 /\ Len(<< >>) <= MnQSize /\ 0 \in 0 .. MnMaxFaults
  BY MinAssumption
<1>5. MnCarries("SOF", 0, << >>, 0, << >>)
  BY DEF MnCarries
<1>6. MnSafe(nIn)
  BY <1>2, <1>3, <1>4, <1>5, MnSafeMade, Zenon
<1> QED BY <1>1, <1>3, <1>4, <1>6 DEF MnSafeInv

\* The fields that Receive and Pop change are in no other's way.
LEMMA MnSafeSet ==
  ASSUME NEW s, MnSafe(s), NEW r \in Seq(Mn!Frames), Len(r) <= MnQSize
  PROVE  MnSafe(MnRelieve(s)) /\ MnSafe(MnEnqueue(s, r)) /\ s.queue \in Seq(Mn!Frames) /\ s.lost \in Nat
<1> DEFINE st == s.state
           x == s.header_seen
           ok == s.ok
           id == s.id
           b == s.b
           n == s.frame_length
           crc == s.crc
           sum == s.sum
           queue == s.queue
           lost == s.lost
<1>1. s \in MnAny
  BY DEF MnSafe
<1>2. Len(b) <= MnFrameSize /\ Len(sum) < 4 /\ Len(queue) <= MnQSize /\ MnCarries(st, id, b, n, crc)
  BY DEF MnSafe
<1>3. s = MnObj(st, x, ok, id, b, n, crc, sum, queue, lost)
  BY <1>1, MnObjIs
<1>4. /\ st \in MnStates /\ x \in 0 .. 2 /\ ok \in BOOLEAN /\ id \in 0 .. 63 /\ b \in MnBytes /\ n \in 0 .. 255
      /\ crc \in MnBytes /\ sum \in MnBytes /\ queue \in Seq(Mn!Frames) /\ lost \in Nat
  BY <1>1, MnObjIs
<1> HIDE DEF st, x, ok, id, b, n, crc, sum, queue, lost
<1>5. MnRelieve(s) = MnObj(st, x, ok, id, b, n, crc, sum, queue, 0)
  BY <1>3 DEF MnObj, MnRelieve
<1>6. MnEnqueue(s, r) = MnObj(st, x, ok, id, b, n, crc, sum, r, lost)
  BY <1>3 DEF MnObj, MnEnqueue
<1>7. MnSafe(MnRelieve(s))
  <2>1. 0 \in Nat
    OBVIOUS
  <2> QED BY <1>2, <1>4, <1>5, <2>1, MnSafeMade, ZenonT(60)
<1>8. MnSafe(MnEnqueue(s, r))
  BY <1>2, <1>4, <1>6, MnSafeMade, ZenonT(60)
<1> QED BY <1>4, <1>7, <1>8 DEF queue, lost

LEMMA MnSafeNext ==
  ASSUME MnInv, MnSafeInv, [Mn!Next]_(Mn!vars)
  PROVE  MnSafeInv'
<1>1. /\ nLine \in MnBytes /\ nReceived \in Seq(Mn!Frames) /\ MnSafe(nIn) /\ nDropped \in Nat
      /\ nFaults \in 0 .. MnMaxFaults /\ nSums \in MnSumsOf /\ nCountdown \in {1, 2} /\ MnMaxFaults \in Nat
  BY MinAssumption DEF MnSafeInv, MnInv
<1>2. CASE UNCHANGED Mn!vars
  <2>1. nFaults' = nFaults /\ nLine' = nLine /\ nReceived' = nReceived /\ nDropped' = nDropped /\ nIn' = nIn
    BY <1>2 DEF Mn!vars
  <2> QED BY <1>1, <2>1 DEF MnSafeInv, MnSafe
<1>3. CASE Mn!Pop
  <2> DEFINE w == nIn.queue
             r == Tail(w)
             t == MnEnqueue(nIn, r)
             got == Append(nReceived, Head(w))
  <2>1. /\ w # << >> /\ nReceived' = got /\ nIn' = t /\ nFaults' = nFaults /\ nLine' = nLine /\ nDropped' = nDropped
    BY <1>3 DEF Mn!Pop, MnEnqueue
  <2>2. w \in Seq(Mn!Frames) /\ Len(w) <= MnQSize
    BY <1>1, MnObjIs DEF MnSafe
  <2> HIDE DEF w
  <2>3. r \in Seq(Mn!Frames) /\ Len(r) <= MnQSize /\ Head(w) \in Mn!Frames
    BY <2>1, <2>2, MinAssumption
  <2>4. got \in Seq(Mn!Frames)
    BY <1>1, <2>3, AppendProperties
  <2> HIDE DEF r
  <2>5. MnSafe(t)
    BY <1>1, <2>3, MnSafeSet
  <2> HIDE DEF t, got
  <2> QED BY <1>1, <2>1, <2>4, <2>5 DEF MnSafeInv, MnSafe
<1>4. CASE \E f \in Mn!Frames : Mn!Push(f)
  <2> PICK f \in Mn!Frames : Mn!Push(f)
    BY <1>4
  <2> DEFINE req == Mn!Encoded(f).req
  <2>1. /\ nIn' = nIn /\ nReceived' = nReceived /\ nDropped' = nDropped
        /\ \/ nLine' = nLine \o req /\ nFaults' = nFaults
           \/ /\ nFaults < MnMaxFaults /\ nFaults' = nFaults + 1
              /\ \E d \in Mn!Damaged(req) : nLine' = nLine \o d
    BY DEF Mn!Push
  <2>2. req \in MnBytes
    <3> DEFINE list == <<f>>
    <3>1. list \in Seq(Mn!Frames) /\ 1 \in 1 .. Len(list) /\ list[1] = f
      OBVIOUS
    <3> HIDE DEF list
    <3> QED BY <1>1, <3>1, MnEncoded
  <2> HIDE DEF req
  <2>3. nLine' \in MnBytes
    <3>1. PICK d \in MnBytes : nLine' = nLine \o d
      BY <2>1, <2>2, MnDamagedBytes
    <3> QED BY <1>1, <3>1, ConcatProperties DEF MnBytes
  <2>4. nFaults' \in 0 .. MnMaxFaults
    BY <1>1, <2>1
  <2> QED BY <1>1, <2>1, <2>3, <2>4 DEF MnSafeInv, MnSafe
<1>5. CASE \E n \in MnChunks : Mn!Receive(n)
  <2> PICK n \in MnChunks : Mn!Receive(n)
    BY <1>5
  <2> DEFINE size == IF n < Len(nLine) THEN n ELSE Len(nLine)
             head == SubSeq(nLine, 1, size)
             rest == SubSeq(nLine, size + 1, Len(nLine))
             next == Mn!Consumed(nIn, head)
             t == MnRelieve(next)
  <2>1. /\ nLine' = rest /\ nIn' = t /\ nDropped' = nDropped + next.lost /\ nReceived' = nReceived
        /\ nFaults' = nFaults
    BY DEF Mn!Receive, MnRelieve
  <2>2. size \in 0 .. Len(nLine)
    <3>1. Len(nLine) \in Nat
      BY <1>1 DEF MnBytes
    <3>2. n \in Nat
      BY MinAssumption
    <3> QED BY <3>1, <3>2
  <2> HIDE DEF size
  <2>3. head \in MnBytes /\ rest \in MnBytes
    <3>1. nLine \in Seq(MnByte) /\ Len(nLine) \in Nat
      BY <1>1 DEF MnBytes
    <3>2. head \in Seq(MnByte)
      BY <2>2, <3>1
    <3>3. rest \in Seq(MnByte)
      <4>1. \A j \in size + 1 .. Len(nLine) : nLine[j] \in MnByte
        BY <2>2, <3>1
      <4>2. size + 1 \in Int /\ Len(nLine) \in Int
        BY <2>2, <3>1
      <4> QED BY <4>1, <4>2, SubSeqProperties
    <3> QED BY <3>2, <3>3 DEF MnBytes
  <2> HIDE DEF head, rest
  <2>4. MnSafe(next)
    BY <1>1, <2>3, MnSafeBytes
  <2> HIDE DEF next
  <2>5. MnSafe(t) /\ next.lost \in Nat
    <3>1. << >> \in Seq(Mn!Frames) /\ Len(<< >>) <= MnQSize
      BY MinAssumption
    <3> QED BY <2>4, <3>1, MnSafeSet
  <2> HIDE DEF t
  <2> QED BY <1>1, <2>1, <2>3, <2>5, SMTT(60) DEF MnSafeInv, MnSafe
<1> QED BY <1>2, <1>3, <1>4, <1>5 DEF Mn!Next

LEMMA MnSafeImplies ==
  ASSUME MnInv, MnSafeInv
  PROVE  Mn!Bounded /\ Mn!WholeFrames
<1>1. /\ nLine \in MnBytes /\ nReceived \in Seq(Mn!Frames) /\ MnSafe(nIn) /\ nDropped \in Nat
      /\ nFaults \in 0 .. MnMaxFaults /\ nCountdown \in {1, 2}
  BY DEF MnSafeInv, MnInv
<1>2. /\ nIn.state \in MnStates /\ nIn.header_seen \in 0 .. 2 /\ nIn.id \in 0 .. 63
      /\ nIn.frame_length \in 0 .. 255 /\ nIn.queue \in Seq(Mn!Frames)
  BY <1>1, MnObjIs DEF MnSafe
<1>3. Len(nIn.b) <= MnFrameSize /\ Len(nIn.sum) < 4 /\ Len(nIn.queue) <= MnQSize
  BY <1>1 DEF MnSafe
<1>4. Mn!Bounded
  BY <1>1, <1>2, <1>3 DEF Mn!Bounded, MnStates, MnBytes, MnByte
<1>5. Mn!WholeFrames
  <2> DEFINE all == nReceived \o nIn.queue
  <2>1. all \in Seq(Mn!Frames)
    BY <1>1, <1>2, ConcatProperties
  <2> HIDE DEF all
  <2>2. \A i \in DOMAIN all : all[i] \in Mn!Frames
    BY <2>1
  <2> QED BY <2>2 DEF Mn!WholeFrames, Mn!Arrived, all
<1> QED BY <1>4, <1>5

\* Over a line that damages whatever it likes, In's buffers stay in their bounds
\* and what it delivers is whole: identifier, length and payload belong to a frame
\* with this checksum.
THEOREM DamagedFramesAreWhole == Mn!Spec => [](Mn!Bounded /\ Mn!WholeFrames)
<1>1. Mn!Init => MnInv /\ MnSafeInv
  BY MnStart, MnSafeStart
<1>2. MnInv /\ MnSafeInv /\ [Mn!Next]_(Mn!vars) => MnInv' /\ MnSafeInv'
  BY MnNext, MnSafeNext
<1>3. MnInv /\ MnSafeInv => Mn!Bounded /\ Mn!WholeFrames
  BY MnSafeImplies
<1> QED BY <1>1, <1>2, <1>3, PTL DEF Mn!Spec

=============================================================================
