--------------------------- MODULE FramingProofs ---------------------------
(***************************************************************************)
(* Theorems about Framing: its types, and that a reader whose headers      *)
(* arrive whole stays in step with the sender, however payloads are cut.   *)
(* The bytes the reader has still to read are one sequence, what has       *)
(* arrived followed by what is on its way; both theorems speak of it.      *)
(***************************************************************************)
EXTENDS Framing, SequenceTheorems, TLAPS

\* The bytes not yet read.
Rest == socket \o wire

Byte == [msg : Nat, part : {"header", "payload"}, at : Nat]

\* The bytes in the part of a message to which b belongs, when payloads have sizes sz.
Limit(b, sz) == IF b.part = "header" THEN HeaderSize ELSE sz[b.msg]

\* The byte of the part of b that is d bytes further on, and the first of the part after it.
Further(b, d) == [msg |-> b.msg, part |-> b.part, at |-> b.at + d]
FirstAfter(b) == IF b.part = "header"
                 THEN [msg |-> b.msg, part |-> "payload", at |-> 1]
                 ELSE [msg |-> b.msg + 1, part |-> "header", at |-> 1]

\* Where in s the part ends to which its byte at i belongs.
End(s, sz, i) == i + Limit(s[i], sz) - s[i].at

\* s is a stretch of what was sent, up to the end: from each byte on its part comes in order
\* and to its end, then the next part begins, and only a payload of the last message ends s.
Stretch(s, sz) ==
  \A i \in 1 .. Len(s) :
    /\ s[i].msg \in 1 .. Len(sz) /\ s[i].at \in 1 .. Limit(s[i], sz)
    /\ End(s, sz, i) <= Len(s)
    /\ \A j \in i .. End(s, sz, i) : s[j] = Further(s[i], j - i)
    /\ End(s, sz, i) < Len(s) => s[End(s, sz, i) + 1] = FirstAfter(s[i])
    /\ End(s, sz, i) = Len(s) => s[i].part = "payload" /\ s[i].msg = Len(sz)

\* The reader's next byte is byte a of part p of message m; there is none if m is yet to be sent.
Comes(m, p, a) ==
  IF m = Len(sizes) + 1 THEN Rest = <<>>
                        ELSE Rest # <<>> /\ Rest[1] = [msg |-> m, part |-> p, at |-> a]

\* Where the reader is in the stream of bytes: at a header it has read all or nothing.
AtHeader(m) ==
  /\ part = "header" /\ size = HeaderSize
  /\ \/ length = HeaderSize /\ dataBuffer = 0 /\ Comes(m, "header", 1)
     \/ length = 0 /\ m # Len(sizes) + 1 /\ buffer = Header(m) /\ Comes(m, "payload", 1)
AtPayload(m) ==
  /\ part = "payload" /\ m # Len(sizes) + 1 /\ size = sizes[m]
  /\ IF length = 0 THEN Comes(m + 1, "header", 1) ELSE Comes(m, "payload", size - length + 1)
InStep == \E m \in 1 .. Len(sizes) + 1 : AtHeader(m) \/ AtPayload(m)

\* No header is split between what has arrived and what is on its way.
HeadersWhole == wire # <<>> => ~(wire[1].part = "header" /\ wire[1].at > 1)

BytesOK == socket \in Seq(Byte) /\ wire \in Seq(Byte)
TypeInv == TypeOK /\ BytesOK
StepInv == Stretch(Rest, sizes) /\ (~torn => HeadersWhole /\ InStep)

-----------------------------------------------------------------------------
(* Lemmas on sequences                                                     *)

\* The least of two numbers.
LEMMA MinOfTwo ==
  ASSUME NEW a \in Nat, NEW b \in Nat
  PROVE  /\ Min({a, b}) \in {a, b}
         /\ Min({a, b}) <= a /\ Min({a, b}) <= b
<1> DEFINE least == IF a <= b THEN a ELSE b
<1>1. least \in {a, b} /\ \A y \in {a, b} : least <= y  OBVIOUS
<1> HIDE DEF least
<1>2. /\ Min({a, b}) \in {a, b}
      /\ \A y \in {a, b} : Min({a, b}) <= y
  BY <1>1 DEF Min
<1> QED  BY <1>2

\* What is left of a sequence without its first k elements.
LEMMA Dropped ==
  ASSUME NEW S, NEW s \in Seq(S), NEW k \in 0 .. Len(s)
  PROVE  LET t == SubSeq(s, k + 1, Len(s))
         IN  /\ t \in Seq(S) /\ Len(t) = Len(s) - k
             /\ \A i \in 1 .. Len(s) - k : t[i] = s[i + k]
<1>1. Len(s) \in Nat /\ \A i \in 1 .. Len(s) : s[i] \in S
  BY LenProperties, ElementOfSeq
<1> QED  BY <1>1

\* Dropping elements in front of a concatenation, as long as they all are in its first part.
LEMMA DroppedInFront ==
  ASSUME NEW S, NEW s \in Seq(S), NEW t \in Seq(S), NEW k \in 0 .. Len(s)
  PROVE  SubSeq(s, k + 1, Len(s)) \o t = SubSeq(s \o t, k + 1, Len(s \o t))
<1> DEFINE a == SubSeq(s, k + 1, Len(s))
           c == s \o t
           b == SubSeq(c, k + 1, Len(c))
<1>1. Len(s) \in Nat /\ Len(t) \in Nat  BY LenProperties
<1>2. /\ c \in Seq(S) /\ Len(c) = Len(s) + Len(t)
      /\ \A i \in 1 .. Len(s) + Len(t) : c[i] = IF i <= Len(s) THEN s[i] ELSE t[i - Len(s)]
  BY ConcatProperties
<1>3. /\ a \in Seq(S) /\ Len(a) = Len(s) - k
      /\ \A i \in 1 .. Len(s) - k : a[i] = s[i + k]
  BY Dropped
<1> HIDE DEF a, c
<1>4. k \in 0 .. Len(c)  BY <1>1, <1>2
<1>5. /\ b \in Seq(S) /\ Len(b) = Len(c) - k
      /\ \A i \in 1 .. Len(c) - k : b[i] = c[i + k]
  BY <1>2, <1>4, Dropped
<1>6. /\ a \o t \in Seq(S) /\ Len(a \o t) = Len(a) + Len(t)
      /\ \A i \in 1 .. Len(a) + Len(t) : (a \o t)[i] = IF i <= Len(a) THEN a[i] ELSE t[i - Len(a)]
  BY <1>3, ConcatProperties
<1> HIDE DEF b
<1>7. Len(a \o t) = Len(b)  BY <1>1, <1>2, <1>3, <1>5, <1>6
<1>8. ASSUME NEW i \in 1 .. Len(b)  PROVE (a \o t)[i] = b[i]
  <2>1. b[i] = c[i + k]  BY <1>1, <1>2, <1>5
  <2>2. CASE i <= Len(a)
    BY <1>1, <1>2, <1>3, <1>5, <1>6, <2>1, <2>2
  <2>3. CASE i > Len(a)
    <3>1. (a \o t)[i] = t[i - Len(a)]
      <4>1. i \in 1 .. Len(a) + Len(t) /\ ~(i <= Len(a))  BY <1>1, <1>2, <1>3, <1>5, <2>3
      <4> QED  BY <1>6, <4>1
    <3>2. c[i + k] = t[i + k - Len(s)]  BY <1>1, <1>2, <1>3, <1>5, <2>3
    <3>3. i - Len(a) = i + k - Len(s)  BY <1>1, <1>3
    <3> QED  BY <2>1, <3>1, <3>2, <3>3
  <2>4. Len(a) \in Int /\ i \in Int  BY <1>1, <1>2, <1>3, <1>5
  <2>5. i <= Len(a) \/ i > Len(a)  BY <2>4
  <2> QED  BY <2>2, <2>3, <2>5
<1>9. a \o t = b  BY <1>5, <1>6, <1>7, <1>8, SeqEqual
<1> QED  BY <1>9 DEF a, b, c

\* Moving the boundary between the two parts of a concatenation does not change it.
LEMMA BoundaryMoved ==
  ASSUME NEW S, NEW s \in Seq(S), NEW t \in Seq(S), NEW k \in 0 .. Len(t)
  PROVE  (s \o SubSeq(t, 1, k)) \o SubSeq(t, k + 1, Len(t)) = s \o t
<1> DEFINE front == SubSeq(t, 1, k)
           back == SubSeq(t, k + 1, Len(t))
           joined == s \o front
<1>1. Len(s) \in Nat /\ Len(t) \in Nat /\ \A i \in 1 .. Len(t) : t[i] \in S
  BY LenProperties, ElementOfSeq
<1>2. /\ front \in Seq(S) /\ Len(front) = k
      /\ \A i \in 1 .. k : front[i] = t[i]
  BY <1>1
<1>3. /\ back \in Seq(S) /\ Len(back) = Len(t) - k
      /\ \A i \in 1 .. Len(t) - k : back[i] = t[i + k]
  BY Dropped
<1> HIDE DEF front, back
<1>4. /\ joined \in Seq(S) /\ Len(joined) = Len(s) + Len(front)
      /\ \A i \in 1 .. Len(s) + Len(front) :
           joined[i] = IF i <= Len(s) THEN s[i] ELSE front[i - Len(s)]
  BY <1>2, ConcatProperties
<1> HIDE DEF joined
<1>5. /\ joined \o back \in Seq(S) /\ Len(joined \o back) = Len(joined) + Len(back)
      /\ \A i \in 1 .. Len(joined) + Len(back) :
           (joined \o back)[i] = IF i <= Len(joined) THEN joined[i] ELSE back[i - Len(joined)]
  <2>1. joined \in Seq(S) /\ back \in Seq(S)  BY <1>3, <1>4
  <2> QED  BY ONLY <2>1, ConcatProperties
<1>6. /\ s \o t \in Seq(S) /\ Len(s \o t) = Len(s) + Len(t)
      /\ \A i \in 1 .. Len(s) + Len(t) : (s \o t)[i] = IF i <= Len(s) THEN s[i] ELSE t[i - Len(s)]
  BY ConcatProperties
<1>7. Len(joined \o back) = Len(s \o t)  BY <1>1, <1>2, <1>3, <1>4, <1>5, <1>6
<1>8. ASSUME NEW i \in 1 .. Len(s \o t)  PROVE (joined \o back)[i] = (s \o t)[i]
  <2>1. CASE i <= Len(s)
    BY <1>1, <1>2, <1>3, <1>4, <1>5, <1>6, <2>1
  <2>2. CASE i > Len(s) /\ i <= Len(joined)
    <3>1. (joined \o back)[i] = front[i - Len(s)]
      BY <1>1, <1>2, <1>3, <1>4, <1>5, <1>6, <2>2
    <3>2. front[i - Len(s)] = t[i - Len(s)]  BY <1>1, <1>2, <1>4, <2>2
    <3> QED  BY <1>1, <1>6, <2>2, <3>1, <3>2
  <2>3. CASE i > Len(joined)
    <3>1. (joined \o back)[i] = back[i - Len(joined)]
      BY <1>1, <1>2, <1>3, <1>4, <1>5, <1>6, <2>3
    <3>2. back[i - Len(joined)] = t[i - Len(joined) + k]
      <4>1. i - Len(joined) \in 1 .. Len(t) - k  BY <1>1, <1>2, <1>4, <1>6, <2>3
      <4> QED  BY <1>3, <4>1
    <3>3. i - Len(joined) + k = i - Len(s) /\ i > Len(s)  BY <1>1, <1>2, <1>4, <2>3
    <3> QED  BY <1>1, <1>6, <3>1, <3>2, <3>3, SMTT(30)
  <2>4. Len(s) \in Int /\ Len(joined) \in Int /\ i \in Int  BY <1>1, <1>2, <1>4, <1>6
  <2>5. i <= Len(s) \/ (i > Len(s) /\ i <= Len(joined)) \/ i > Len(joined)  BY <2>4
  <2> QED  BY <2>1, <2>2, <2>3, <2>5
<1>9. joined \o back = s \o t  BY <1>5, <1>6, <1>7, <1>8, SeqEqual
<1> QED  BY <1>9 DEF joined, front, back

\* The bytes of a part, as a sequence.
LEMMA BytesSeq ==
  ASSUME NEW m \in Nat, NEW p \in {"header", "payload"}, NEW n \in Nat
  PROVE  /\ Bytes(m, p, n) \in Seq(Byte) /\ Len(Bytes(m, p, n)) = n
         /\ \A i \in 1 .. n : Bytes(m, p, n)[i] = [msg |-> m, part |-> p, at |-> i]
<1>1. \A i \in 1 .. n : [msg |-> m, part |-> p, at |-> i] \in Byte  BY DEF Byte
<1>2. Bytes(m, p, n) \in [1 .. n -> Byte]  BY <1>1 DEF Bytes
<1> HIDE DEF Byte
<1>3. Bytes(m, p, n) \in Seq(Byte) /\ Len(Bytes(m, p, n)) = n  BY <1>2
<1> QED  BY <1>3 DEF Bytes

\* A stretch of the stream without its first bytes is a stretch.
LEMMA StretchDropped ==
  ASSUME NEW sz, NEW s \in Seq(Byte), NEW k \in 0 .. Len(s), Stretch(s, sz),
         \A i \in 1 .. Len(s) : Limit(s[i], sz) \in Nat /\ s[i].at \in Nat
  PROVE  Stretch(SubSeq(s, k + 1, Len(s)), sz)
<1> DEFINE t == SubSeq(s, k + 1, Len(s))
<1>1. Len(s) \in Nat  BY LenProperties
<1>2. t \in Seq(Byte) /\ Len(t) = Len(s) - k /\ \A i \in 1 .. Len(s) - k : t[i] = s[i + k]
  BY Dropped
<1> HIDE DEF t
<1>3. ASSUME NEW i \in 1 .. Len(t)
      PROVE  /\ t[i].msg \in 1 .. Len(sz) /\ t[i].at \in 1 .. Limit(t[i], sz)
             /\ End(t, sz, i) <= Len(t)
             /\ \A j \in i .. End(t, sz, i) : t[j] = Further(t[i], j - i)
             /\ End(t, sz, i) < Len(t) => t[End(t, sz, i) + 1] = FirstAfter(t[i])
             /\ End(t, sz, i) = Len(t) => t[i].part = "payload" /\ t[i].msg = Len(sz)
  <2> DEFINE e == End(t, sz, i)
             f == End(s, sz, i + k)
  <2>1. i + k \in 1 .. Len(s) /\ t[i] = s[i + k]  BY <1>1, <1>2
  <2>2. f = e + k /\ e \in Int /\ f \in Int
    BY <2>1 DEF End
  <2>3. /\ s[i + k].msg \in 1 .. Len(sz) /\ s[i + k].at \in 1 .. Limit(s[i + k], sz)
        /\ f <= Len(s)
        /\ \A j \in (i + k) .. f : s[j] = Further(s[i + k], j - (i + k))
        /\ f < Len(s) => s[f + 1] = FirstAfter(s[i + k])
        /\ f = Len(s) => s[i + k].part = "payload" /\ s[i + k].msg = Len(sz)
    BY <2>1 DEF Stretch
  <2>4. i <= e
    BY <2>1, <2>3 DEF End
  <2> HIDE DEF e, f
  <2>5. ASSUME NEW j \in i .. e  PROVE t[j] = Further(t[i], j - i)
    <3>1. j + k \in (i + k) .. f /\ j \in 1 .. Len(s) - k  BY <1>1, <1>2, <2>2, <2>3
    <3>2. t[j] = s[j + k] /\ s[j + k] = Further(s[i + k], (j + k) - (i + k))  BY <1>2, <2>3, <3>1
    <3>3. (j + k) - (i + k) = j - i  BY <2>2
    <3> QED  BY <2>1, <3>2, <3>3
  <2>6. ASSUME e < Len(t)  PROVE t[e + 1] = FirstAfter(t[i])
    <3>1. e + 1 \in 1 .. Len(s) - k  BY <1>1, <1>2, <2>2, <2>4, <2>6
    <3>2. t[e + 1] = s[(e + 1) + k]  BY <1>2, <3>1
    <3>3. (e + 1) + k = f + 1 /\ f < Len(s)  BY <1>1, <1>2, <2>2, <2>6
    <3> QED  BY <2>1, <2>3, <3>2, <3>3
  <2>7. e <= Len(t) /\ (e = Len(t) => f = Len(s))  BY <1>1, <1>2, <2>2, <2>3
  <2> QED  BY <2>1, <2>3, <2>5, <2>6, <2>7 DEF e
<1>4. Stretch(t, sz)  BY <1>3 DEF Stretch
<1> QED  BY <1>4 DEF t

\* The sizes of payloads, those sent and the next one.
LEMMA SizesAppend ==
  ASSUME NEW sz \in Seq(Sizes), NEW n \in Sizes
  PROVE  /\ Len(sz) \in Nat /\ HeaderSize \in Nat \ {0} /\ n \in Nat \ {0}
         /\ \A m \in 1 .. Len(sz) : sz[m] \in Nat \ {0}
         /\ Append(sz, n) \in Seq(Sizes) /\ Len(Append(sz, n)) = Len(sz) + 1
         /\ \A m \in 1 .. Len(sz) : Append(sz, n)[m] = sz[m]
         /\ Append(sz, n)[Len(sz) + 1] = n
<1>1. Len(sz) \in Nat /\ \A m \in 1 .. Len(sz) : sz[m] \in Sizes
  BY LenProperties, ElementOfSeq
<1>2. HeaderSize \in Nat \ {0} /\ n \in Nat \ {0} /\ \A m \in 1 .. Len(sz) : sz[m] \in Nat \ {0}
  BY <1>1, SizesAssumption
<1>3. /\ Append(sz, n) \in Seq(Sizes) /\ Len(Append(sz, n)) = Len(sz) + 1
      /\ \A m \in 1 .. Len(sz) : Append(sz, n)[m] = sz[m]
      /\ Append(sz, n)[Len(sz) + 1] = n
  BY AppendProperties
<1> QED  BY <1>1, <1>2, <1>3

\* A message sent at the end of a stretch makes a longer one.
LEMMA StretchSent ==
  ASSUME NEW sz \in Seq(Sizes), NEW s \in Seq(Byte), Stretch(s, sz), NEW n \in Sizes, NEW t,
         Len(t) = Len(s) + HeaderSize + n,
         \A i \in 1 .. Len(s) : t[i] = s[i],
         \A i \in 1 .. HeaderSize :
           t[Len(s) + i] = [msg |-> Len(sz) + 1, part |-> "header", at |-> i],
         \A i \in 1 .. n :
           t[Len(s) + HeaderSize + i] = [msg |-> Len(sz) + 1, part |-> "payload", at |-> i]
  PROVE  Stretch(t, Append(sz, n))
<1> DEFINE z == Append(sz, n)
           l == Len(sz)
           k == Len(s)
           h == HeaderSize
<1>1. /\ l \in Nat /\ h \in Nat \ {0} /\ n \in Nat \ {0} /\ k \in Nat
      /\ \A m \in 1 .. l : sz[m] \in Nat \ {0}
      /\ Len(z) = l + 1
      /\ \A m \in 1 .. l : z[m] = sz[m]
      /\ z[l + 1] = n
  BY SizesAppend, LenProperties
<1>2. /\ Len(t) = k + h + n
      /\ \A i \in 1 .. k : t[i] = s[i]
      /\ \A i \in 1 .. h : t[k + i] = [msg |-> l + 1, part |-> "header", at |-> i]
      /\ \A i \in 1 .. n : t[k + h + i] = [msg |-> l + 1, part |-> "payload", at |-> i]
  OBVIOUS
<1>3. \A b : /\ b.part = "header" => Limit(b, z) = h
             /\ b.part # "header" => Limit(b, z) = z[b.msg]
             /\ b.msg \in 1 .. l => Limit(b, z) = Limit(b, sz)
  BY <1>1 DEF Limit
<1>4. \A i \in 1 .. k : s[i] \in Byte  BY ElementOfSeq
<1> HIDE DEF z
<1> DEFINE Fine(i) ==
      /\ t[i].msg \in 1 .. Len(z) /\ t[i].at \in 1 .. Limit(t[i], z)
      /\ End(t, z, i) <= Len(t)
      /\ \A j \in i .. End(t, z, i) : t[j] = Further(t[i], j - i)
      /\ End(t, z, i) < Len(t) => t[End(t, z, i) + 1] = FirstAfter(t[i])
      /\ End(t, z, i) = Len(t) => t[i].part = "payload" /\ t[i].msg = Len(z)
<1>5. ASSUME NEW i \in 1 .. k  PROVE Fine(i)
  <2> DEFINE e == End(s, sz, i)
  <2>1. /\ s[i].msg \in 1 .. l /\ s[i].at \in 1 .. Limit(s[i], sz)
        /\ e <= k
        /\ \A j \in i .. e : s[j] = Further(s[i], j - i)
        /\ e < k => s[e + 1] = FirstAfter(s[i])
        /\ e = k => s[i].part = "payload" /\ s[i].msg = l
    BY DEF Stretch
  <2>2. t[i] = s[i] /\ End(t, z, i) = e  BY <1>2, <1>3, <2>1 DEF End
  <2>3. Limit(s[i], sz) \in Nat /\ s[i].at \in Nat /\ e \in Nat /\ i <= e
    <3>1. Limit(s[i], sz) \in Nat  BY <1>1, <2>1 DEF Limit
    <3>2. s[i].at \in Nat /\ s[i].at <= Limit(s[i], sz)  BY <2>1, <3>1
    <3>3. \A a, b \in Nat : a <= b => i + b - a \in Nat /\ i <= i + b - a  OBVIOUS
    <3> QED  BY <3>1, <3>2, <3>3 DEF End
  <2> HIDE DEF e
  <2>4. ASSUME NEW j \in i .. e  PROVE t[j] = Further(t[i], j - i)
    <3>1. j \in 1 .. k
      <4>1. e \in Nat /\ e <= k /\ k \in Nat  BY <1>1, <2>1, <2>3
      <4> HIDE DEF k
      <4> QED  BY <4>1
    <3> QED  BY <1>2, <2>1, <2>2, <3>1
  <2>5. e < Len(t)  BY <1>1, <1>2, <2>1, <2>3
  <2>6. t[e + 1] = FirstAfter(t[i])
    <3>1. CASE e < k
      BY <1>1, <1>2, <2>1, <2>2, <2>3, <3>1
    <3>2. CASE e = k
      <4>1. t[k + 1] = [msg |-> l + 1, part |-> "header", at |-> 1]  BY <1>1, <1>2
      <4> QED  BY <2>1, <2>2, <3>2, <4>1 DEF FirstAfter
    <3> QED  BY <1>1, <2>1, <2>3, <3>1, <3>2
  <2>7. t[i].msg \in 1 .. Len(z) /\ t[i].at \in 1 .. Limit(t[i], z)
    BY <1>1, <1>3, <2>1, <2>2
  <2> QED  BY <2>2, <2>3, <2>4, <2>5, <2>6, <2>7, <1>1, <1>2
<1>6. ASSUME NEW d \in 1 .. h  PROVE Fine(k + d)
  <2>1. t[k + d] = [msg |-> l + 1, part |-> "header", at |-> d]  BY <1>2
  <2>2. Limit(t[k + d], z) = h  BY <1>3, <2>1
  <2>3. End(t, z, k + d) = k + h  BY <1>1, <2>1, <2>2 DEF End
  <2>4. ASSUME NEW j \in (k + d) .. (k + h)  PROVE t[j] = Further(t[k + d], j - (k + d))
    <3>1. j - k \in 1 .. h /\ k + (j - k) = j  BY <1>1, <2>4
    <3>2. t[j] = [msg |-> l + 1, part |-> "header", at |-> j - k]  BY <1>2, <3>1
    <3>3. d + (j - (k + d)) = j - k  BY <1>1
    <3> QED  BY <2>1, <3>2, <3>3 DEF Further
  <2>5. t[(k + h) + 1] = FirstAfter(t[k + d])
    BY <1>1, <1>2, <2>1 DEF FirstAfter
  <2>6. t[k + d].msg \in 1 .. Len(z) /\ t[k + d].at \in 1 .. h  BY <1>1, <2>1
  <2>7. k + h < Len(t)  BY <1>1, <1>2
  <2> QED  BY <1>1, <1>2, <2>2, <2>3, <2>4, <2>5, <2>6, <2>7
<1>7. ASSUME NEW d \in 1 .. n  PROVE Fine(k + h + d)
  <2>1. t[k + h + d] = [msg |-> l + 1, part |-> "payload", at |-> d]  BY <1>2
  <2>2. Limit(t[k + h + d], z) = n  BY <1>1, <1>3, <2>1
  <2>3. End(t, z, k + h + d) = k + h + n  BY <1>1, <2>1, <2>2 DEF End
  <2>4. ASSUME NEW j \in (k + h + d) .. (k + h + n)  PROVE t[j] = Further(t[k + h + d], j - (k + h + d))
    <3>1. j - (k + h) \in 1 .. n /\ k + h + (j - (k + h)) = j  BY <1>1, <2>4
    <3>2. t[j] = [msg |-> l + 1, part |-> "payload", at |-> j - (k + h)]  BY <1>2, <3>1
    <3>3. d + (j - (k + h + d)) = j - (k + h)  BY <1>1
    <3> QED  BY <2>1, <3>2, <3>3 DEF Further
  <2>5. t[k + h + d].msg \in 1 .. Len(z) /\ t[k + h + d].at \in 1 .. n  BY <1>1, <2>1
  <2>6. k + h + n = Len(t) /\ ~(k + h + n < Len(t))  BY <1>1, <1>2
  <2> QED  BY <1>1, <2>1, <2>2, <2>3, <2>4, <2>5, <2>6
<1> HIDE DEF Fine
<1>8. ASSUME NEW i \in 1 .. Len(t)  PROVE Fine(i)
  <2>1. CASE i \in 1 .. k  BY <1>5, <2>1
  <2>2. CASE i - k \in 1 .. h
    <3>1. k + (i - k) = i  BY <1>1
    <3> QED  BY <1>6, <2>2, <3>1
  <2>3. CASE i - (k + h) \in 1 .. n
    <3>1. k + h + (i - (k + h)) = i  BY <1>1
    <3> QED  BY <1>7, <2>3, <3>1
  <2>4. i \in 1 .. k \/ i - k \in 1 .. h \/ i - (k + h) \in 1 .. n  BY <1>1, <1>2
  <2> QED  BY <2>1, <2>2, <2>3, <2>4
<1> QED  BY <1>8 DEF Stretch, Fine, z

-----------------------------------------------------------------------------
(* Type correctness                                                        *)

LEMMA ConstantsTyped == HeaderSize \in Nat \ {0} /\ \A n \in Sizes : n \in Nat \ {0}
BY SizesAssumption

LEMMA InitType == Init => TypeInv
<1> SUFFICES ASSUME Init PROVE TypeInv  OBVIOUS
<1>1. <<>> \in Seq(Sizes) /\ <<>> \in Seq(Byte)  BY EmptySeq
<1>2. length \in 0 .. size /\ dataBuffer \in Nat /\ size \in Sizes \cup {HeaderSize}
  BY ConstantsTyped DEF Init
<1>3. DOMAIN buffer = 1 .. size  BY DEF Init
<1> QED  BY <1>1, <1>2, <1>3 DEF Init, TypeInv, TypeOK, BytesOK

\* One recv: it reads some bytes, at most those missing and at most those there.
LEMMA BytesRead ==
  ASSUME TypeInv, Receive
  PROVE  \E n \in Nat \ {0} :
           /\ n <= length /\ n <= Len(socket) /\ (n = length \/ n = Len(socket))
           /\ buffer' = Store(SubSeq(socket, 1, n), dataBuffer)
           /\ socket' = SubSeq(socket, n + 1, Len(socket))
           /\ length' = length - n /\ dataBuffer' = dataBuffer + length'
           /\ length \in Nat /\ Len(socket) \in Nat
<1>1. length \in Nat \ {0} /\ Len(socket) \in Nat \ {0}
  <2>1. size \in Nat  BY ConstantsTyped DEF TypeInv, TypeOK
  <2> QED  BY <2>1, LenProperties, EmptySeq DEF TypeInv, TypeOK, BytesOK, Receive
<1> DEFINE n == Min({length, Len(socket)})
<1>2. n \in {length, Len(socket)} /\ n <= length /\ n <= Len(socket)  BY <1>1, MinOfTwo
<1>3. /\ buffer' = Store(SubSeq(socket, 1, n), dataBuffer)
      /\ socket' = SubSeq(socket, n + 1, Len(socket))
      /\ length' = length - n /\ dataBuffer' = dataBuffer + length'
  BY DEF Receive
<1> HIDE DEF n
<1> QED  BY <1>1, <1>2, <1>3

LEMMA StartType ==
  ASSUME NEW p \in {"header", "payload"}, NEW n \in Sizes \cup {HeaderSize}, Start(p, n)
  PROVE  /\ part' \in {"header", "payload"}
         /\ size' \in Sizes \cup {HeaderSize}
         /\ length' \in 0 .. size' /\ dataBuffer' \in Nat
         /\ DOMAIN buffer' = 1 .. size'
<1>1. n \in Nat  BY ConstantsTyped
<1> QED  BY <1>1 DEF Start

LEMMA TypeStep ==
  ASSUME TypeInv, [Next]_vars
  PROVE  TypeInv'
<1>0. size \in Nat \ {0} /\ length \in Nat  BY ConstantsTyped DEF TypeInv, TypeOK
<1>1. CASE Receive
  <2>1. PICK n \in Nat \ {0} :
          /\ n <= length /\ n <= Len(socket)
          /\ buffer' = Store(SubSeq(socket, 1, n), dataBuffer)
          /\ socket' = SubSeq(socket, n + 1, Len(socket))
          /\ length' = length - n /\ dataBuffer' = dataBuffer + length'
          /\ Len(socket) \in Nat
    BY <1>1, BytesRead
  <2>2. UNCHANGED <<sizes, wire, part, size, torn>>  BY <1>1 DEF Receive
  <2>3. length' \in 0 .. size /\ dataBuffer' \in Nat  BY <1>0, <2>1 DEF TypeInv, TypeOK
  <2>4. DOMAIN buffer' = 1 .. size  BY <2>1 DEF Store
  <2>5. socket' \in Seq(Byte)
    <3>1. n \in 0 .. Len(socket)  BY <2>1
    <3> QED  BY <2>1, <3>1, Dropped DEF TypeInv, BytesOK
  <2> QED  BY <2>2, <2>3, <2>4, <2>5 DEF TypeInv, TypeOK, BytesOK
<1>2. CASE HeaderRead
  <2>1. \A n \in SizeRead : n = 0 \/ n \in Sizes
    <3>1. \A m \in DOMAIN sizes : sizes[m] \in Sizes  BY LenProperties, ElementOfSeq DEF TypeInv, TypeOK
    <3> QED  BY <3>1 DEF SizeRead
  <2>2. Start("header", HeaderSize) \/ \E n \in Sizes : Start("payload", n)
    BY <1>2, <2>1 DEF HeaderRead
  <2>3. UNCHANGED <<sizes, wire, socket, torn>>  BY <1>2 DEF HeaderRead
  <2> QED  BY <2>2, <2>3, StartType DEF TypeInv, TypeOK, BytesOK
<1>3. CASE PayloadRead
  <2>1. Start("header", HeaderSize) /\ UNCHANGED <<sizes, wire, socket, torn>>
    BY <1>3 DEF PayloadRead
  <2> QED  BY <2>1, StartType DEF TypeInv, TypeOK, BytesOK
<1>4. ASSUME NEW n \in Sizes, Send(n)  PROVE TypeInv'
  <2>1. sizes' \in Seq(Sizes) /\ Len(sizes') \in Nat
    BY <1>4, AppendProperties, LenProperties DEF Send, TypeInv, TypeOK
  <2>2. Header(Len(sizes')) \in Seq(Byte) /\ Bytes(Len(sizes'), "payload", n) \in Seq(Byte)
    BY <2>1, BytesSeq, ConstantsTyped DEF Header
  <2>3. wire' \in Seq(Byte)
    <3>1. wire \o Header(Len(sizes')) \in Seq(Byte)
      BY <2>2, ConcatProperties DEF TypeInv, BytesOK
    <3> QED  BY <1>4, <2>2, <3>1, ConcatProperties DEF Send
  <2> QED  BY <1>4, <2>1, <2>3 DEF Send, TypeInv, TypeOK, BytesOK, reader
<1>5. ASSUME NEW n \in 1 .. Len(wire), Arrive(n)  PROVE TypeInv'
  <2>1. wire' \in Seq(Byte) /\ SubSeq(wire, 1, n) \in Seq(Byte)
    <3>1. Len(wire) \in Nat  BY LenProperties DEF TypeInv, BytesOK
    <3>2. n \in 0 .. Len(wire) /\ n \in 1 .. Len(wire)  BY <3>1
    <3>3. wire' \in Seq(Byte)  BY <1>5, <3>2, Dropped DEF Arrive, TypeInv, BytesOK
    <3>4. \A i \in 1 .. Len(wire) : wire[i] \in Byte  BY ElementOfSeq DEF TypeInv, BytesOK
    <3>5. SubSeq(wire, 1, n) \in Seq(Byte)  BY <3>1, <3>2, <3>4 DEF TypeInv, BytesOK
    <3> QED  BY <3>3, <3>5
  <2>2. socket' \in Seq(Byte)  BY <1>5, <2>1, ConcatProperties DEF Arrive, TypeInv, BytesOK
  <2>3. torn' \in BOOLEAN  BY <1>5 DEF Arrive, TypeInv, TypeOK
  <2> QED  BY <1>5, <2>1, <2>2, <2>3 DEF Arrive, TypeInv, TypeOK, BytesOK, reader
<1>6. CASE UNCHANGED vars
  BY <1>6 DEF vars, TypeInv, TypeOK, BytesOK
<1> QED  BY <1>1, <1>2, <1>3, <1>4, <1>5, <1>6 DEF Next

LEMMA TypeAlways == Spec => []TypeInv
BY InitType, TypeStep, PTL DEF Spec

\* Every variable keeps its type, whatever the reader takes for a size; the loop in
\* read_bytes_from_tcpsocket never asks for fewer bytes than none.
THEOREM TypeCorrect == Spec => []TypeOK
<1>1. TypeInv => TypeOK  BY DEF TypeInv
<1> QED  BY <1>1, TypeAlways, PTL

-----------------------------------------------------------------------------
(* In step                                                                 *)

\* The reader has "left" bytes to read of part p of message m, from byte a on.
Ahead(m, p, a, left) ==
  /\ m \in 1 .. Len(sizes) /\ p \in {"header", "payload"}
  /\ Rest # <<>> /\ Rest[1] = [msg |-> m, part |-> p, at |-> a]
  /\ left = (IF p = "header" THEN HeaderSize ELSE sizes[m]) - a + 1

\* They come in order, and then the next part.
InOrder(m, p, a, left) ==
  /\ a \in Nat \ {0} /\ left \in Nat \ {0} /\ Len(Rest) \in Nat /\ left <= Len(Rest)
  /\ \A j \in 1 .. left : Rest[j] = [msg |-> m, part |-> p, at |-> a + j - 1]
  /\ p = "header" => /\ left < Len(Rest)
                     /\ Rest[left + 1] = [msg |-> m, part |-> "payload", at |-> 1]
  /\ p = "payload" =>
       IF m = Len(sizes) THEN left = Len(Rest)
       ELSE left < Len(Rest) /\ Rest[left + 1] = [msg |-> m + 1, part |-> "header", at |-> 1]

LEMMA InFront ==
  ASSUME TypeInv, Stretch(Rest, sizes), NEW m, NEW p, NEW a, NEW left, Ahead(m, p, a, left)
  PROVE  InOrder(m, p, a, left)
<1> USE DEF InOrder
<1>0. /\ m \in 1 .. Len(sizes) /\ p \in {"header", "payload"}
      /\ Rest # <<>> /\ Rest[1] = [msg |-> m, part |-> p, at |-> a]
      /\ left = (IF p = "header" THEN HeaderSize ELSE sizes[m]) - a + 1
  BY DEF Ahead
<1> DEFINE e == End(Rest, sizes, 1)
           limit == Limit(Rest[1], sizes)
<1>1. Len(Rest) \in Nat \ {0} /\ Len(sizes) \in Nat /\ HeaderSize \in Nat /\ \A i \in 1 .. Len(sizes) : sizes[i] \in Nat
  <2>1. Rest \in Seq(Byte)  BY ConcatProperties DEF TypeInv, BytesOK, Rest
  <2>2. \A i \in 1 .. Len(sizes) : sizes[i] \in Sizes  BY ElementOfSeq DEF TypeInv, TypeOK
  <2> QED  BY <2>1, <2>2, <1>0, LenProperties, EmptySeq, ConstantsTyped DEF TypeInv, TypeOK
<1>2. 1 \in 1 .. Len(Rest)  BY <1>1
<1>3. limit = (IF p = "header" THEN HeaderSize ELSE sizes[m])  BY <1>0 DEF Limit
<1>4. limit \in Nat  BY <1>0, <1>1, <1>3
<1>5. /\ a \in 1 .. limit /\ e <= Len(Rest)
      /\ \A j \in 1 .. e : Rest[j] = Further(Rest[1], j - 1)
      /\ e < Len(Rest) => Rest[e + 1] = FirstAfter(Rest[1])
      /\ e = Len(Rest) => p = "payload" /\ m = Len(sizes)
  BY <1>0, <1>2 DEF Stretch
<1>6. e = 1 + limit - a  BY <1>0 DEF End
<1> HIDE DEF e, limit
<1>7. a \in Nat \ {0} /\ left \in Nat \ {0} /\ e = left  BY <1>0, <1>3, <1>4, <1>5, <1>6
<1>8. ASSUME NEW j \in 1 .. left  PROVE Rest[j] = [msg |-> m, part |-> p, at |-> a + j - 1]
  <2>1. Rest[j] = [msg |-> m, part |-> p, at |-> a + (j - 1)]  BY <1>0, <1>5, <1>7 DEF Further
  <2>2. a + (j - 1) = a + j - 1  BY <1>7
  <2> QED  BY <2>1, <2>2
<1>9. e < Len(Rest) \/ e = Len(Rest)
  <2>1. e \in Nat /\ Len(Rest) \in Nat /\ e <= Len(Rest)  BY <1>1, <1>5, <1>7
  <2> QED  BY <2>1
<1>10. CASE p = "header"
  <2>1. e < Len(Rest)  BY <1>5, <1>9, <1>10
  <2> QED  BY <1>0, <1>1, <1>5, <1>7, <1>8, <1>10, <2>1 DEF FirstAfter
<1>11. CASE p = "payload"
  <2>1. e < Len(Rest) => Rest[left + 1] = [msg |-> m + 1, part |-> "header", at |-> 1]
    BY <1>0, <1>5, <1>7, <1>11 DEF FirstAfter
  <2>2. m = Len(sizes) => e = Len(Rest)
    <3>1. SUFFICES ASSUME e < Len(Rest), m = Len(sizes) PROVE FALSE  BY <1>9
    <3>2. e + 1 \in 1 .. Len(Rest)  BY <1>1, <1>7, <3>1
    <3>3. Rest[e + 1].msg \in 1 .. Len(sizes)  BY <3>2 DEF Stretch
    <3> QED  BY <1>1, <1>7, <2>1, <3>1, <3>3
  <2> QED  BY <1>1, <1>5, <1>7, <1>8, <1>9, <1>11, <2>1, <2>2
<1> QED  BY <1>0, <1>10, <1>11

\* The same for a header, and for a payload.
LEMMA HeaderInFront ==
  ASSUME TypeInv, Stretch(Rest, sizes), NEW m \in 1 .. Len(sizes),
         Rest # <<>>, Rest[1] = [msg |-> m, part |-> "header", at |-> 1]
  PROVE  /\ HeaderSize < Len(Rest)
         /\ \A j \in 1 .. HeaderSize : Rest[j] = [msg |-> m, part |-> "header", at |-> j]
         /\ Rest[HeaderSize + 1] = [msg |-> m, part |-> "payload", at |-> 1]
<1>1. Ahead(m, "header", 1, HeaderSize)  BY ConstantsTyped DEF Ahead
<1>2. InOrder(m, "header", 1, HeaderSize)  BY <1>1, InFront
<1>3. /\ HeaderSize < Len(Rest) /\ Rest[HeaderSize + 1] = [msg |-> m, part |-> "payload", at |-> 1]
      /\ \A j \in 1 .. HeaderSize : Rest[j] = [msg |-> m, part |-> "header", at |-> 1 + j - 1]
  BY <1>2 DEF InOrder
<1>4. \A j \in Int : 1 + j - 1 = j  OBVIOUS
<1> QED  BY <1>3, <1>4

LEMMA PayloadInFront ==
  ASSUME TypeInv, Stretch(Rest, sizes), NEW m \in 1 .. Len(sizes), NEW a,
         Rest # <<>>, Rest[1] = [msg |-> m, part |-> "payload", at |-> a],
         NEW left, left = sizes[m] - a + 1
  PROVE  /\ left <= Len(Rest) /\ a \in Nat
         /\ \A j \in 1 .. left : Rest[j] = [msg |-> m, part |-> "payload", at |-> a + j - 1]
         /\ IF m = Len(sizes) THEN left = Len(Rest)
            ELSE left < Len(Rest) /\ Rest[left + 1] = [msg |-> m + 1, part |-> "header", at |-> 1]
<1>1. Ahead(m, "payload", a, left)  BY DEF Ahead
<1>2. InOrder(m, "payload", a, left)  BY <1>1, InFront
<1> QED  BY <1>2 DEF InOrder

LEMMA RestTyped ==
  ASSUME TypeInv
  PROVE  /\ Rest \in Seq(Byte) /\ Len(Rest) = Len(socket) + Len(wire)
         /\ Len(socket) \in Nat /\ Len(wire) \in Nat /\ Len(Rest) \in Nat
         /\ \A i \in 1 .. Len(Rest) : Rest[i] = IF i <= Len(socket) THEN socket[i] ELSE wire[i - Len(socket)]
         /\ Rest = <<>> <=> Len(Rest) = 0
         /\ wire = <<>> <=> Len(wire) = 0
         /\ socket = <<>> <=> Len(socket) = 0
         /\ Len(sizes) \in Nat /\ HeaderSize \in Nat \ {0}
         /\ \A m \in 1 .. Len(sizes) : sizes[m] \in Nat \ {0}
<1>1. /\ Rest \in Seq(Byte) /\ Len(Rest) = Len(socket) + Len(wire)
      /\ \A i \in 1 .. Len(Rest) : Rest[i] = IF i <= Len(socket) THEN socket[i] ELSE wire[i - Len(socket)]
  BY ConcatProperties DEF TypeInv, BytesOK, Rest
<1>2. /\ Len(socket) \in Nat /\ Len(wire) \in Nat
      /\ wire = <<>> <=> Len(wire) = 0
      /\ socket = <<>> <=> Len(socket) = 0
  BY LenProperties, EmptySeq DEF TypeInv, BytesOK
<1>3. Len(Rest) \in Nat /\ (Rest = <<>> <=> Len(Rest) = 0)  BY <1>1, LenProperties, EmptySeq
<1>4. Len(sizes) \in Nat /\ HeaderSize \in Nat \ {0} /\ \A m \in 1 .. Len(sizes) : sizes[m] \in Nat \ {0}
  BY LenProperties, ElementOfSeq, ConstantsTyped DEF TypeInv, TypeOK
<1> QED  BY <1>1, <1>2, <1>3, <1>4

\* Taking n bytes of what has arrived takes them from the front of what is to be read.
LEMMA RestDropped ==
  ASSUME TypeInv, NEW n \in 0 .. Len(socket), socket' = SubSeq(socket, n + 1, Len(socket)), wire' = wire
  PROVE  /\ Rest' = SubSeq(Rest, n + 1, Len(Rest))
         /\ Len(Rest') = Len(Rest) - n
         /\ \A i \in 1 .. Len(Rest) - n : Rest'[i] = Rest[i + n]
         /\ Rest' = <<>> <=> n = Len(Rest)
<1>1. Rest' = SubSeq(Rest, n + 1, Len(Rest))
  BY DroppedInFront DEF Rest, TypeInv, BytesOK
<1>2. Rest \in Seq(Byte) /\ n \in 0 .. Len(Rest) /\ Len(Rest) \in Nat  BY RestTyped
<1>3. /\ Rest' \in Seq(Byte) /\ Len(Rest') = Len(Rest) - n
      /\ \A i \in 1 .. Len(Rest) - n : Rest'[i] = Rest[i + n]
  BY <1>1, <1>2, Dropped
<1>4. Rest' = <<>> <=> Len(Rest') = 0  BY <1>3, EmptySeq
<1> QED  BY <1>1, <1>2, <1>3, <1>4
\* Where the reader is determines what follows: a recv at a header reads it whole.
LEMMA HeaderReceived ==
  ASSUME TypeInv, Stretch(Rest, sizes), HeadersWhole, Receive, NEW m \in 1 .. Len(sizes) + 1, AtHeader(m)
  PROVE  AtHeader(m)'
<1>1. UNCHANGED <<sizes, wire, part, size>>  BY DEF Receive
<1>2. PICK n \in Nat \ {0} :
        /\ n <= length /\ n <= Len(socket) /\ (n = length \/ n = Len(socket))
        /\ buffer' = Store(SubSeq(socket, 1, n), dataBuffer)
        /\ socket' = SubSeq(socket, n + 1, Len(socket))
        /\ length' = length - n
  BY BytesRead
<1>3. part = "header" /\ size = HeaderSize /\ length = HeaderSize /\ dataBuffer = 0 /\ Comes(m, "header", 1)
  BY <1>2 DEF AtHeader
<1>4. m \in 1 .. Len(sizes) /\ m # Len(sizes) + 1 /\ Rest # <<>>
      /\ Rest[1] = [msg |-> m, part |-> "header", at |-> 1]
  BY <1>2, <1>3, RestTyped DEF Comes
<1>5. /\ HeaderSize < Len(Rest)
      /\ \A j \in 1 .. HeaderSize : Rest[j] = [msg |-> m, part |-> "header", at |-> j]
      /\ Rest[HeaderSize + 1] = [msg |-> m, part |-> "payload", at |-> 1]
  BY <1>4, HeaderInFront
<1>6. n = HeaderSize
  <2>1. SUFFICES ASSUME n # HeaderSize PROVE FALSE  OBVIOUS
  <2>2. n = Len(socket) /\ n < HeaderSize  BY <1>2, <1>3, <2>1, RestTyped
  <2>3. n + 1 \in 1 .. HeaderSize /\ n + 1 \in 1 .. Len(Rest)  BY <1>5, <2>2, RestTyped
  <2>4. Rest[n + 1] = wire[1] /\ wire # <<>>
    <3>1. Rest[n + 1] = wire[n + 1 - Len(socket)]  BY <2>2, <2>3, RestTyped
    <3>2. n + 1 - Len(socket) = 1  BY <2>2
    <3>3. Len(wire) > 0  BY <1>5, <2>2, RestTyped
    <3> QED  BY <3>1, <3>2, <3>3, RestTyped
  <2>5. wire[1].part = "header" /\ wire[1].at = n + 1
    <3>1. Rest[n + 1] = [msg |-> m, part |-> "header", at |-> n + 1]  BY <1>5, <2>3
    <3> QED  BY <2>4, <3>1
  <2> QED  BY <1>2, <2>4, <2>5 DEF HeadersWhole
<1>7. buffer' = Header(m)
  <2> DEFINE b == SubSeq(socket, 1, n)
  <2>1. /\ DOMAIN b = 1 .. n
        /\ \A i \in 1 .. n : b[i] = socket[i]
    BY <1>2, RestTyped DEF TypeInv, BytesOK
  <2> HIDE DEF b
  <2>2. ASSUME NEW i \in 1 .. n  PROVE b[i] = [msg |-> m, part |-> "header", at |-> i]
    <3>1. i \in 1 .. Len(Rest) /\ i <= Len(socket) /\ i \in 1 .. HeaderSize
      BY <1>2, <1>5, <1>6, RestTyped
    <3>2. Rest[i] = socket[i]  BY <3>1, RestTyped
    <3> QED  BY <1>5, <2>1, <3>1, <3>2
  <2>3. buffer' = [i \in 1 .. HeaderSize |-> IF i - 0 \in DOMAIN b THEN b[i - 0] ELSE buffer[i]]
    BY <1>2, <1>3 DEF Store, b
  <2>4. \A i \in 1 .. HeaderSize : i - 0 = i /\ i \in DOMAIN b  BY <1>6, <2>1
  <2>5. buffer' = [i \in 1 .. HeaderSize |-> [msg |-> m, part |-> "header", at |-> i]]
    BY <1>6, <2>2, <2>3, <2>4
  <2> QED  BY <2>5 DEF Header, Bytes
<1>8. length' = 0  BY <1>2, <1>3, <1>6
<1>9. Comes(m, "payload", 1)'
  <2>1. n \in 0 .. Len(socket)  BY <1>2, RestTyped
  <2>2. Rest' # <<>> /\ Rest'[1] = Rest[1 + n]
    <3>1. n # Len(Rest) /\ 1 \in 1 .. Len(Rest) - n  BY <1>2, <1>5, <1>6, RestTyped
    <3> QED  BY <1>1, <1>2, <2>1, <3>1, RestDropped
  <2>3. 1 + n = HeaderSize + 1  BY <1>6, RestTyped
  <2> QED  BY <1>1, <1>4, <1>5, <2>2, <2>3 DEF Comes
<1> QED  BY <1>1, <1>3, <1>4, <1>7, <1>8, <1>9 DEF AtHeader, Header, Bytes

\* A recv at a payload goes on with it, and reads nothing of the next message.
LEMMA PayloadReceived ==
  ASSUME TypeInv, Stretch(Rest, sizes), Receive, NEW m \in 1 .. Len(sizes) + 1, AtPayload(m)
  PROVE  AtPayload(m)'
<1>1. UNCHANGED <<sizes, wire, part, size>>  BY DEF Receive
<1>2. PICK n \in Nat \ {0} :
        /\ n <= length /\ n <= Len(socket)
        /\ socket' = SubSeq(socket, n + 1, Len(socket))
        /\ length' = length - n /\ length \in Nat
  BY BytesRead
<1> DEFINE a == size - length + 1
<1>3. /\ part = "payload" /\ m \in 1 .. Len(sizes) /\ m # Len(sizes) + 1 /\ size = sizes[m] /\ length # 0
      /\ Rest # <<>> /\ Rest[1] = [msg |-> m, part |-> "payload", at |-> a]
      /\ size \in Nat
  <2>1. length # 0  BY <1>2
  <2>2. part = "payload" /\ m # Len(sizes) + 1 /\ size = sizes[m] /\ Comes(m, "payload", a)
    BY <2>1 DEF AtPayload
  <2>3. m \in 1 .. Len(sizes)  BY <2>2, RestTyped
  <2>4. size \in Nat  BY <2>2, <2>3, RestTyped
  <2> HIDE DEF a
  <2> QED  BY <2>1, <2>2, <2>3, <2>4 DEF Comes
<1>4. length = sizes[m] - a + 1  BY <1>2, <1>3
<1>5. /\ length <= Len(Rest) /\ a \in Nat
      /\ \A j \in 1 .. length : Rest[j] = [msg |-> m, part |-> "payload", at |-> a + j - 1]
      /\ IF m = Len(sizes) THEN length = Len(Rest)
         ELSE length < Len(Rest) /\ Rest[length + 1] = [msg |-> m + 1, part |-> "header", at |-> 1]
  <2>1. \A b : b = length => b = sizes[m] - a + 1  BY <1>4
  <2> HIDE DEF a
  <2> QED  BY <1>3, <2>1, PayloadInFront
<1>6. n \in 0 .. Len(socket)  BY <1>2, RestTyped
<1>7. /\ n # Len(Rest) => Rest' # <<>> /\ Rest'[1] = Rest[n + 1]
      /\ n = Len(Rest) => Rest' = <<>>
  <2>1. n # Len(Rest) => 1 \in 1 .. Len(Rest) - n  BY <1>2, <1>6, RestTyped
  <2>2. 1 + n = n + 1  BY <1>2
  <2> QED  BY <1>1, <1>2, <1>6, <2>1, <2>2, RestDropped
<1>8. CASE n = length
  <2>1. length' = 0  BY <1>2, <1>8
  <2>2. Comes(m + 1, "header", 1)'
    <3>1. CASE m = Len(sizes)
      BY <1>1, <1>5, <1>7, <1>8, <3>1 DEF Comes
    <3>2. CASE m # Len(sizes)
      <4>1. m + 1 # Len(sizes) + 1 /\ length # Len(Rest)  BY <1>3, <1>5, <3>2, RestTyped
      <4> QED  BY <1>1, <1>5, <1>7, <1>8, <3>2, <4>1 DEF Comes
    <3> QED  BY <3>1, <3>2
  <2> QED  BY <1>1, <1>3, <2>1, <2>2 DEF AtPayload
<1>9. CASE n # length
  <2>1. n < length /\ length' # 0 /\ n # Len(Rest) /\ n + 1 \in 1 .. length
    BY <1>2, <1>5, <1>9, RestTyped
  <2>2. a + (n + 1) - 1 = size - length' + 1  BY <1>2, <1>3
  <2>3. Rest'[1] = [msg |-> m, part |-> "payload", at |-> size - length' + 1] /\ Rest' # <<>>
    <3>1. Rest[n + 1] = [msg |-> m, part |-> "payload", at |-> a + (n + 1) - 1]  BY <1>5, <2>1
    <3> HIDE DEF a
    <3> QED  BY <1>7, <2>1, <2>2, <3>1
  <2> QED  BY <1>1, <1>3, <2>1, <2>3 DEF AtPayload, Comes
<1> QED  BY <1>8, <1>9

\* The header in the buffer says how long the payload after it is, and no message is empty.
LEMMA SizeUnderstood ==
  ASSUME TypeInv, HeaderRead, NEW m \in 1 .. Len(sizes), buffer = Header(m)
  PROVE  Start("payload", sizes[m])
<1>1. \A k : Header(k) = Header(m) => k = m
  <2>1. SUFFICES ASSUME NEW k, Header(k) = Header(m) PROVE k = m  OBVIOUS
  <2>2. 1 \in 1 .. HeaderSize  BY ConstantsTyped
  <2>3. Header(k)[1].msg = k /\ Header(m)[1].msg = m  BY <2>2 DEF Header, Bytes
  <2> QED  BY <2>1, <2>3
<1>2. m \in DOMAIN sizes /\ sizes[m] # 0
  BY RestTyped, LenProperties DEF TypeInv, TypeOK
<1>3. SizeRead = {sizes[m]}
  <2>1. { k \in DOMAIN sizes : buffer = Header(k) } = {m}  BY <1>1, <1>2
  <2> QED  BY <1>2, <2>1 DEF SizeRead
<1> QED  BY <1>2, <1>3 DEF HeaderRead

LEMMA PartRead ==
  ASSUME TypeInv, HeaderRead \/ PayloadRead, InStep
  PROVE  InStep'
<1>1. UNCHANGED <<sizes, wire, socket>> /\ Rest' = Rest  BY DEF HeaderRead, PayloadRead, Rest
<1>2. PICK m \in 1 .. Len(sizes) + 1 : AtHeader(m) \/ AtPayload(m)  BY DEF InStep
<1>3. Len(sizes) \in Nat /\ HeaderSize # 0  BY RestTyped
<1>4. CASE HeaderRead
  <2>1. buffer = Header(m) /\ m # Len(sizes) + 1 /\ Comes(m, "payload", 1)
    BY <1>2, <1>3, <1>4 DEF HeaderRead, AtHeader, AtPayload
  <2>2. m \in 1 .. Len(sizes)  BY <1>3, <2>1
  <2>3. Start("payload", sizes[m])  BY <1>4, <2>1, <2>2, SizeUnderstood
  <2>4. sizes[m] \in Nat \ {0} /\ sizes[m] - sizes[m] + 1 = 1  BY <2>2, RestTyped
  <2>5. AtPayload(m)'
    BY <1>1, <2>1, <2>3, <2>4 DEF AtPayload, Comes, Start
  <2> QED  BY <1>1, <2>5 DEF InStep
<1>5. CASE PayloadRead
  <2>1. m # Len(sizes) + 1 /\ Comes(m + 1, "header", 1)
    BY <1>2, <1>5 DEF PayloadRead, AtHeader, AtPayload
  <2>2. Start("header", HeaderSize)  BY <1>5 DEF PayloadRead
  <2>3. AtHeader(m + 1)'
    BY <1>1, <2>1, <2>2 DEF AtHeader, Comes, Start
  <2>4. m + 1 \in 1 .. Len(sizes') + 1  BY <1>1, <1>3, <2>1
  <2> QED  BY <2>3, <2>4 DEF InStep
<1> QED  BY <1>4, <1>5

\* What the sender adds comes after all that is to be read.
LEMMA RestSent ==
  ASSUME TypeInv, NEW n \in Sizes, Send(n)
  PROVE  /\ Len(Rest') = Len(Rest) + HeaderSize + n
         /\ \A i \in 1 .. Len(Rest) : Rest'[i] = Rest[i]
         /\ \A i \in 1 .. HeaderSize :
              Rest'[Len(Rest) + i] = [msg |-> Len(sizes) + 1, part |-> "header", at |-> i]
         /\ \A i \in 1 .. n :
              Rest'[Len(Rest) + HeaderSize + i] = [msg |-> Len(sizes) + 1, part |-> "payload", at |-> i]
         /\ Len(wire') = Len(wire) + HeaderSize + n
         /\ wire # <<>> => wire'[1] = wire[1]
         /\ wire = <<>> => wire'[1] = [msg |-> Len(sizes) + 1, part |-> "header", at |-> 1]
<1> DEFINE h == Header(Len(sizes'))
           p == Bytes(Len(sizes'), "payload", n)
<1>1. /\ sizes' = Append(sizes, n) /\ Len(sizes') = Len(sizes) + 1 /\ Len(sizes') \in Nat
      /\ wire' = (wire \o h) \o p /\ socket' = socket
      /\ n \in Nat \ {0} /\ HeaderSize \in Nat \ {0}
  BY SizesAppend DEF Send, TypeInv, TypeOK
<1>2. h \in Seq(Byte) /\ Len(h) = HeaderSize
      /\ \A i \in 1 .. HeaderSize : h[i] = [msg |-> Len(sizes) + 1, part |-> "header", at |-> i]
  BY <1>1, BytesSeq DEF Header
<1>3. p \in Seq(Byte) /\ Len(p) = n
      /\ \A i \in 1 .. n : p[i] = [msg |-> Len(sizes) + 1, part |-> "payload", at |-> i]
  BY <1>1, BytesSeq
<1> HIDE DEF h, p
<1>4. socket \in Seq(Byte) /\ wire \in Seq(Byte) /\ Rest \in Seq(Byte)  BY RestTyped DEF TypeInv, BytesOK
<1>5. Rest' = (Rest \o h) \o p
  <2>1. wire \o h \in Seq(Byte)  BY <1>2, <1>4, ConcatProperties
  <2>2. p \in Seq(Byte)  BY <1>3
  <2>3. h \in Seq(Byte)  BY <1>2
  <2>4. socket \in Seq(Byte)  BY <1>4
  <2>5. wire \in Seq(Byte)  BY <1>4
  <2>6. socket \o ((wire \o h) \o p) = (socket \o (wire \o h)) \o p
    <3> DEFINE begun == wire \o h
    <3>1. begun \in Seq(Byte)  BY <2>1
    <3> HIDE DEF begun
    <3>2. socket \o (begun \o p) = (socket \o begun) \o p
      BY ONLY <2>2, <2>4, <3>1, ConcatAssociative, SMT
    <3> QED  BY <3>2 DEF begun
  <2>7. socket \o (wire \o h) = (socket \o wire) \o h
    BY ONLY <2>3, <2>4, <2>5, ConcatAssociative, SMT
  <2> QED  BY <1>1, <2>6, <2>7 DEF Rest
<1>6. ASSUME NEW s \in Seq(Byte)
      PROVE  /\ Len((s \o h) \o p) = Len(s) + HeaderSize + n
             /\ \A i \in 1 .. Len(s) : ((s \o h) \o p)[i] = s[i]
             /\ \A i \in 1 .. HeaderSize : ((s \o h) \o p)[Len(s) + i] = h[i]
             /\ \A i \in 1 .. n : ((s \o h) \o p)[Len(s) + HeaderSize + i] = p[i]
             /\ Len(s) \in Nat /\ (s = <<>> <=> Len(s) = 0)
  <2> DEFINE sh == s \o h
  <2>1. /\ sh \in Seq(Byte) /\ Len(sh) = Len(s) + HeaderSize
        /\ \A i \in 1 .. Len(s) + HeaderSize : sh[i] = IF i <= Len(s) THEN s[i] ELSE h[i - Len(s)]
    <3>1. h \in Seq(Byte) /\ s \in Seq(Byte) /\ Len(h) = HeaderSize  BY <1>2
    <3> QED  BY ONLY <3>1, ConcatProperties
  <2> HIDE DEF sh
  <2> DEFINE shp == sh \o p
  <2>2. /\ Len(shp) = Len(sh) + n
        /\ \A i \in 1 .. Len(sh) + n : shp[i] = IF i <= Len(sh) THEN sh[i] ELSE p[i - Len(sh)]
    <3>1. sh \in Seq(Byte) /\ p \in Seq(Byte) /\ Len(p) = n  BY <1>3, <2>1
    <3> QED  BY ONLY <3>1, ConcatProperties
  <2> HIDE DEF shp
  <2>3. Len(s) \in Nat /\ (s = <<>> <=> Len(s) = 0)  BY LenProperties, EmptySeq
  <2>4. ASSUME NEW i \in 1 .. Len(s)  PROVE shp[i] = s[i]
    <3>1. i \in 1 .. Len(sh) + n /\ i <= Len(sh) /\ i \in 1 .. Len(s) + HeaderSize /\ i <= Len(s)
      BY <1>1, <2>1, <2>3
    <3> QED  BY <2>1, <2>2, <3>1
  <2>5. ASSUME NEW i \in 1 .. HeaderSize  PROVE shp[Len(s) + i] = h[i]
    <3>1. /\ Len(s) + i \in 1 .. Len(sh) + n /\ Len(s) + i <= Len(sh)
          /\ Len(s) + i \in 1 .. Len(s) + HeaderSize /\ ~(Len(s) + i <= Len(s))
          /\ (Len(s) + i) - Len(s) = i
      BY <1>1, <2>1, <2>3
    <3> QED  BY <2>1, <2>2, <3>1
  <2>6. ASSUME NEW i \in 1 .. n  PROVE shp[Len(s) + HeaderSize + i] = p[i]
    <3>1. /\ Len(s) + HeaderSize + i \in 1 .. Len(sh) + n /\ ~(Len(s) + HeaderSize + i <= Len(sh))
          /\ (Len(s) + HeaderSize + i) - Len(sh) = i
      BY <1>1, <2>1, <2>3
    <3> QED  BY <2>2, <3>1
  <2>7. Len(shp) = Len(s) + HeaderSize + n  BY <2>1, <2>2
  <2> QED  BY <2>3, <2>4, <2>5, <2>6, <2>7 DEF shp, sh
<1>7. /\ Len(Rest') = Len(Rest) + HeaderSize + n
      /\ \A i \in 1 .. Len(Rest) : Rest'[i] = Rest[i]
      /\ \A i \in 1 .. HeaderSize : Rest'[Len(Rest) + i] = h[i]
      /\ \A i \in 1 .. n : Rest'[Len(Rest) + HeaderSize + i] = p[i]
  BY <1>4, <1>5, <1>6
<1>8. /\ Len(wire') = Len(wire) + HeaderSize + n
      /\ \A i \in 1 .. Len(wire) : wire'[i] = wire[i]
      /\ \A i \in 1 .. HeaderSize : wire'[Len(wire) + i] = h[i]
      /\ Len(wire) \in Nat /\ (wire = <<>> <=> Len(wire) = 0)
  BY <1>1, <1>4, <1>6
<1>9. wire # <<>> => wire'[1] = wire[1]
  <2>1. wire # <<>> => 1 \in 1 .. Len(wire)  BY <1>8
  <2> QED  BY <1>8, <2>1
<1>10. wire = <<>> => wire'[1] = [msg |-> Len(sizes) + 1, part |-> "header", at |-> 1]
  <2>1. 1 \in 1 .. HeaderSize /\ 0 + 1 = 1  BY <1>1
  <2> QED  BY <1>2, <1>8, <2>1
<1> QED  BY <1>2, <1>3, <1>7, <1>8, <1>9, <1>10

LEMMA SendStep ==
  ASSUME TypeInv, StepInv, NEW n \in Sizes, Send(n)
  PROVE  StepInv'
<1>1. sizes' = Append(sizes, n) /\ UNCHANGED <<reader, torn>>  BY DEF Send
<1>2. Rest \in Seq(Byte) /\ Len(Rest) \in Nat /\ (Rest = <<>> <=> Len(Rest) = 0)  BY RestTyped
<1>3. Stretch(Rest', sizes')
  BY <1>1, <1>2, RestSent, StretchSent DEF TypeInv, TypeOK, StepInv
<1>4. ASSUME HeadersWhole PROVE HeadersWhole'
  BY <1>4, RestSent DEF HeadersWhole
<1>5. ASSUME InStep PROVE InStep'
  <2>1. PICK m \in 1 .. Len(sizes) + 1 : AtHeader(m) \/ AtPayload(m)  BY <1>5 DEF InStep
  <2>2. /\ Len(sizes) \in Nat /\ Len(sizes') = Len(sizes) + 1 /\ HeaderSize \in Nat \ {0} /\ n \in Nat \ {0}
        /\ \A k \in 1 .. Len(sizes) : sizes'[k] = sizes[k]
    BY <1>1, SizesAppend DEF TypeInv, TypeOK
  <2>3. Rest' # <<>>
    <3>1. Rest' \in Seq(Byte)
      <4>1. TypeInv'  BY TypeStep DEF Next
      <4> QED  BY <4>1, ConcatProperties DEF TypeInv, BytesOK, Rest
    <3>2. Len(Rest') > 0  BY <1>2, <2>2, RestSent
    <3> QED  BY <3>1, <3>2, EmptySeq
  <2>4. ASSUME NEW k \in 1 .. Len(sizes), NEW p, NEW a, Comes(k, p, a)
        PROVE  k # Len(sizes') + 1 /\ Comes(k, p, a)'
    <3>1. k # Len(sizes) + 1 /\ k # Len(sizes') + 1  BY <2>2
    <3>2. Rest # <<>> /\ Rest[1] = [msg |-> k, part |-> p, at |-> a]  BY <2>4, <3>1 DEF Comes
    <3>3. Rest'[1] = Rest[1]
      <4>1. 1 \in 1 .. Len(Rest)  BY <1>2, <3>2
      <4> QED  BY <4>1, RestSent
    <3> QED  BY <2>3, <3>1, <3>2, <3>3 DEF Comes
  <2>5. ASSUME Comes(Len(sizes) + 1, "header", 1)
        PROVE  Len(sizes) + 1 # Len(sizes') + 1 /\ Rest'[1] = [msg |-> Len(sizes) + 1, part |-> "header", at |-> 1]
    <3>1. Len(Rest) = 0  BY <1>2, <2>5 DEF Comes
    <3>2. 1 \in 1 .. HeaderSize /\ 0 + 1 = 1  BY <2>2
    <3>3. Rest'[0 + 1] = [msg |-> Len(sizes) + 1, part |-> "header", at |-> 1]  BY <3>1, <3>2, RestSent
    <3> QED  BY <2>2, <3>3
  <2>6. ASSUME NEW k \in 1 .. Len(sizes) + 1, Comes(k, "header", 1)  PROVE Comes(k, "header", 1)'
    <3>1. CASE k = Len(sizes) + 1
      BY <2>3, <2>5, <2>6, <3>1 DEF Comes
    <3>2. CASE k # Len(sizes) + 1
      <4>1. k \in 1 .. Len(sizes)  BY <2>2, <3>2
      <4> QED  BY <2>4, <2>6, <4>1
    <3> QED  BY <3>1, <3>2
  <2>7. CASE AtHeader(m)
    <3>1. AtHeader(m)'
      <4>1. CASE length = HeaderSize /\ dataBuffer = 0 /\ Comes(m, "header", 1)
        BY <1>1, <2>1, <2>6, <2>7, <4>1 DEF AtHeader, reader
      <4>2. CASE length = 0 /\ m # Len(sizes) + 1 /\ buffer = Header(m) /\ Comes(m, "payload", 1)
        <5>1. m \in 1 .. Len(sizes)  BY <2>1, <2>2, <4>2
        <5>2. m # Len(sizes') + 1 /\ Comes(m, "payload", 1)'  BY <2>4, <4>2, <5>1
        <5> QED  BY <1>1, <2>7, <4>2, <5>2 DEF AtHeader, reader, Header, Bytes
      <4> QED  BY <2>7, <4>1, <4>2 DEF AtHeader
    <3>2. m \in 1 .. Len(sizes') + 1  BY <2>1, <2>2
    <3> QED  BY <3>1, <3>2 DEF InStep
  <2>8. CASE AtPayload(m)
    <3>1. m \in 1 .. Len(sizes) /\ m # Len(sizes') + 1 /\ sizes'[m] = sizes[m] /\ m + 1 \in 1 .. Len(sizes) + 1
      BY <2>1, <2>2, <2>8 DEF AtPayload
    <3>2. CASE length = 0
      <4>1. Comes(m + 1, "header", 1)'  BY <2>6, <2>8, <3>1, <3>2 DEF AtPayload
      <4> QED  BY <1>1, <2>2, <2>8, <3>1, <3>2, <4>1 DEF AtPayload, reader, InStep
    <3>3. CASE length # 0
      <4>1. Comes(m, "payload", size - length + 1)'
        BY <1>1, <2>4, <2>8, <3>1, <3>3 DEF AtPayload, reader
      <4> QED  BY <1>1, <2>2, <2>8, <3>1, <3>3, <4>1 DEF AtPayload, reader, InStep
    <3> QED  BY <3>2, <3>3
  <2> QED  BY <2>1, <2>7, <2>8
<1> QED  BY <1>1, <1>3, <1>4, <1>5 DEF StepInv

\* The network moves the boundary within what is to be read, and tears a header or does not.
LEMMA ArriveStep ==
  ASSUME TypeInv, StepInv, NEW n \in 1 .. Len(wire), Arrive(n)
  PROVE  StepInv'
<1>1. /\ UNCHANGED <<sizes, reader>> /\ wire' = SubSeq(wire, n + 1, Len(wire))
      /\ socket' = socket \o SubSeq(wire, 1, n)
  BY DEF Arrive
<1>2. n \in 0 .. Len(wire) /\ n \in 1 .. Len(wire) /\ Len(wire) \in Nat  BY RestTyped
<1>3. Rest' = Rest
  BY <1>1, <1>2, BoundaryMoved DEF Rest, TypeInv, BytesOK
<1>4. ASSUME ~torn' PROVE ~torn /\ HeadersWhole'
  <2>1. ~torn /\ ~(n < Len(wire) /\ wire[n + 1].part = "header" /\ wire[n + 1].at > 1)
    BY <1>4 DEF Arrive, TypeInv, TypeOK
  <2>2. /\ wire' \in Seq(Byte) /\ Len(wire') = Len(wire) - n
        /\ \A i \in 1 .. Len(wire) - n : wire'[i] = wire[i + n]
    BY <1>1, <1>2, Dropped DEF TypeInv, BytesOK
  <2>3. CASE n < Len(wire)
    <3>1. 1 \in 1 .. Len(wire) - n /\ 1 + n = n + 1  BY <1>2, <2>3
    <3>2. wire'[1] = wire[n + 1]  BY <2>2, <3>1
    <3> QED  BY <2>1, <2>3, <3>2 DEF HeadersWhole
  <2>4. CASE ~(n < Len(wire))
    <3>1. Len(wire') = 0  BY <1>2, <2>2, <2>4
    <3>2. wire' = <<>>  BY <2>2, <3>1, EmptySeq
    <3> QED  BY <2>1, <3>2 DEF HeadersWhole
  <2> QED  BY <2>3, <2>4
<1>5. InStep => InStep'
  BY <1>1, <1>3 DEF reader, InStep, AtHeader, AtPayload, Comes, Header, Bytes
<1>6. Stretch(Rest', sizes')  BY <1>1, <1>3 DEF StepInv
<1> QED  BY <1>4, <1>5, <1>6 DEF StepInv

LEMMA ReceiveStep ==
  ASSUME TypeInv, StepInv, Receive
  PROVE  StepInv'
<1>1. PICK n \in Nat \ {0} : n <= Len(socket) /\ socket' = SubSeq(socket, n + 1, Len(socket))
  BY BytesRead
<1>2. UNCHANGED <<sizes, wire, torn>>  BY DEF Receive
<1>3. n \in 0 .. Len(socket)  BY <1>1, RestTyped
<1>4. Stretch(Rest', sizes')
  <2>1. Rest' = SubSeq(Rest, n + 1, Len(Rest))  BY <1>1, <1>2, <1>3, RestDropped
  <2>2. n \in 0 .. Len(Rest) /\ Rest \in Seq(Byte)  BY <1>3, RestTyped
  <2>3. \A i \in 1 .. Len(Rest) : Limit(Rest[i], sizes) \in Nat /\ Rest[i].at \in Nat
    <3>1. SUFFICES ASSUME NEW i \in 1 .. Len(Rest)
                   PROVE  Limit(Rest[i], sizes) \in Nat /\ Rest[i].at \in Nat
      OBVIOUS
    <3>2. Rest[i].msg \in 1 .. Len(sizes) /\ Rest[i].at \in 1 .. Limit(Rest[i], sizes)
      BY <3>1 DEF StepInv, Stretch
    <3>3. Limit(Rest[i], sizes) \in Nat  BY <3>2, RestTyped DEF Limit
    <3> QED  BY <3>2, <3>3
  <2>4. Stretch(SubSeq(Rest, n + 1, Len(Rest)), sizes)
    BY <2>2, <2>3, StretchDropped DEF StepInv
  <2> QED  BY <1>2, <2>1, <2>4
<1>5. ASSUME HeadersWhole PROVE HeadersWhole'  BY <1>2, <1>5 DEF HeadersWhole
<1>6. ASSUME HeadersWhole, InStep PROVE InStep'
  <2>1. PICK m \in 1 .. Len(sizes) + 1 : AtHeader(m) \/ AtPayload(m)  BY <1>6 DEF InStep
  <2>2. AtHeader(m)' \/ AtPayload(m)'
    BY <1>6, <2>1, HeaderReceived, PayloadReceived DEF StepInv
  <2> QED  BY <1>2, <2>2 DEF InStep
<1> QED  BY <1>2, <1>4, <1>5, <1>6 DEF StepInv

LEMMA InitStep == Init => StepInv
<1> SUFFICES ASSUME Init PROVE StepInv  OBVIOUS
<1>1. Rest = <<>> /\ Len(Rest) = 0  BY DEF Init, Rest
<1>2. Stretch(Rest, sizes)  BY <1>1 DEF Stretch
<1>3. HeadersWhole  BY DEF Init, HeadersWhole
<1>4. InStep
  <2>1. Len(sizes) = 0 /\ 1 \in 1 .. Len(sizes) + 1 /\ 1 = Len(sizes) + 1  BY DEF Init
  <2>2. AtHeader(1)  BY <1>1, <2>1 DEF Init, AtHeader, Comes
  <2> QED  BY <2>1, <2>2 DEF InStep
<1> QED  BY <1>2, <1>3, <1>4 DEF StepInv

LEMMA StepStep ==
  ASSUME TypeInv, StepInv, [Next]_vars
  PROVE  StepInv'
<1>1. CASE HeaderRead \/ PayloadRead
  <2>1. Rest' = Rest /\ UNCHANGED <<sizes, wire, torn>>
    BY <1>1 DEF HeaderRead, PayloadRead, Rest
  <2> QED  BY <1>1, <2>1, PartRead DEF StepInv, HeadersWhole
<1>2. CASE UNCHANGED vars
  <2>1. UNCHANGED <<sizes, reader, torn, wire>> /\ Rest' = Rest
    BY <1>2 DEF vars, reader, Rest
  <2> QED  BY <2>1 DEF reader, StepInv, HeadersWhole, InStep, AtHeader, AtPayload, Comes, Header, Bytes
<1> QED  BY <1>1, <1>2, ReceiveStep, SendStep, ArriveStep DEF Next

\* A reader who is in step starts on a header at a header's first byte.
LEMMA StepAligned == TypeInv /\ StepInv => Aligned
<1> SUFFICES ASSUME TypeInv, StepInv, ~torn, part = "header", length = HeaderSize, Rest # <<>>
             PROVE  Rest[1].part = "header" /\ Rest[1].at = 1
  BY DEF Aligned, Rest
<1>1. PICK m \in 1 .. Len(sizes) + 1 : AtHeader(m) \/ AtPayload(m)  BY DEF StepInv, InStep
<1>2. HeaderSize # 0  BY RestTyped
<1>3. Comes(m, "header", 1)  BY <1>1, <1>2 DEF AtHeader, AtPayload
<1> QED  BY <1>3 DEF Comes

\* However payloads of any sizes are cut into pieces, every header is read from its first byte on
\* as long as no header is itself cut: the loop in read_bytes_from_tcpsocket reads all of a part
\* and nothing of the next.
THEOREM ReaderAligned == Spec => []Aligned
<1>1. TypeInv /\ StepInv /\ [Next]_vars => (TypeInv /\ StepInv)'  BY TypeStep, StepStep
<1>2. Spec => [](TypeInv /\ StepInv)  BY <1>1, InitType, InitStep, PTL DEF Spec
<1> QED  BY <1>2, StepAligned, PTL
=============================================================================
