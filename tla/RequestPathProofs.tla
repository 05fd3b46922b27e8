------------------------- MODULE RequestPathProofs -------------------------
(***************************************************************************)
(* TLAPS proofs about a request on its way: for all requests, handles and  *)
(* numbers of the dongle, what is asked of the dongle is legal and is what *)
(* was meant, and the answer is true and tells of every change.            *)
(*                                                                         *)
(* First the checks of the parameters, the fields of the messages and the  *)
(* reading of headers; then the invariants of the path: PathInv (every     *)
(* value fits), OursInv (what is under way belongs to the request),        *)
(* ToldInv (what an answer tells of changes), LinkInv (the links are what  *)
(* the driver is about to know), OnDeviceInv (a command meets its device)  *)
(* and TruthInv (what the messages under way say of a command is so).      *)
(***************************************************************************)
EXTENDS RequestPath, FiniteSetTheorems, WellFoundedInduction, TLAPS

\* Every set of numbers has a least one.
LEMMA LeastNumber ==
  ASSUME NEW T \in SUBSET Nat, T # {}
  PROVE  \E k \in T : \A j \in T : ~(j < k)
<1>1. PICK k \in T : \A j \in T : ~(<<j, k>> \in OpToRel(<, Nat))
  BY WFMin, NatLessThanWellFounded
<1>2. ASSUME NEW j \in T PROVE ~(j < k)
  BY <1>1 DEF OpToRel
<1> QED  BY <1>2

\* A set that has 0, and with each number below n the next one, has all of them.
LEMMA NumbersUpTo ==
  ASSUME NEW n \in Nat, NEW S, 0 \in S, \A k \in 0 .. n - 1 : k \in S => k + 1 \in S
  PROVE  0 .. n \subseteq S
<1> DEFINE T == (0 .. n) \ S
<1>1. SUFFICES ASSUME T # {} PROVE FALSE
  OBVIOUS
<1>2. T \subseteq Nat
  OBVIOUS
<1>3. PICK k \in T : \A j \in T : ~(j < k)
  BY <1>1, <1>2, LeastNumber
<1>4. k \in 1 .. n /\ k - 1 \in 0 .. n - 1
  OBVIOUS
<1>5. k - 1 \in S
  BY <1>3, <1>4
<1>6. (k - 1) + 1 \in S
  BY <1>4, <1>5
<1> QED  BY <1>4, <1>6

LEMMA MaxOf ==
  ASSUME NEW n \in Nat, NEW s \in SUBSET (1 .. n), n \in s
  PROVE  Max(s) = n
<1>1. n \in s /\ \A y \in s : n >= y
  OBVIOUS
<1>2. ASSUME NEW x \in s, \A y \in s : x >= y PROVE x = n
  BY <1>2
<1> QED  BY <1>1, <1>2 DEF Max

LEMMA MaxIn ==
  ASSUME NEW n \in Nat, NEW s \in SUBSET (1 .. n), s # {}
  PROVE  Max(s) \in s /\ Max(s) \in 1 .. n
<1> DEFINE T == {m \in Nat : s \subseteq 1 .. m}
<1>1. PICK m \in T : \A j \in T : ~(j < m)
  <2>1. n \in T /\ T \in SUBSET Nat
    OBVIOUS
  <2> QED  BY <2>1, LeastNumber
<1>2. m # 0
  <2>1. PICK x \in s : TRUE
    OBVIOUS
  <2>2. x \in 1 .. m
    OBVIOUS
  <2> QED  BY <2>2
<1>3. m \in s
  <2>1. SUFFICES ASSUME m \notin s PROVE FALSE
    OBVIOUS
  <2>2. m - 1 \in T
    BY <1>2, <2>1
  <2> QED  BY <1>1, <2>2
<1>4. Max(s) = m
  BY <1>3, MaxOf
<1> QED  BY <1>3, <1>4

LEMMA UpTo ==
  ASSUME NEW n \in Nat
  PROVE  /\ 1 .. 0 = {} /\ 1 .. n + 1 # {} /\ Max(1 .. n + 1) = n + 1 /\ (1 .. n + 1) \ {n + 1} = 1 .. n
<1>1. Max(1 .. n + 1) = n + 1
  BY MaxOf, n + 1 \in Nat, n + 1 \in 1 .. n + 1
<1> QED  BY <1>1

\* A fold from the left has a value for every set of indexes.
FoldOn(n, base, F, it) ==
  it = [s \in SUBSET (1 .. n) |-> IF s = {} THEN base ELSE F[<<it[s \ {Max(s)}], Max(s)>>]]

Folds(n, A, base, F) == \E it \in [SUBSET (1 .. n) -> A] : FoldOn(n, base, F, it)

LEMMA FoldExists ==
  ASSUME NEW A, NEW base \in A, NEW n \in Nat, NEW F \in [A \X (1 .. n) -> A]
  PROVE  Folds(n, A, base, F)
<1> DEFINE S == {k \in 0 .. n : Folds(k, A, base, F)}
<1>1. 0 \in S
  <2> DEFINE it == [s \in SUBSET (1 .. 0) |-> base]
  <2>1. it \in [SUBSET (1 .. 0) -> A]
    OBVIOUS
  <2>2. FoldOn(0, base, F, it)
    <3>1. \A s \in SUBSET (1 .. 0) : s = {}
      OBVIOUS
    <3> QED  BY <3>1 DEF FoldOn
  <2> QED  BY <2>1, <2>2 DEF Folds
<1>2. ASSUME NEW k \in 0 .. n - 1, k \in S PROVE k + 1 \in S
  <2>1. PICK g \in [SUBSET (1 .. k) -> A] : FoldOn(k, base, F, g)
    BY <1>2 DEF Folds
  <2> DEFINE it == [s \in SUBSET (1 .. k + 1) |-> IF k + 1 \in s THEN F[<<g[s \ {k + 1}], k + 1>>] ELSE g[s]]
  <2>2. \A s \in SUBSET (1 .. k + 1) : IF k + 1 \in s THEN s \ {k + 1} \in SUBSET (1 .. k) ELSE s \in SUBSET (1 .. k)
    OBVIOUS
  <2>3. it \in [SUBSET (1 .. k + 1) -> A]
    <3>1. ASSUME NEW s \in SUBSET (1 .. k + 1) PROVE it[s] \in A
      <4>1. CASE k + 1 \in s
        <5>1. g[s \ {k + 1}] \in A /\ k + 1 \in 1 .. n
          BY <2>2, <4>1
        <5> QED  BY <4>1, <5>1
      <4>2. CASE k + 1 \notin s
        BY <2>2, <4>2
      <4> QED  BY <4>1, <4>2
    <3> QED  BY <3>1
  <2>4. ASSUME NEW s \in SUBSET (1 .. k + 1)
        PROVE it[s] = IF s = {} THEN base ELSE F[<<it[s \ {Max(s)}], Max(s)>>]
    <3>1. CASE k + 1 \in s
      <4>1. Max(s) = k + 1
        BY <3>1, MaxOf, k + 1 \in Nat
      <4>2. it[s \ {k + 1}] = g[s \ {k + 1}]
        OBVIOUS
      <4> QED  BY <3>1, <4>1, <4>2
    <3>2. CASE k + 1 \notin s
      <4>1. s \in SUBSET (1 .. k) /\ it[s] = g[s]
        BY <2>2, <3>2
      <4>2. g[s] = IF s = {} THEN base ELSE F[<<g[s \ {Max(s)}], Max(s)>>]
        BY <2>1, <4>1 DEF FoldOn
      <4>3. s \ {Max(s)} \in SUBSET (1 .. k + 1) /\ k + 1 \notin s \ {Max(s)}
        BY <3>2
      <4>4. it[s \ {Max(s)}] = g[s \ {Max(s)}]
        BY <4>3
      <4> QED  BY <4>1, <4>2, <4>4, SMTT(60)
    <3> QED  BY <3>1, <3>2
  <2>5. FoldOn(k + 1, base, F, it)
    <3> HIDE DEF it
    <3>1. it = [s \in SUBSET (1 .. k + 1) |-> it[s]]
      BY <2>3
    <3> QED  BY <2>4, <3>1 DEF FoldOn
  <2>6. Folds(k + 1, A, base, F)
    <3> HIDE DEF it
    <3> QED  BY <2>3, <2>5 DEF Folds
  <2>7. k + 1 \in 0 .. n
    OBVIOUS
  <2> QED  BY <2>6, <2>7
<1>3. n \in S
  <2>1. 0 .. n \subseteq S
    <3> HIDE DEF S
    <3> QED  BY <1>1, <1>2, NumbersUpTo
  <2>2. n \in 0 .. n
    OBVIOUS
  <2> QED  BY <2>1, <2>2, Zenon
<1> QED  BY <1>3
\* ... and the values for the first indexes are the states of the loop.
Loop(n, A, base, F, last) ==
  \E h \in [0 .. n -> A] : h[0] = base /\ h[n] = last /\ \A k \in 0 .. n - 1 : h[k + 1] = F[<<h[k], k + 1>>]

LEMMA FoldIsLoop ==
  ASSUME NEW A, NEW base \in A, NEW n \in Nat, NEW F \in [A \X (1 .. n) -> A], NEW it,
         it[{}] = base,
         \A s \in SUBSET (1 .. n) : s # {} /\ it[s \ {Max(s)}] \in A => it[s] = F[<<it[s \ {Max(s)}], Max(s)>>]
  PROVE  Loop(n, A, base, F, it[1 .. n])
<1> DEFINE h == [k \in 0 .. n |-> it[1 .. k]]
<1>1. h[0] = base
  BY UpTo
<1>2. ASSUME NEW k \in 0 .. n - 1, h[k] \in A PROVE h[k + 1] = F[<<h[k], k + 1>>]
  <2>1. 1 .. k + 1 \in SUBSET (1 .. n) /\ k \in 0 .. n /\ k + 1 \in 0 .. n /\ k \in Nat
    OBVIOUS
  <2>2. 1 .. k + 1 # {} /\ Max(1 .. k + 1) = k + 1 /\ (1 .. k + 1) \ {k + 1} = 1 .. k
    BY <2>1, UpTo
  <2>3. it[1 .. k] \in A
    BY <1>2, <2>1
  <2>4. it[1 .. k + 1] = F[<<it[1 .. k], k + 1>>]
    BY <2>1, <2>2, <2>3
  <2> QED  BY <2>1, <2>4
<1>3. DOMAIN h = 0 .. n /\ h = [k \in 0 .. n |-> h[k]] /\ h[n] = it[1 .. n]
  OBVIOUS
<1> HIDE DEF h
<1> DEFINE S == {k \in 0 .. n : h[k] \in A}
<1>4. 0 .. n \subseteq S
  <2>1. 0 \in S
    BY <1>1
  <2>2. ASSUME NEW k \in 0 .. n - 1, k \in S PROVE k + 1 \in S
    <3>1. F[<<h[k], k + 1>>] \in A
      BY <2>2, k + 1 \in 1 .. n
    <3> QED  BY <1>2, <2>2, <3>1
  <2> HIDE DEF S
  <2> QED  BY <2>1, <2>2, NumbersUpTo
<1>5. h \in [0 .. n -> A]
  BY <1>3, <1>4
<1>6. \A k \in 0 .. n - 1 : h[k + 1] = F[<<h[k], k + 1>>]
  <2>1. ASSUME NEW k \in 0 .. n - 1 PROVE h[k] \in A
    BY <1>4, k \in 0 .. n
  <2> QED  BY <1>2, <2>1
<1> QED  BY <1>1, <1>3, <1>5, <1>6 DEF Loop

LEMMA SizeReadSteps ==
  ASSUME NEW header, NEW n \in Nat, DOMAIN header = 1 .. n, \A i \in 1 .. n : SignedChar(header[i]) \in Int
  PROVE  \E h \in [0 .. n -> Int] :
           /\ h[0] = 0 /\ \A k \in 0 .. n - 1 : h[k + 1] = h[k] * 256 + SignedChar(header[k + 1])
           /\ SizeRead(header) = h[n]
<1> DEFINE F == [p \in Int \X (1 .. n) |-> p[1] * 256 + SignedChar(header[p[2]])]
           Unfold(f) == [s \in SUBSET DOMAIN header |->
                        IF s = {} THEN 0 ELSE f[s \ {Max(s)}] * 256 + SignedChar(header[Max(s)])]
           it == CHOOSE f : f = Unfold(f)
<1>1. F \in [Int \X (1 .. n) -> Int] /\ \A a \in Int, i \in 1 .. n : F[<<a, i>>] = a * 256 + SignedChar(header[i])
  BY SMTT(60)
<1>2. PICK g \in [SUBSET (1 .. n) -> Int] : FoldOn(n, 0, F, g)
  <2> HIDE DEF F
  <2> QED  BY <1>1, FoldExists, 0 \in Int DEF Folds
<1>3. g = Unfold(g)
  <2>1. ASSUME NEW s \in SUBSET (1 .. n), s # {}
        PROVE F[<<g[s \ {Max(s)}], Max(s)>>] = g[s \ {Max(s)}] * 256 + SignedChar(header[Max(s)])
    <3>1. g[s \ {Max(s)}] \in Int /\ Max(s) \in 1 .. n
      BY <2>1, MaxIn
    <3> QED  BY <1>1, <3>1
  <2> HIDE DEF F
  <2> QED BY <1>2, <2>1, ZenonT(60) DEF FoldOn
<1>4. it = Unfold(it)
  BY <1>3, ZenonT(60)
<1>5. SizeRead(header) = it[1 .. n]
  BY DEF SizeRead, FoldLeft, MapThenFoldSet
<1> HIDE DEF F, it
<1>6. it[{}] = 0
  BY <1>4
<1>7. ASSUME NEW s \in SUBSET (1 .. n), s # {}, it[s \ {Max(s)}] \in Int
      PROVE  it[s] = F[<<it[s \ {Max(s)}], Max(s)>>]
  <2>1. Max(s) \in 1 .. n
    BY <1>7, MaxIn
  <2> QED  BY <1>1, <1>4, <1>7, <2>1, ZenonT(60)
<1>8. Loop(n, Int, 0, F, it[1 .. n])
  <2> HIDE DEF Unfold
  <2>1. F \in [Int \X (1 .. n) -> Int] /\ 0 \in Int
    BY <1>1
  <2> QED  BY <2>1, <1>6, <1>7, FoldIsLoop
<1>9. PICK h \in [0 .. n -> Int] : h[0] = 0 /\ h[n] = it[1 .. n] /\ \A k \in 0 .. n - 1 : h[k + 1] = F[<<h[k], k + 1>>]
  BY <1>8 DEF Loop
<1>10. \A k \in 0 .. n - 1 : h[k + 1] = h[k] * 256 + SignedChar(header[k + 1])
  <2> TAKE k \in 0 .. n - 1
  <2>1. h[k] \in Int /\ k + 1 \in 1 .. n
    BY k \in 0 .. n
  <2>2. F[<<h[k], k + 1>>] = h[k] * 256 + SignedChar(header[k + 1])
    BY <1>1, <2>1, SMTT(60)
  <2> QED  BY <1>9, <2>2
<1> QED  BY <1>5, <1>9, <1>10, ZenonT(60)

LEMMA SizeReadFour ==
  ASSUME NEW b \in Int, 0 <= b, b <= 127
  PROVE  SizeRead(<<0, 0, 0, b>>) = b
<1> DEFINE header == <<0, 0, 0, b>>
<1>1. header[1] = 0 /\ header[2] = 0 /\ header[3] = 0 /\ header[4] = b /\ DOMAIN header = 1 .. 4
  OBVIOUS
<1>2. SignedChar(0) = 0 /\ SignedChar(b) = b
  BY DEF SignedChar
<1> HIDE DEF header
<1>3. \A i \in 1 .. 4 : SignedChar(header[i]) \in Int
  <2>1. ASSUME NEW i \in 1 .. 4 PROVE i = 1 \/ i = 2 \/ i = 3 \/ i = 4
    OBVIOUS
  <2> QED  BY <1>1, <1>2, <2>1
<1>4. PICK h \in [0 .. 4 -> Int] :
         /\ h[0] = 0 /\ \A k \in 0 .. 3 : h[k + 1] = h[k] * 256 + SignedChar(header[k + 1])
         /\ SizeRead(header) = h[4]
  <2>1. PICK n \in Nat : n = 4
    OBVIOUS
  <2>2. PICK h \in [0 .. n -> Int] :
         /\ h[0] = 0 /\ \A k \in 0 .. n - 1 : h[k + 1] = h[k] * 256 + SignedChar(header[k + 1])
         /\ SizeRead(header) = h[n]
    <3>1. DOMAIN header = 1 .. n /\ \A i \in 1 .. n : SignedChar(header[i]) \in Int
      BY <1>1, <1>3, <2>1
    <3> QED  BY <3>1, SizeReadSteps, ZenonT(60)
  <2>3. n - 1 = 3
    BY <2>1
  <2> QED  BY <2>1, <2>2, <2>3
<1>5. h[1] = 0
  BY <1>1, <1>2, <1>4, 0 \in 0 .. 3, 0 + 1 = 1
<1>6. h[2] = 0
  BY <1>1, <1>2, <1>4, <1>5, 1 \in 0 .. 3, 1 + 1 = 2
<1>7. h[3] = 0
  BY <1>1, <1>2, <1>4, <1>6, 2 \in 0 .. 3, 2 + 1 = 3
<1>8. h[4] = b
  BY <1>1, <1>2, <1>4, <1>7, 3 \in 0 .. 3, 3 + 1 = 4
<1> QED  BY <1>4, <1>8 DEF header

\* A message of at most 127 bytes has the size that its header tells.
LEMMA SizeReadRight ==
  ASSUME NEW size \in 0 .. 127
  PROVE  SizeRead(HeaderOf(size)) = size
<1>1. HeaderOf(size) = <<0, 0, 0, size>>
  BY SMT DEF HeaderOf
<1> QED  BY <1>1, SizeReadFour

\* MessageSize adds up the fields one after another.
LEMMA MessageSizeSteps ==
  ASSUME NEW m, NEW n \in Nat, DOMAIN m.types = 1 .. n, \A i \in 1 .. n : FieldSize(m, i) \in Int
  PROVE  \E h \in [0 .. n -> Int] :
           /\ h[0] = 0 /\ \A k \in 0 .. n - 1 : h[k + 1] = h[k] + FieldSize(m, k + 1)
           /\ MessageSize(m) = 12 + h[n]
<1> DEFINE indexes == [i \in DOMAIN m.types |-> i]
           F == [p \in Int \X (1 .. n) |-> p[1] + FieldSize(m, p[2])]
           Unfold(f) == [s \in SUBSET DOMAIN indexes |->
                        IF s = {} THEN 0 ELSE f[s \ {Max(s)}] + FieldSize(m, indexes[Max(s)])]
           it == CHOOSE f : f = Unfold(f)
<1>0. DOMAIN indexes = 1 .. n /\ \A i \in 1 .. n : indexes[i] = i
  OBVIOUS
<1>1. F \in [Int \X (1 .. n) -> Int] /\ \A a \in Int, i \in 1 .. n : F[<<a, i>>] = a + FieldSize(m, i)
  BY SMTT(60)
<1>2. PICK g \in [SUBSET (1 .. n) -> Int] : FoldOn(n, 0, F, g)
  <2> HIDE DEF F
  <2> QED  BY <1>1, FoldExists, 0 \in Int DEF Folds
<1>3. g = Unfold(g)
  <2>1. ASSUME NEW s \in SUBSET (1 .. n), s # {}
        PROVE F[<<g[s \ {Max(s)}], Max(s)>>] = g[s \ {Max(s)}] + FieldSize(m, indexes[Max(s)])
    <3>1. g[s \ {Max(s)}] \in Int /\ Max(s) \in 1 .. n
      BY <2>1, MaxIn
    <3> QED  BY <1>0, <1>1, <3>1
  <2> HIDE DEF F, indexes
  <2> QED BY <1>0, <1>2, <2>1 DEF FoldOn
<1>4. it = Unfold(it)
  BY <1>3, ZenonT(60)
<1>5. MessageSize(m) = 12 + it[1 .. n]
  BY DEF MessageSize, FoldLeft, MapThenFoldSet
<1> HIDE DEF F, it, indexes
<1>6. it[{}] = 0
  BY <1>0, <1>4
<1>7. ASSUME NEW s \in SUBSET (1 .. n), s # {}, it[s \ {Max(s)}] \in Int
      PROVE  it[s] = F[<<it[s \ {Max(s)}], Max(s)>>]
  <2>1. Max(s) \in 1 .. n
    BY <1>7, MaxIn
  <2>2. it[s] = it[s \ {Max(s)}] + FieldSize(m, Max(s))
    BY <1>0, <1>4, <1>7, <2>1, ZenonT(60)
  <2> QED  BY <1>1, <1>7, <2>1, <2>2
<1>8. Loop(n, Int, 0, F, it[1 .. n])
  <2> HIDE DEF Unfold
  <2>1. F \in [Int \X (1 .. n) -> Int] /\ 0 \in Int
    BY <1>1
  <2> QED  BY <2>1, <1>6, <1>7, FoldIsLoop
<1>9. PICK h \in [0 .. n -> Int] : h[0] = 0 /\ h[n] = it[1 .. n] /\ \A k \in 0 .. n - 1 : h[k + 1] = F[<<h[k], k + 1>>]
  BY <1>8 DEF Loop
<1>10. \A k \in 0 .. n - 1 : h[k + 1] = h[k] + FieldSize(m, k + 1)
  <2> TAKE k \in 0 .. n - 1
  <2>1. h[k] \in Int /\ k + 1 \in 1 .. n
    BY k \in 0 .. n
  <2>2. F[<<h[k], k + 1>>] = h[k] + FieldSize(m, k + 1)
    BY <1>1, <2>1
  <2> QED  BY <1>9, <2>2
<1> QED  BY <1>5, <1>9, <1>10

\* No message has more than eight fields; an address is its first and a buffer its last one.
Types == {"c", "v", "A", "B"}
Shape(types) ==
  /\ types \in Seq(Types) /\ Len(types) <= 8
  /\ \A i \in 1 .. Len(types) : (types[i] = "A" => i = 1) /\ (types[i] = "B" => i = Len(types))

LEMMA FieldSizes ==
  ASSUME NEW m, NEW i, m.types[i] \in Types, m.types[i] = "B" => Len(m.values[i]) \in 0 .. 31
  PROVE  /\ m.types[i] = "A" => FieldSize(m, i) = 15
         /\ m.types[i] = "B" => FieldSize(m, i) \in 5 .. 36
         /\ m.types[i] \notin {"A", "B"} => FieldSize(m, i) \in 2 .. 3
<1>1. CASE m.types[i] = "A"
  BY <1>1 DEF FieldSize, DataSize, TextSize, MAC_SIZE
<1>2. CASE m.types[i] = "B"
  <2>1. FieldSize(m, i) = 1 + (4 + Len(m.values[i]))
    BY <1>2 DEF FieldSize, DataSize, TextSize
  <2>2. \A l \in 0 .. 31 : 1 + (4 + l) \in 5 .. 36
    OBVIOUS
  <2> QED  BY <1>2, <2>1, <2>2
<1>3. CASE m.types[i] = "c"
  BY <1>3 DEF FieldSize, DataSize, TextSize
<1>4. CASE m.types[i] = "v"
  BY <1>4 DEF FieldSize, DataSize, TextSize
<1> QED  BY <1>1, <1>2, <1>3, <1>4 DEF Types

LEMMA SizeBounded ==
  ASSUME NEW m, Shape(m.types), \A i \in DOMAIN m.types : m.types[i] = "B" => Len(m.values[i]) \in 0 .. 31
  PROVE  MessageSize(m) \in 0 .. 127
<1>1. PICK n \in Nat :
        /\ n <= 8
        /\ DOMAIN m.types = 1 .. n /\ \A i \in 1 .. n : m.types[i] \in Types
        /\ \A i \in 1 .. n : (m.types[i] = "A" => i = 1) /\ (m.types[i] = "B" => i = n)
  BY DEF Shape
<1>2. \A i \in 1 .. n :
        /\ FieldSize(m, i) \in Nat /\ FieldSize(m, i) <= 36
        /\ i # 1 /\ i # n => FieldSize(m, i) <= 3
        /\ i # n => FieldSize(m, i) <= 15
  <2> TAKE i \in 1 .. n
  <2>1. m.types[i] \in Types /\ (m.types[i] = "B" => Len(m.values[i]) \in 0 .. 31)
    BY <1>1
  <2>2. /\ m.types[i] = "A" => FieldSize(m, i) = 15
        /\ m.types[i] = "B" => FieldSize(m, i) \in 5 .. 36
        /\ m.types[i] \notin {"A", "B"} => FieldSize(m, i) \in 2 .. 3
    BY <2>1, FieldSizes
  <2>3. (m.types[i] = "A" => i = 1) /\ (m.types[i] = "B" => i = n)
    BY <1>1
  <2>4. (\A l \in 5 .. 36 : l \in Nat /\ l <= 36) /\ (\A l \in 2 .. 3 : l \in Nat /\ l <= 36)
    OBVIOUS
  <2>5. FieldSize(m, i) \in Nat /\ FieldSize(m, i) <= 36
    <3>1. CASE m.types[i] = "A"
      BY <2>2, <3>1
    <3>2. CASE m.types[i] = "B"
      BY <2>2, <2>4, <3>2
    <3>3. CASE m.types[i] \notin {"A", "B"}
      BY <2>2, <2>4, <3>3
    <3> QED  BY <3>1, <3>2, <3>3
  <2>6. m.types[i] \notin {"A", "B"} => FieldSize(m, i) <= 3
    BY <2>2
  <2> QED  BY <2>2, <2>3, <2>5, <2>6
<1>3. PICK h \in [0 .. n -> Int] :
        /\ h[0] = 0 /\ \A k \in 0 .. n - 1 : h[k + 1] = h[k] + FieldSize(m, k + 1)
        /\ MessageSize(m) = 12 + h[n]
  <2>1. n \in Nat /\ \A i \in 1 .. n : FieldSize(m, i) \in Int
    BY <1>2
  <2> QED  BY <1>1, <2>1, MessageSizeSteps
<1> DEFINE S == {k \in 0 .. n : 0 <= h[k] /\ (k # n => h[k] <= 15 + 3 * k) /\ h[k] <= 15 + 3 * k + 36}
<1>4. 0 .. n \subseteq S
  <2>1. 0 \in S
    BY <1>3
  <2>2. ASSUME NEW k \in 0 .. n - 1, k \in S PROVE k + 1 \in S
    <3>1. h[k + 1] = h[k] + FieldSize(m, k + 1) /\ h[k] \in Int /\ 0 <= h[k] /\ h[k] <= 15 + 3 * k
      BY <1>3, <2>2
    <3>2. k + 1 \in 1 .. n /\ k + 1 \in 0 .. n /\ k \in Nat
      OBVIOUS
    <3>3. /\ FieldSize(m, k + 1) \in Nat /\ FieldSize(m, k + 1) <= 36
          /\ k # 0 /\ k + 1 # n => FieldSize(m, k + 1) <= 3
          /\ k + 1 # n => FieldSize(m, k + 1) <= 15
      BY <1>2, <3>2
    <3>4. k = 0 => h[k] = 0
      BY <1>3
    <3>5. 0 <= h[k + 1] /\ (k + 1 # n => h[k + 1] <= 15 + 3 * (k + 1)) /\ h[k + 1] <= 15 + 3 * (k + 1) + 36
      <4> DEFINE a == h[k]
                 b == FieldSize(m, k + 1)
      <4> HIDE DEF a, b
      <4>1. a \in Int /\ b \in Nat /\ 0 <= a /\ a <= 15 + 3 * k /\ b <= 36 /\ (k = 0 => a = 0)
            /\ (k # 0 /\ k + 1 # n => b <= 3) /\ (k + 1 # n => b <= 15)
        BY <3>1, <3>3, <3>4 DEF a, b
      <4>2. 0 <= a + b /\ a + b <= 15 + 3 * (k + 1) + 36
        BY <3>2, <4>1, SMTT(30)
      <4>3. k + 1 # n => a + b <= 15 + 3 * (k + 1)
        BY <3>2, <4>1, SMTT(30)
      <4> QED  BY <3>1, <4>2, <4>3 DEF a, b
    <3> QED  BY <3>2, <3>5
  <2> HIDE DEF S
  <2> QED  BY <2>1, <2>2, NumbersUpTo
<1>5. 0 <= h[n] /\ h[n] <= 75 /\ h[n] \in Int
  <2>1. n \in 0 .. n /\ n \in S
    BY <1>4
  <2>2. h[n] \in Int /\ 0 <= h[n] /\ h[n] <= 15 + 3 * n + 36 /\ n <= 8
    BY <1>1, <2>1
  <2> QED  BY <2>2
<1>6. \A l \in Int : 0 <= l /\ l <= 75 => 12 + l \in 0 .. 127
  OBVIOUS
<1> QED  BY <1>3, <1>5, <1>6, ZenonT(60)

Bytes == Seq(Word8)

Message(idx, types, values) == [idx |-> idx, types |-> types, values |-> values]

LEMMA StatusPacked ==
  ASSUME NEW h, NEW address, NEW flags
  PROVE  Packed("status", ClientPacks["status"], [EventFields(h) EXCEPT !.address = address, !.flags = flags])
         = Message("status", <<"A", "c", "c", "c", "v", "v", "v", "c">>,
                   <<address, h, flags, 1, CONNECT_INTERVAL, CONNECT_TIMEOUT, 0, 255>>)
<1> DEFINE f == [EventFields(h) EXCEPT !.address = address, !.flags = flags]
<1>1. /\ f["address"] = address /\ f["connection"] = h /\ f["flags"] = flags /\ f["address_type"] = 1
      /\ f["conn_interval"] = CONNECT_INTERVAL /\ f["timeout"] = CONNECT_TIMEOUT /\ f["latency"] = 0
      /\ f["bonding"] = 255
  BY SMT DEF EventFields
<1> HIDE DEF f
<1>2. ClientPacks["status"].types = <<"A", "c", "c", "c", "v", "v", "v", "c">>
  BY SMT DEF ClientPacks, StatusEvt, Layout
<1>3. ClientPacks["status"].fields
        = <<"address", "connection", "flags", "address_type", "conn_interval", "timeout", "latency", "bonding">>
  BY SMT DEF ClientPacks, StatusEvt, Layout
<1> DEFINE fields == ClientPacks["status"].fields
           values == [i \in DOMAIN fields |-> f[fields[i]]]
<1>4. values = <<address, h, flags, 1, CONNECT_INTERVAL, CONNECT_TIMEOUT, 0, 255>>
  BY <1>1, <1>3, SMT
<1>5. Packed("status", ClientPacks["status"], f)
        = Message("status", <<"A", "c", "c", "c", "v", "v", "v", "c">>,
                  <<address, h, flags, 1, CONNECT_INTERVAL, CONNECT_TIMEOUT, 0, 255>>)
  BY <1>2, <1>4, SMT DEF Packed, Message
<1> QED  BY <1>5 DEF f
LEMMA DisconnectedPacked ==
  ASSUME NEW h, NEW reason
  PROVE  Packed("disconnected", ClientPacks["disconnected"], [EventFields(h) EXCEPT !.reason = reason])
         = Message("disconnected", <<"c", "v">>, <<h, reason>>)
BY SMT DEF Packed, Message, Layout, ClientPacks, DisconnectedEvt, EventFields
LEMMA ValuePacked ==
  ASSUME NEW h, NEW value
  PROVE  Packed("attribute_value", ClientPacks["attribute_value"], [EventFields(h) EXCEPT !.value = value])
         = Message("attribute_value", <<"c", "v", "c", "B">>, <<h, 1, 0, value>>)
BY SMT DEF Packed, Message, Layout, ClientPacks, AttributeValueEvt, EventFields
LEMMA CompletedPacked ==
  ASSUME NEW h, NEW result
  PROVE  /\ Packed("procedure_completed", ClientPacks["procedure_completed"], EventFields(h))
            = Message("procedure_completed", <<"c", "v", "v">>, <<h, 0, 1>>)
         /\ Packed("procedure_completed", ClientPacks["procedure_completed"], [EventFields(h) EXCEPT !.result = result])
            = Message("procedure_completed", <<"c", "v", "v">>, <<h, result, 1>>)
BY SMTT(60) DEF Packed, Message, Layout, ClientPacks, ProcedureCompletedEvt, EventFields
LEMMA GroupPacked ==
  ASSUME NEW h, NEW uuid
  PROVE  Packed("group_found", ClientPacks["group_found"], [EventFields(h) EXCEPT !.uuid = uuid])
         = Message("group_found", <<"c", "v", "v", "B">>, <<h, 1, 65535, uuid>>)
BY  DEF Packed, Message, Layout, ClientPacks, GroupFoundEvt, EventFields
LEMMA InformationPacked ==
  ASSUME NEW h, NEW uuid
  PROVE  Packed("information_found", ClientPacks["information_found"], [EventFields(h) EXCEPT !.uuid = uuid])
         = Message("information_found", <<"c", "v", "B">>, <<h, 1, uuid>>)
BY  DEF Packed, Message, Layout, ClientPacks, InformationFoundEvt, EventFields
LEMMA ScanPacked ==
  ASSUME NEW h, NEW data
  PROVE  Packed("scan_response", ClientPacks["scan_response"], [EventFields(h) EXCEPT !.data = data])
         = Message("scan_response", <<"A", "c", "c", "c", "c", "B">>, <<Nobody, 200, 0, 1, 255, data>>)
<1> DEFINE f == [EventFields(h) EXCEPT !.data = data]
<1>1. /\ f["sender"] = Nobody /\ f["rssi"] = 200 /\ f["packet_type"] = 0 /\ f["address_type"] = 1
      /\ f["bond"] = 255 /\ f["data"] = data
  BY SMT DEF EventFields
<1> HIDE DEF f
<1>2. ClientPacks["scan_response"].types = <<"A", "c", "c", "c", "c", "B">>
  BY SMT DEF ClientPacks, ScanResponseEvt, Layout
<1>3. ClientPacks["scan_response"].fields
        = <<"sender", "rssi", "packet_type", "address_type", "bond", "data">>
  BY SMT DEF ClientPacks, ScanResponseEvt, Layout
<1> DEFINE fields == ClientPacks["scan_response"].fields
           values == [i \in DOMAIN fields |-> f[fields[i]]]
<1>4. values = <<Nobody, 200, 0, 1, 255, data>>
  BY <1>1, <1>3, SMT
<1>5. Packed("scan_response", ClientPacks["scan_response"], f)
        = Message("scan_response", <<"A", "c", "c", "c", "c", "B">>, <<Nobody, 200, 0, 1, 255, data>>)
  BY <1>2, <1>4, SMT DEF Packed, Message
<1> QED  BY <1>5 DEF f

LEMMA Layouts ==
  /\ \A c \in {"set_scan_parameters", "discover", "end_procedure"} :
       ClientPacks[c] = Layout(<<"v">>, <<"result">>) /\ DriverReads[c] = Layout(<<"v">>, <<"result">>)
  /\ \A c \in LinkCommands :
       /\ ClientPacks[c] = Layout(<<"c", "v">>, <<"connection", "result">>)
       /\ DriverReads[c] = Layout(<<"c", "v">>, <<"connection", "result">>)
  /\ ClientPacks["connect_direct"] = Layout(<<"v", "c">>, <<"result", "connection">>)
  /\ DriverReads["connect_direct"] = Layout(<<"v", "c">>, <<"result", "connection">>)
<1>1. ASSUME NEW c \in {"set_scan_parameters", "discover", "end_procedure"}
      PROVE  ClientPacks[c] = Layout(<<"v">>, <<"result">>) /\ DriverReads[c] = Layout(<<"v">>, <<"result">>)
  BY SMT DEF ClientPacks, DriverReads, SetScanParametersRsp, GapDiscoverRsp, EndProcedureRsp, SimpleResponse
<1>2. ASSUME NEW c \in LinkCommands
      PROVE  /\ ClientPacks[c] = Layout(<<"c", "v">>, <<"connection", "result">>)
             /\ DriverReads[c] = Layout(<<"c", "v">>, <<"connection", "result">>)
  BY SMT DEF LinkCommands, ClientPacks, DriverReads, DisconnectRsp, UpdateRsp, GroupTypeRsp, FindInformationRsp,
     ReadByHandleRsp, AttributeWriteRsp, SimpleConnectionResponse
<1>3. /\ ClientPacks["connect_direct"] = Layout(<<"v", "c">>, <<"result", "connection">>)
      /\ DriverReads["connect_direct"] = Layout(<<"v", "c">>, <<"result", "connection">>)
  BY SMT DEF ClientPacks, DriverReads, ConnectDirectRsp, ConnectDirectResponse
<1> QED  BY <1>1, <1>2, <1>3

LEMMA SimpleResponsePacked ==
  ASSUME NEW c \in {"set_scan_parameters", "discover", "end_procedure"}, NEW h, NEW result
  PROVE  Packed(c, ClientPacks[c], ResponseFields(h, result)) = Message(c, <<"v">>, <<result>>)
<1>1. ClientPacks[c] = Layout(<<"v">>, <<"result">>)
  BY Layouts
<1> QED  BY <1>1, SMT DEF Packed, Message, Layout, ResponseFields
LEMMA ConnectionResponsePacked ==
  ASSUME NEW c \in LinkCommands, NEW h, NEW result
  PROVE  Packed(c, ClientPacks[c], ResponseFields(h, result)) = Message(c, <<"c", "v">>, <<h, result>>)
<1>1. ClientPacks[c] = Layout(<<"c", "v">>, <<"connection", "result">>)
  BY Layouts
<1> QED  BY <1>1, SMT DEF Packed, Message, Layout, ResponseFields
LEMMA ConnectResponsePacked ==
  ASSUME NEW h, NEW result
  PROVE  Packed("connect_direct", ClientPacks["connect_direct"], ResponseFields(h, result))
         = Message("connect_direct", <<"v", "c">>, <<result, h>>)
<1>1. ClientPacks["connect_direct"] = Layout(<<"v", "c">>, <<"result", "connection">>)
  BY Layouts
<1> QED  BY <1>1, SMT DEF Packed, Message, Layout, ResponseFields
LEMMA InfoResponsePacked ==
  ASSUME NEW h, NEW result
  PROVE  /\ Packed("get_connections", ClientPacks["get_connections"], ResponseFields(h, result))
            = Message("get_connections", <<"c">>, <<Cardinality(Handle)>>)
         /\ Packed("get_info", ClientPacks["get_info"], ResponseFields(h, result))
            = Message("get_info", <<"v", "v", "v", "v", "v", "c", "c">>, <<1, 1, 1, 1, 1, 1, 1>>)
<1>1. Packed("get_connections", ClientPacks["get_connections"], ResponseFields(h, result))
      = Message("get_connections", <<"c">>, <<Cardinality(Handle)>>)
  BY SMT DEF Packed, Message, Layout, ClientPacks, GetConnectionsRsp, ResponseFields
<1>2. Packed("get_info", ClientPacks["get_info"], ResponseFields(h, result))
      = Message("get_info", <<"v", "v", "v", "v", "v", "c", "c">>, <<1, 1, 1, 1, 1, 1, 1>>)
  BY SMT DEF Packed, Message, Layout, ClientPacks, GetInfoRsp, ResponseFields
<1> QED  BY <1>1, <1>2

(* What the driver reads of them. *)
LEMMA StatusRead ==
  ASSUME NEW address, NEW h, NEW flags, NEW interval, NEW timeout, NEW latency, NEW bonding, NEW type
  PROVE  LET m == Message("status", <<"A", "c", "c", "c", "v", "v", "v", "c">>,
                          <<address, h, flags, type, interval, timeout, latency, bonding>>)
             a == Unpacked(DriverReads["status"], m)
         IN  Fits(DriverReads["status"], m) /\ a.address = address /\ a.connection = h /\ a.flags = flags
BY SMT DEF Unpacked, Fits, Message, Layout, DriverReads, GetStatusEvent, ToSet
LEMMA DisconnectedRead ==
  ASSUME NEW h, NEW reason
  PROVE  LET m == Message("disconnected", <<"c", "v">>, <<h, reason>>)
             a == Unpacked(DriverReads["disconnected"], m)
         IN  Fits(DriverReads["disconnected"], m) /\ a.connection = h
BY SMT DEF Unpacked, Fits, Message, Layout, DriverReads, DisconnectEvent, ToSet
LEMMA CompletedRead ==
  ASSUME NEW h, NEW result, NEW handle
  PROVE  LET m == Message("procedure_completed", <<"c", "v", "v">>, <<h, result, handle>>)
             a == Unpacked(DriverReads["procedure_completed"], m)
         IN  Fits(DriverReads["procedure_completed"], m) /\ a.connection = h /\ a.result = result
BY SMT DEF Unpacked, Fits, Message, Layout, DriverReads, ProcedureCompletedEvent, ToSet
LEMMA ValueRead ==
  ASSUME NEW h, NEW handle, NEW type, NEW value
  PROVE  LET m == Message("attribute_value", <<"c", "v", "c", "B">>, <<h, handle, type, value>>)
             a == Unpacked(DriverReads["attribute_value"], m)
         IN  Fits(DriverReads["attribute_value"], m) /\ a.connection = h
BY SMT DEF Unpacked, Fits, Message, Layout, DriverReads, AttributeValueEvent, ToSet
LEMMA ResponseRead ==
  ASSUME NEW c \in LinkCommands, NEW h, NEW result
  PROVE  LET m == Message(c, <<"c", "v">>, <<h, result>>)
             a == Unpacked(DriverReads[c], m)
         IN  Fits(DriverReads[c], m) /\ a.connection = h /\ a.result = result
<1>1. DriverReads[c] = Layout(<<"c", "v">>, <<"connection", "result">>)
  BY Layouts
<1> QED  BY <1>1, SMT DEF Unpacked, Fits, Message, Layout, ToSet
LEMMA SimpleResponseRead ==
  ASSUME NEW c \in {"set_scan_parameters", "discover", "end_procedure"}, NEW result
  PROVE  LET m == Message(c, <<"v">>, <<result>>)
             a == Unpacked(DriverReads[c], m)
         IN  Fits(DriverReads[c], m) /\ a.result = result
<1>1. DriverReads[c] = Layout(<<"v">>, <<"result">>)
  BY Layouts
<1> QED  BY <1>1, SMT DEF Unpacked, Fits, Message, Layout, ToSet
LEMMA ConnectResponseRead ==
  ASSUME NEW h, NEW result
  PROVE  LET m == Message("connect_direct", <<"v", "c">>, <<result, h>>)
             a == Unpacked(DriverReads["connect_direct"], m)
         IN  Fits(DriverReads["connect_direct"], m) /\ a.result = result
<1>1. DriverReads["connect_direct"] = Layout(<<"v", "c">>, <<"result", "connection">>)
  BY Layouts
<1> QED  BY <1>1, SMT DEF Unpacked, Fits, Message, Layout, ToSet

LEMMA ScanParametersSent ==
  ASSUME NEW args
  PROVE  Packed("set_scan_parameters", DriverPacks["set_scan_parameters"], args)
         = Message("set_scan_parameters", <<"v", "v", "c">>,
                   <<args["interval"], args["window"], args["active"]>>)
BY SMT DEF Packed, Message, Layout, DriverPacks, ScanParametersCmd
LEMMA ScanParametersCalled ==
  ASSUME NEW x1, NEW x2, NEW x3
  PROVE  LET m == Message("set_scan_parameters", <<"v", "v", "c">>, <<x1, x2, x3>>)
             a == Unpacked(ClientCalls["set_scan_parameters"], m)
         IN  /\ Fits(ClientCalls["set_scan_parameters"], m)
             /\ a.scan_interval = x1 /\ a.scan_window = x2 /\ a.active = x3
BY SMT DEF Unpacked, Fits, Message, Layout, ClientCalls, ScanParametersCall, ToSet

LEMMA DiscoverSent ==
  ASSUME NEW args
  PROVE  Packed("discover", DriverPacks["discover"], args)
         = Message("discover", <<"v">>,
                   <<args["mode"]>>)
BY SMT DEF Packed, Message, Layout, DriverPacks, DiscoverCmd
LEMMA DiscoverCalled ==
  ASSUME NEW x1
  PROVE  LET m == Message("discover", <<"v">>, <<x1>>)
             a == Unpacked(ClientCalls["discover"], m)
         IN  /\ Fits(ClientCalls["discover"], m)
             /\ a.mode = x1
BY SMT DEF Unpacked, Fits, Message, Layout, ClientCalls, DiscoverCall, ToSet

LEMMA ConnectDirectSent ==
  ASSUME NEW args
  PROVE  Packed("connect_direct", DriverPacks["connect_direct"], args)
         = Message("connect_direct", <<"A", "c", "v", "v", "v", "v">>,
                   <<args["address"], args["type"], args["min"], args["max"], args["timeout"], args["latency"]>>)
BY SMT DEF Packed, Message, Layout, DriverPacks, ConnectDirectCmd
LEMMA ConnectDirectCalled ==
  ASSUME NEW x1, NEW x2, NEW x3, NEW x4, NEW x5, NEW x6
  PROVE  LET m == Message("connect_direct", <<"A", "c", "v", "v", "v", "v">>, <<x1, x2, x3, x4, x5, x6>>)
             a == Unpacked(ClientCalls["connect_direct"], m)
         IN  /\ Fits(ClientCalls["connect_direct"], m)
             /\ a.address = x1 /\ a.addr_type = x2 /\ a.conn_interval_min = x3 /\ a.conn_interval_max = x4 /\ a.timeout = x5 /\ a.latency = x6
BY SMT DEF Unpacked, Fits, Message, Layout, ClientCalls, ConnectDirectCall, ToSet

LEMMA UpdateSent ==
  ASSUME NEW args
  PROVE  Packed("update", DriverPacks["update"], args)
         = Message("update", <<"c", "v", "v", "v", "v">>,
                   <<args["connection"], args["min"], args["max"], args["timeout"], args["latency"]>>)
BY SMT DEF Packed, Message, Layout, DriverPacks, UpdateCmd
LEMMA UpdateCalled ==
  ASSUME NEW x1, NEW x2, NEW x3, NEW x4, NEW x5
  PROVE  LET m == Message("update", <<"c", "v", "v", "v", "v">>, <<x1, x2, x3, x4, x5>>)
             a == Unpacked(ClientCalls["update"], m)
         IN  /\ Fits(ClientCalls["update"], m)
             /\ a.connection = x1 /\ a.interval_min = x2 /\ a.interval_max = x3 /\ a.timeout = x4 /\ a.latency = x5
BY SMT DEF Unpacked, Fits, Message, Layout, ClientCalls, UpdateCall, ToSet

LEMMA DisconnectSent ==
  ASSUME NEW args
  PROVE  Packed("disconnect", DriverPacks["disconnect"], args)
         = Message("disconnect", <<"c">>,
                   <<args["connection"]>>)
BY SMT DEF Packed, Message, Layout, DriverPacks, DisconnectCmd
LEMMA DisconnectCalled ==
  ASSUME NEW x1
  PROVE  LET m == Message("disconnect", <<"c">>, <<x1>>)
             a == Unpacked(ClientCalls["disconnect"], m)
         IN  /\ Fits(ClientCalls["disconnect"], m)
             /\ a.connection = x1
BY SMT DEF Unpacked, Fits, Message, Layout, ClientCalls, DisconnectCall, ToSet

LEMMA GroupTypeSent ==
  ASSUME NEW args
  PROVE  Packed("read_by_group_type", DriverPacks["read_by_group_type"], args)
         = Message("read_by_group_type", <<"c", "v", "v", "B">>,
                   <<args["connection"], args["start"], args["end"], args["uuid"]>>)
BY SMT DEF Packed, Message, Layout, DriverPacks, PrimaryServicesCmd
LEMMA GroupTypeCalled ==
  ASSUME NEW x1, NEW x2, NEW x3, NEW x4
  PROVE  LET m == Message("read_by_group_type", <<"c", "v", "v", "B">>, <<x1, x2, x3, x4>>)
             a == Unpacked(ClientCalls["read_by_group_type"], m)
         IN  /\ Fits(ClientCalls["read_by_group_type"], m)
             /\ a.connection = x1 /\ a.start = x2 /\ a.end = x3 /\ a.uuid = x4
BY SMT DEF Unpacked, Fits, Message, Layout, ClientCalls, GroupTypeCall, ToSet

LEMMA FindInformationSent ==
  ASSUME NEW args
  PROVE  Packed("find_information", DriverPacks["find_information"], args)
         = Message("find_information", <<"c", "v", "v">>,
                   <<args["connection"], args["start"], args["end"]>>)
BY SMT DEF Packed, Message, Layout, DriverPacks, AttributeInfoCmd
LEMMA FindInformationCalled ==
  ASSUME NEW x1, NEW x2, NEW x3
  PROVE  LET m == Message("find_information", <<"c", "v", "v">>, <<x1, x2, x3>>)
             a == Unpacked(ClientCalls["find_information"], m)
         IN  /\ Fits(ClientCalls["find_information"], m)
             /\ a.connection = x1 /\ a.start = x2 /\ a.end = x3
BY SMT DEF Unpacked, Fits, Message, Layout, ClientCalls, FindInformationCall, ToSet

LEMMA ReadByHandleSent ==
  ASSUME NEW args
  PROVE  Packed("read_by_handle", DriverPacks["read_by_handle"], args)
         = Message("read_by_handle", <<"c", "v">>,
                   <<args["connection"], args["attribute"]>>)
BY SMT DEF Packed, Message, Layout, DriverPacks, ReadByHandleCmd
LEMMA ReadByHandleCalled ==
  ASSUME NEW x1, NEW x2
  PROVE  LET m == Message("read_by_handle", <<"c", "v">>, <<x1, x2>>)
             a == Unpacked(ClientCalls["read_by_handle"], m)
         IN  /\ Fits(ClientCalls["read_by_handle"], m)
             /\ a.connection = x1 /\ a.chrhandle = x2
BY SMT DEF Unpacked, Fits, Message, Layout, ClientCalls, ReadByHandleCall, ToSet

LEMMA AttributeWriteSent ==
  ASSUME NEW args
  PROVE  Packed("attribute_write", DriverPacks["attribute_write"], args)
         = Message("attribute_write", <<"c", "v", "B">>,
                   <<args["connection"], args["attribute"], args["bytes"]>>)
BY SMT DEF Packed, Message, Layout, DriverPacks, WriteByHandleCmd
LEMMA AttributeWriteCalled ==
  ASSUME NEW x1, NEW x2, NEW x3
  PROVE  LET m == Message("attribute_write", <<"c", "v", "B">>, <<x1, x2, x3>>)
             a == Unpacked(ClientCalls["attribute_write"], m)
         IN  /\ Fits(ClientCalls["attribute_write"], m)
             /\ a.connection = x1 /\ a.atthandle = x2 /\ a.data = x3
BY SMT DEF Unpacked, Fits, Message, Layout, ClientCalls, AttributeWriteCall, ToSet

LEMMA SimpleSent ==
  ASSUME NEW c \in {"get_info", "get_connections", "end_procedure"}, NEW args
  PROVE  /\ Packed(c, DriverPacks[c], args) = Message(c, <<>>, <<>>)
         /\ Fits(ClientCalls[c], Message(c, <<>>, <<>>))
<1>1. DriverPacks[c] = Layout(<<>>, <<>>) /\ ClientCalls[c] = Layout(<<>>, <<>>)
  BY SMT DEF DriverPacks, ClientCalls, Simple, GetInfoCall, GetConnectionsCall, EndProcedureCall
<1> QED  BY <1>1, SMT DEF Packed, Message, Layout, Fits

Digits == 0 .. 16

LEMMA WordsAreInts ==
  /\ \A n \in Word8 : n \in Nat /\ n <= 255 /\ n \in Word16
  /\ \A n \in Word16 : n \in Nat /\ n <= 65535
BY DEF Word8, Word16

\* Reading hexadecimal digits is a loop over their pairs.
Pairs(digits) ==
  LET even == IF Len(digits) % 2 = 0 THEN digits ELSE <<0>> \o digits
  IN  [i \in 1 .. Len(even) \div 2 |-> <<even[2 * i - 1], even[2 * i]>>]
AppendByte(bytes, p) == IF p[1] < 16 THEN Append(bytes, Byte(p[1], p[2])) ELSE bytes

LEMMA ByteIsByte ==
  ASSUME NEW high \in Digits, NEW low \in Digits, high < 16
  PROVE  Byte(high, low) \in Word8
<1>1. 16 * high + low \in 0 .. 255 \/ low = 16
  BY SMT DEF Digits
<1>2. high \in 0 .. 255
  BY SMT DEF Digits
<1> QED  BY <1>1, <1>2, SMT DEF Byte, Digits, Word8

LEMMA PairsTyped ==
  ASSUME NEW digits \in Seq(Digits)
  PROVE  \E n \in Nat : /\ Pairs(digits) \in [1 .. n -> Digits \X Digits]
                        /\ Len(digits) % 2 = 0 =>
                             /\ 2 * n = Len(digits)
                             /\ \A i \in 1 .. n : Pairs(digits)[i] = <<digits[2 * i - 1], digits[2 * i]>>
<1> DEFINE even == IF Len(digits) % 2 = 0 THEN digits ELSE <<0>> \o digits
           n == Len(even) \div 2
<1>1. even \in Seq(Digits) /\ Len(even) \in Nat /\ 2 * n = Len(even) /\ n \in Nat
  <2>1. CASE Len(digits) % 2 = 0
    BY <2>1
  <2>2. CASE Len(digits) % 2 # 0
    <3>1. <<0>> \in Seq(Digits) /\ Len(<<0>>) = 1
      BY DEF Digits
    <3>2. <<0>> \o digits \in Seq(Digits) /\ Len(<<0>> \o digits) = 1 + Len(digits)
      BY <3>1
    <3> QED  BY <2>2, <3>2
  <2> QED  BY <2>1, <2>2
<1>2. \A i \in 1 .. n : 2 * i - 1 \in 1 .. Len(even) /\ 2 * i \in 1 .. Len(even)
  <2> HIDE DEF even
  <2> QED  BY <1>1
<1>3. ASSUME NEW i \in 1 .. n PROVE even[2 * i - 1] \in Digits /\ even[2 * i] \in Digits
  <2> HIDE DEF even
  <2> QED  BY <1>1, <1>2
<1>4. Pairs(digits) = [i \in 1 .. n |-> <<even[2 * i - 1], even[2 * i]>>]
  BY DEF Pairs
<1>5. Len(digits) % 2 = 0 => even = digits
  OBVIOUS
<1> HIDE DEF even
<1> QED  BY <1>1, <1>3, <1>4, <1>5, SMTT(60)

LEMMA HexSteps ==
  ASSUME NEW digits \in Seq(Digits), NEW n \in Nat, Pairs(digits) \in [1 .. n -> Digits \X Digits]
  PROVE  \E h \in [0 .. n -> Bytes] :
           /\ h[0] = <<>> /\ \A k \in 0 .. n - 1 : h[k + 1] = AppendByte(h[k], Pairs(digits)[k + 1])
           /\ HexStrToHexBuf(digits) = h[n]
<1> DEFINE pairs == Pairs(digits)
           F == [p \in Bytes \X (1 .. n) |-> AppendByte(p[1], pairs[p[2]])]
           Unfold(f) == [s \in SUBSET DOMAIN pairs |->
                        IF s = {} THEN <<>> ELSE AppendByte(f[s \ {Max(s)}], pairs[Max(s)])]
           it == CHOOSE f : f = Unfold(f)
<1>0. DOMAIN pairs = 1 .. n
  OBVIOUS
<1>1. F \in [Bytes \X (1 .. n) -> Bytes] /\ \A a \in Bytes, i \in 1 .. n : F[<<a, i>>] = AppendByte(a, pairs[i])
  <2>1. ASSUME NEW a \in Bytes, NEW i \in 1 .. n PROVE AppendByte(a, pairs[i]) \in Bytes
    <3>1. pairs[i][1] \in Digits /\ pairs[i][2] \in Digits
      OBVIOUS
    <3>2. pairs[i][1] < 16 => Byte(pairs[i][1], pairs[i][2]) \in Word8
      BY <3>1, ByteIsByte
    <3> HIDE DEF pairs
    <3> QED  BY <3>2 DEF AppendByte, Bytes
  <2> HIDE DEF pairs
  <2> QED  BY <2>1
<1>a. <<>> \in Bytes
  BY DEF Bytes
<1>2. PICK g \in [SUBSET (1 .. n) -> Bytes] : FoldOn(n, <<>>, F, g)
  <2> HIDE DEF F
  <2> QED  BY <1>1, <1>a, FoldExists DEF Folds
<1>3. g = Unfold(g)
  <2>1. ASSUME NEW s \in SUBSET (1 .. n), s # {}
        PROVE F[<<g[s \ {Max(s)}], Max(s)>>] = AppendByte(g[s \ {Max(s)}], pairs[Max(s)])
    <3>1. g[s \ {Max(s)}] \in Bytes /\ Max(s) \in 1 .. n
      BY <2>1, MaxIn
    <3> QED  BY <1>1, <3>1
  <2> HIDE DEF F, pairs
  <2> QED BY <1>0, <1>2, <2>1 DEF FoldOn
<1>4. it = Unfold(it)
  BY <1>3
<1>5. HexStrToHexBuf(digits) = it[1 .. n]
  BY <1>0 DEF HexStrToHexBuf, FoldLeft, MapThenFoldSet, Pairs, AppendByte
<1> HIDE DEF F, it, pairs
<1>6. it[{}] = <<>>
  BY <1>0, <1>4
<1>7. ASSUME NEW s \in SUBSET (1 .. n), s # {}, it[s \ {Max(s)}] \in Bytes
      PROVE  it[s] = F[<<it[s \ {Max(s)}], Max(s)>>]
  <2>1. Max(s) \in 1 .. n
    BY <1>7, MaxIn
  <2>2. it[s] = AppendByte(it[s \ {Max(s)}], pairs[Max(s)])
    BY <1>0, <1>4, <1>7, <2>1
  <2> QED  BY <1>1, <1>7, <2>1, <2>2
<1>8. Loop(n, Bytes, <<>>, F, it[1 .. n])
  <2> HIDE DEF Unfold
  <2>1. F \in [Bytes \X (1 .. n) -> Bytes] /\ <<>> \in Bytes
    BY <1>1, <1>a
  <2> QED  BY <2>1, <1>6, <1>7, FoldIsLoop
<1>9. PICK h \in [0 .. n -> Bytes] : h[0] = <<>> /\ h[n] = it[1 .. n] /\ \A k \in 0 .. n - 1 : h[k + 1] = F[<<h[k], k + 1>>]
  BY <1>8 DEF Loop
<1>10. \A k \in 0 .. n - 1 : h[k + 1] = AppendByte(h[k], pairs[k + 1])
  <2> TAKE k \in 0 .. n - 1
  <2>1. h[k] \in Bytes /\ k + 1 \in 1 .. n
    BY k \in 0 .. n
  <2>2. F[<<h[k], k + 1>>] = AppendByte(h[k], pairs[k + 1])
    BY <1>1, <2>1
  <2> QED  BY <1>9, <2>2
<1> QED  BY <1>5, <1>9, <1>10 DEF pairs

\* The bytes of a value; of digits alone and an even number of them, each pair is one byte.
LEMMA HexBytes ==
  ASSUME NEW digits \in Seq(Digits)
  PROVE  /\ HexStrToHexBuf(digits) \in Bytes
         /\ (ToSet(digits) \subseteq 0 .. 15 /\ Len(digits) % 2 = 0) =>
              /\ 2 * Len(HexStrToHexBuf(digits)) = Len(digits)
              /\ \A i \in 1 .. Len(HexStrToHexBuf(digits)) :
                   HexStrToHexBuf(digits)[i] = 16 * digits[2 * i - 1] + digits[2 * i]
<1>1. PICK n \in Nat : /\ Pairs(digits) \in [1 .. n -> Digits \X Digits]
                       /\ Len(digits) % 2 = 0 =>
                             /\ 2 * n = Len(digits)
                             /\ \A i \in 1 .. n : Pairs(digits)[i] = <<digits[2 * i - 1], digits[2 * i]>>
  BY PairsTyped
<1>2. PICK h \in [0 .. n -> Bytes] :
           /\ h[0] = <<>> /\ \A k \in 0 .. n - 1 : h[k + 1] = AppendByte(h[k], Pairs(digits)[k + 1])
           /\ HexStrToHexBuf(digits) = h[n]
  BY <1>1, HexSteps
<1>3. HexStrToHexBuf(digits) \in Bytes
  BY <1>2, n \in 0 .. n
<1>4. ASSUME ToSet(digits) \subseteq 0 .. 15, Len(digits) % 2 = 0
      PROVE  /\ Len(h[n]) = n
             /\ \A i \in 1 .. n : h[n][i] = 16 * digits[2 * i - 1] + digits[2 * i]
  <2>1. \A i \in 1 .. n : 2 * i - 1 \in 1 .. Len(digits) /\ 2 * i \in 1 .. Len(digits)
    <3>1. PICK l \in Nat : l = Len(digits)
      OBVIOUS
    <3>2. 2 * n = l
      BY <1>1, <1>4, <3>1
    <3>3. \A i \in 1 .. n : 2 * i - 1 \in 1 .. l /\ 2 * i \in 1 .. l
      BY <3>2
    <3> QED  BY <3>1, <3>3
  <2>2. ASSUME NEW j \in 1 .. Len(digits) PROVE digits[j] \in Nat /\ digits[j] < 16
    <3>1. digits[j] \in ToSet(digits)
      BY DEF ToSet
    <3>2. digits[j] \in 0 .. 15
      BY <1>4, <3>1
    <3> QED  BY <3>2, SMTT(60)
  <2> DEFINE S == {k \in 0 .. n : Len(h[k]) = k /\ \A i \in 1 .. k : h[k][i] = 16 * digits[2 * i - 1] + digits[2 * i]}
  <2>3. 0 \in S
    BY <1>2
  <2>4. ASSUME NEW k \in 0 .. n - 1, k \in S PROVE k + 1 \in S
    <3>1. k + 1 \in 1 .. n /\ k \in 0 .. n /\ k + 1 \in 0 .. n /\ k \in Nat
      OBVIOUS
    <3>2. Pairs(digits)[k + 1] = <<digits[2 * (k + 1) - 1], digits[2 * (k + 1)]>>
      BY <1>1, <1>4, <3>1
    <3> DEFINE x == digits[2 * (k + 1) - 1]
               y == digits[2 * (k + 1)]
    <3>3. x \in Nat /\ x < 16 /\ y \in Nat /\ y < 16
      BY <2>1, <2>2, <3>1
    <3>4. AppendByte(h[k], <<x, y>>) = Append(h[k], 16 * x + y)
      <4> HIDE DEF x, y
      <4> QED  BY <3>3 DEF AppendByte, Byte
    <3>5. h[k + 1] = Append(h[k], 16 * x + y)
      BY <1>2, <3>2, <3>4
    <3>6. h[k] \in Seq(Word8) /\ Len(h[k]) = k
          /\ \A i \in 1 .. k : h[k][i] = 16 * digits[2 * i - 1] + digits[2 * i]
      BY <2>4, <3>1 DEF Bytes
    <3> DEFINE z == 16 * x + y
    <3>7. z = 16 * digits[2 * (k + 1) - 1] + digits[2 * (k + 1)]
      OBVIOUS
    <3>8. h[k + 1] = Append(h[k], z)
      BY <3>5
    <3> HIDE DEF x, y, z
    <3>9. Len(h[k + 1]) = k + 1 /\ h[k + 1][k + 1] = z /\ \A i \in 1 .. k : h[k + 1][i] = h[k][i]
      BY <3>1, <3>6, <3>8
    <3>10. ASSUME NEW i \in 1 .. k + 1 PROVE h[k + 1][i] = 16 * digits[2 * i - 1] + digits[2 * i]
      <4>1. CASE i = k + 1
        BY <3>7, <3>9, <4>1
      <4>2. CASE i # k + 1
        <5>1. i \in 1 .. k
          BY <3>1, <4>2
        <5> QED  BY <3>6, <3>9, <5>1
      <4> QED  BY <4>1, <4>2
    <3> QED  BY <3>1, <3>9, <3>10
  <2> HIDE DEF S
  <2>5. 0 .. n \subseteq S
    BY <2>3, <2>4, NumbersUpTo
  <2> QED  BY <2>5, n \in 0 .. n DEF S
<1> QED  BY <1>1, <1>2, <1>3, <1>4

-----------------------------------------------------------------------------
(* The checks of the parameters.                                           *)

\* Values of the uint16 parameters of BLED112::Connect and BLED112::Discover.
Connections == [min : Word16, max : Word16, timeout : Word16, latency : Word16]
Scans == [interval : Word16, window : Word16]

\* What each check promises of its result, whatever it has been given.
InInterval(p) == 6 <= p.min /\ p.min <= p.max - 16 /\ p.max <= 3200
AfterInterval(p) == 6 <= p.min /\ p.min <= p.max /\ p.max <= 3200
InTimeout(p) == 10 <= p.timeout /\ p.timeout <= 3200 /\ 5 * p.max <= 40 * p.timeout

LEMMA WordsAreNumbers == \A n \in Word16 : n \in Nat
BY DEF Word16

\* The arithmetic of the checks needs no more of the fields than that they are numbers.
LEMMA FieldsAreNumbers ==
  ASSUME NEW p \in Connections
  PROVE  /\ p.min \in Word16 /\ p.max \in Word16 /\ p.timeout \in Word16 /\ p.latency \in Word16
         /\ p.min \in Nat /\ p.max \in Nat /\ p.timeout \in Nat /\ p.latency \in Nat
<1>1. p.min \in Word16 /\ p.max \in Word16 /\ p.timeout \in Word16 /\ p.latency \in Word16
  BY DEF Connections
<1> QED  BY <1>1, WordsAreNumbers

\* The values that a check falls back to are a connection.
LEMMA RepairIsConnection ==
  ASSUME NEW a \in Word16, NEW b \in Word16, NEW t \in Word16, NEW l \in Word16
  PROVE  /\ ConnectionParameters(a, b, t, l) \in Connections
         /\ ConnectionParameters(a, b, t, l).min = a /\ ConnectionParameters(a, b, t, l).max = b
         /\ ConnectionParameters(a, b, t, l).timeout = t /\ ConnectionParameters(a, b, t, l).latency = l
BY DEF ConnectionParameters, Connections

LEMMA DefaultsAreWords ==
  /\ CONNECT_INTERVAL = 76 /\ CONNECT_INTERVAL - 16 = 60 /\ CONNECT_TIMEOUT = 100 /\ CONNECT_SAVE_LATENCY = 0
  /\ 76 \in Word16 /\ 60 \in Word16 /\ 100 \in Word16 /\ 0 \in Word16
BY DEF CONNECT_INTERVAL, CONNECT_TIMEOUT, CONNECT_SAVE_LATENCY, Word16

LEMMA IntervalRepaired ==
  ASSUME NEW p \in Connections
  PROVE  CheckedInterval(p) \in Connections /\ InInterval(CheckedInterval(p))
<1> DEFINE q == ConnectionParameters(60, 76, p.timeout, p.latency)
<1>0. /\ p.timeout \in Word16 /\ p.latency \in Word16
      /\ p.min \in Nat /\ p.max \in Nat
  BY FieldsAreNumbers
<1>1. CASE p.min < 6 \/ p.max > 3200 \/ p.max - 16 < p.min
  <2>1. CheckedInterval(p) = q
    BY <1>1, DefaultsAreWords DEF CheckedInterval
  <2>2. q \in Connections /\ q.min = 60 /\ q.max = 76
    <3>1. 60 \in Word16 /\ 76 \in Word16
      BY DefaultsAreWords
    <3> QED  BY <1>0, <3>1, RepairIsConnection, SMTT(60)
  <2>3. InInterval(q)
    BY <2>2 DEF InInterval
  <2> QED  BY <2>1, <2>2, <2>3
<1>2. CASE ~(p.min < 6 \/ p.max > 3200 \/ p.max - 16 < p.min)
  <2>1. CheckedInterval(p) = p
    BY <1>2 DEF CheckedInterval
  <2>2. InInterval(p)
    BY <1>0, <1>2 DEF InInterval
  <2> QED  BY <2>1, <2>2
<1> QED  BY <1>1, <1>2

\* The check of the timeout may set the interval again: to one value, no longer a range of 16.
LEMMA TimeoutRepaired ==
  ASSUME NEW p \in Connections, InInterval(p)
  PROVE  /\ CheckedTimeout(p) \in Connections
         /\ AfterInterval(CheckedTimeout(p)) /\ InTimeout(CheckedTimeout(p))
<1> DEFINE q == ConnectionParameters(76, 76, 100, p.latency)
<1>0. /\ p.latency \in Word16
      /\ p.min \in Nat /\ p.max \in Nat /\ p.timeout \in Nat
  BY FieldsAreNumbers
<1>1. CASE p.timeout < 10 \/ p.timeout > 3200 \/ 40 * p.timeout < 5 * p.max
  <2>1. CheckedTimeout(p) = q
    BY <1>1, DefaultsAreWords DEF CheckedTimeout
  <2>2. q \in Connections /\ q.min = 76 /\ q.max = 76 /\ q.timeout = 100
    <3>1. 76 \in Word16 /\ 100 \in Word16
      BY DefaultsAreWords
    <3> QED  BY <1>0, <3>1, RepairIsConnection
  <2>3. AfterInterval(q) /\ InTimeout(q)
    BY <2>2 DEF AfterInterval, InTimeout
  <2> QED  BY <2>1, <2>2, <2>3
<1>2. CASE ~(p.timeout < 10 \/ p.timeout > 3200 \/ 40 * p.timeout < 5 * p.max)
  <2>1. CheckedTimeout(p) = p
    BY <1>2 DEF CheckedTimeout
  <2>2. AfterInterval(p) /\ InTimeout(p)
    BY <1>0, <1>2 DEF InInterval, AfterInterval, InTimeout
  <2> QED  BY <2>1, <2>2
<1> QED  BY <1>1, <1>2

\* The latency is looked at with the interval and the timeout that the checks before have left.
LEMMA LatencyRepaired ==
  ASSUME NEW p \in Connections, AfterInterval(p), InTimeout(p)
  PROVE  LegalConnection(CheckedLatency(p))
<1> DEFINE q == ConnectionParameters(76, 76, 100, 0)
           slow == 5 * (p.latency * p.max) > 40 * p.timeout
<1>1. CASE p.latency > 500 \/ slow
  <2>1. CheckedLatency(p) = q
    BY <1>1, DefaultsAreWords DEF CheckedLatency
  <2>2. q.min = 76 /\ q.max = 76 /\ q.timeout = 100 /\ q.latency = 0
    BY RepairIsConnection, DefaultsAreWords
  <2>3. LegalConnection(q)
    BY <2>2 DEF LegalConnection
  <2> QED  BY <2>1, <2>3
<1>2. CASE ~(p.latency > 500 \/ slow)
  <2>1. CheckedLatency(p) = p
    BY <1>2 DEF CheckedLatency
  <2>2. p.latency \in Nat /\ p.max \in Nat /\ p.timeout \in Nat
    BY FieldsAreNumbers
  <2>3. 5 * (p.latency * p.max) \in Int /\ 40 * p.timeout \in Int
    BY <2>2
  <2>4. \A m \in Int, n \in Int : ~(m > n) => m <= n
    OBVIOUS
  <2>5. 5 * (p.latency * p.max) <= 40 * p.timeout
    <3>1. ~slow
      BY <1>2
    <3> QED  BY <2>3, <2>4, <3>1
  <2>6. 0 <= p.latency /\ p.latency <= 500
    BY <1>2, <2>2
  <2> QED  BY <2>1, <2>5, <2>6 DEF LegalConnection, AfterInterval, InTimeout
<1> QED  BY <1>1, <1>2

\* CheckConnectionParameters (BLE_DRIVER.cpp:2449) makes legal parameters of all 16-bit values:
\* none of its checks breaks what an earlier one has established.
THEOREM ConnectionParametersLegal ==
  ASSUME NEW p \in Connections
  PROVE  LegalConnection(CheckConnectionParameters(p))
<1> DEFINE q == CheckedInterval(p)
           r == CheckedTimeout(q)
<1>1. q \in Connections /\ InInterval(q)
  BY IntervalRepaired
<1>2. r \in Connections /\ AfterInterval(r) /\ InTimeout(r)
  BY <1>1, TimeoutRepaired
<1>3. LegalConnection(CheckedLatency(r))
  BY <1>2, LatencyRepaired
<1> QED  BY <1>3 DEF CheckConnectionParameters

\* It does not touch parameters that are legal and leave the 16 units between the intervals: a
\* client that keeps to the limits gets what it asked for.
THEOREM LegalConnectionKept ==
  ASSUME NEW p \in Connections, LegalConnection(p), p.min <= p.max - 16
  PROVE  CheckConnectionParameters(p) = p
<1>0. p.min \in Nat /\ p.max \in Nat /\ p.timeout \in Nat /\ p.latency \in Nat
  BY FieldsAreNumbers
<1>1. CheckedInterval(p) = p
  <2>1. 6 <= p.min /\ p.max <= 3200
    BY DEF LegalConnection
  <2>2. ~(p.min < 6 \/ p.max > 3200 \/ p.max - 16 < p.min)
    BY <1>0, <2>1
  <2> QED  BY <2>2 DEF CheckedInterval
<1>2. CheckedTimeout(p) = p
  <2>1. 10 <= p.timeout /\ p.timeout <= 3200 /\ 5 * p.max <= 40 * p.timeout
    BY DEF LegalConnection
  <2>2. ~(p.timeout < 10 \/ p.timeout > 3200 \/ 40 * p.timeout < 5 * p.max)
    BY <1>0, <2>1
  <2> QED  BY <2>2 DEF CheckedTimeout
<1>3. CheckedLatency(p) = p
  <2>1. p.latency <= 500 /\ 5 * (p.latency * p.max) <= 40 * p.timeout
    BY DEF LegalConnection
  <2>2. 5 * (p.latency * p.max) \in Int /\ 40 * p.timeout \in Int
    BY <1>0
  <2>3. \A m \in Int, n \in Int : m <= n => ~(m > n)
    OBVIOUS
  <2>4. ~(p.latency > 500 \/ 5 * (p.latency * p.max) > 40 * p.timeout)
    <3>1. ~(5 * (p.latency * p.max) > 40 * p.timeout)
      BY <2>1, <2>2, <2>3
    <3>2. ~(p.latency > 500)
      BY <1>0, <2>1
    <3> QED  BY <3>1, <3>2
  <2> QED  BY <2>4 DEF CheckedLatency
<1> QED  BY <1>1, <1>2, <1>3 DEF CheckConnectionParameters

\* CheckDiscoverParameters (BLE_DRIVER.cpp:2486) makes legal scan parameters of all 16-bit values
\* and does not touch legal ones.
THEOREM ScanParametersLegal ==
  ASSUME NEW p \in Scans
  PROVE  /\ LegalScan(CheckDiscoverParameters(p))
         /\ LegalScan(p) => CheckDiscoverParameters(p) = p
<1> DEFINE accepted == 4 <= p.interval /\ p.interval <= 16384 /\ 4 <= p.window /\ p.window <= p.interval
<1>0. p.interval \in Nat /\ p.window \in Nat
  <2>1. p.interval \in Word16 /\ p.window \in Word16
    BY DEF Scans
  <2> QED  BY <2>1, WordsAreNumbers
<1>1. CASE accepted
  <2>1. CheckDiscoverParameters(p) = p
    BY <1>1 DEF CheckDiscoverParameters
  <2> QED  BY <2>1, <1>1 DEF LegalScan
<1>2. CASE ~accepted
  <2>1. CheckDiscoverParameters(p) = [interval |-> 75, window |-> 50]
    BY <1>2 DEF CheckDiscoverParameters, DISCOVERY_SCAN_INTERVAL, DISCOVERY_SCAN_WINDOW
  <2>2. LegalScan(CheckDiscoverParameters(p))
    BY <2>1 DEF LegalScan
  <2>3. ~LegalScan(p)
    BY <1>0, <1>2 DEF LegalScan
  <2> QED  BY <2>2, <2>3
<1> QED  BY <1>1, <1>2

LEMMA NumberWidths == \A n \in Int : Uint8(n) \in Word8 /\ Uint16(n) \in Word16
BY SMT DEF Uint8, Uint16, Word8, Word16

LEMMA ParameterIsNumber ==
  ASSUME NEW r \in Requests, NEW name, NEW default \in Nat
  PROVE  Parameter(r.query, name, default) \in Nat
<1>1. name \in DOMAIN r.query => r.query[name].n \in Nat
  <2>1. \A k \in DOMAIN r.query : r.query[k] \in Tokens
    BY RequestsAssumption
  <2>2. \A t \in Tokens : t.n \in Nat
    BY DEF Tokens
  <2> QED  BY <2>1, <2>2
<1> QED  BY <1>1 DEF Parameter

LEMMA ConnectionGivenTyped ==
  ASSUME request \in Requests
  PROVE  ConnectionGiven \in Connections /\ AddressType \in Word8
<1> DEFINE interval == Parameter(request.query, "CONNECTIONINTERVAL", CONNECT_INTERVAL)
           timeout == Parameter(request.query, "TIMEOUT", CONNECT_TIMEOUT)
           latency == Parameter(request.query, "SLAVELATENCY", CONNECT_SAVE_LATENCY)
           type == Parameter(request.query, "ADDRESSTYPE", 1)
<1>1. interval \in Nat /\ timeout \in Nat /\ latency \in Nat /\ type \in Nat
  <2>1. CONNECT_INTERVAL \in Nat /\ CONNECT_TIMEOUT \in Nat /\ CONNECT_SAVE_LATENCY \in Nat /\ 1 \in Nat
    BY DEF CONNECT_INTERVAL, CONNECT_TIMEOUT, CONNECT_SAVE_LATENCY
  <2> QED  BY <2>1, ParameterIsNumber
<1> HIDE DEF interval, timeout, latency, type
<1>2. /\ Uint16(interval - 16) \in Word16 /\ Uint16(interval) \in Word16 /\ Uint16(timeout) \in Word16
      /\ Uint16(latency) \in Word16 /\ Uint8(type) \in Word8
  <2>1. interval - 16 \in Int /\ interval \in Int /\ timeout \in Int /\ latency \in Int /\ type \in Int
    BY <1>1
  <2> QED  BY <2>1, NumberWidths
<1>3. ConnectionParameters(Uint16(interval - 16), Uint16(interval), Uint16(timeout), Uint16(latency)) \in Connections
  BY <1>2, RepairIsConnection
<1> QED  BY <1>2, <1>3 DEF ConnectionGiven, AddressType, interval, timeout, latency, type

LEMMA ScanGivenTyped ==
  ASSUME request \in Requests
  PROVE  /\ ScanGiven \in Scans /\ ActiveScan \in Word8 /\ DiscoverMode \in Word16
<1> DEFINE interval == Parameter(request.query, "SCANINTERVAL", DISCOVERY_SCAN_INTERVAL)
           window == Parameter(request.query, "SCANWINDOW", DISCOVERY_SCAN_WINDOW)
<1>1. interval \in Nat /\ window \in Nat
  <2>1. DISCOVERY_SCAN_INTERVAL \in Nat /\ DISCOVERY_SCAN_WINDOW \in Nat
    BY DEF DISCOVERY_SCAN_INTERVAL, DISCOVERY_SCAN_WINDOW
  <2> QED  BY <2>1, ParameterIsNumber
<1> HIDE DEF interval, window
<1>2. Uint16(interval) \in Word16 /\ Uint16(window) \in Word16
  BY <1>1, NumberWidths
<1>3. ScanGiven \in Scans
  BY <1>2 DEF ScanGiven, Scans, interval, window
<1>4. 0 \in Word8 /\ 1 \in Word8 /\ 0 .. 2 \subseteq Word16
  BY SMT DEF Word8, Word16
<1>5. ActiveScan \in Word8
  BY <1>4 DEF ActiveScan
<1>6. DiscoverMode \in Word16
  BY <1>4 DEF DiscoverMode
<1> QED  BY <1>3, <1>5, <1>6

LEMMA CheckedConnectionTyped ==
  ASSUME NEW p \in Connections
  PROVE  /\ CheckConnectionParameters(p) \in Connections
         /\ LegalConnection(CheckConnectionParameters(p))
<1> DEFINE q == CheckedTimeout(CheckedInterval(p))
           r == ConnectionParameters(76, 76, 100, 0)
<1>1. q \in Connections
  BY IntervalRepaired, TimeoutRepaired
<1>2. r \in Connections
  BY RepairIsConnection, DefaultsAreWords
<1>3. CheckedLatency(q) \in {q, r}
  BY DefaultsAreWords DEF CheckedLatency
<1>4. CheckedLatency(q) \in Connections
  BY <1>1, <1>2, <1>3
<1> QED  BY <1>4, ConnectionParametersLegal DEF CheckConnectionParameters

LEMMA CheckedScanTyped ==
  ASSUME NEW p \in Scans
  PROVE  /\ CheckDiscoverParameters(p) \in Scans
         /\ LegalScan(CheckDiscoverParameters(p))
<1> DEFINE r == [interval |-> DISCOVERY_SCAN_INTERVAL, window |-> DISCOVERY_SCAN_WINDOW]
<1>1. r \in Scans
  <2>1. 75 \in Word16 /\ 50 \in Word16
    BY SMTT(60) DEF Word16
  <2> QED  BY <2>1 DEF Scans, DISCOVERY_SCAN_INTERVAL, DISCOVERY_SCAN_WINDOW
<1>2. CheckDiscoverParameters(p) \in {p, r}
  BY DEF CheckDiscoverParameters
<1> QED  BY <1>1, <1>2, ScanParametersLegal

\* An address, as the driver keeps it.
LEMMA AddressIsBytes ==
  ASSUME NEW mac \in Tokens, mac.kind = "mac"
  PROVE  Address(mac) \in Bytes /\ Address(mac) = <<mac.n % 256, mac.n \div 256>>
<1>1. mac.n \in Nat /\ mac.n < 65536
  BY DEF Tokens
<1>2. \A n \in Nat : n < 65536 => n \div 256 \in 0 .. 255 /\ n % 256 \in 0 .. 255
  BY SMT
<1>3. mac.n \div 256 \in Word8 /\ mac.n % 256 \in Word8
  BY <1>1, <1>2, SMT DEF Word8
<1> DEFINE high == mac.n \div 256
           low == mac.n % 256
<1> HIDE DEF high, low
<1>4. Reverse(<<high, low>>) = <<low, high>>
  BY DEF Reverse
<1>5. <<low, high>> \in Bytes
  BY <1>3 DEF Bytes, high, low
<1> QED  BY <1>4, <1>5 DEF Address, high, low

LEMMA WriteBytesTyped ==
  ASSUME request \in Requests
  PROVE  /\ WriteBytes \in Bytes
         /\ Len(WriteBytes) <= BGAPI_WRITE_PAYLOAD /\ Len(WriteBytes) <= Len(HexStrToHexBuf(request.value))
         /\ \A i \in 1 .. Len(WriteBytes) : WriteBytes[i] = HexStrToHexBuf(request.value)[i]
<1> DEFINE bytes == HexStrToHexBuf(request.value)
           n == Min({Len(bytes), BGAPI_WRITE_PAYLOAD})
<1>1. bytes \in Seq(Word8)
  <2>1. request.value \in Seq(0 .. 16)
    BY RequestsAssumption
  <2> QED  BY <2>1, HexBytes DEF Digits, Bytes
<1> HIDE DEF bytes
<1>2. n \in Nat /\ n <= Len(bytes) /\ n <= BGAPI_WRITE_PAYLOAD
  <2>1. PICK l \in Nat : l = Len(bytes)
    BY <1>1
  <2>2. PICK p \in Nat : p = BGAPI_WRITE_PAYLOAD
    BY PayloadAssumption
  <2>3. \E x \in {l, p} : \A y \in {l, p} : x <= y
    BY <2>1, <2>2
  <2>4. Min({l, p}) \in {l, p} /\ \A y \in {l, p} : Min({l, p}) <= y
    BY <2>3 DEF Min
  <2> QED  BY <2>1, <2>2, <2>4
<1>3. WriteBytes = SubSeq(bytes, 1, n)
  BY DEF WriteBytes, bytes
<1> HIDE DEF n
<1>4. SubSeq(bytes, 1, n) \in Seq(Word8) /\ Len(SubSeq(bytes, 1, n)) = n
      /\ \A i \in 1 .. n : SubSeq(bytes, 1, n)[i] = bytes[i]
  BY <1>1, <1>2
<1> QED  BY <1>2, <1>3, <1>4 DEF Bytes, bytes

Checked == CheckConnectionParameters(ConnectionGiven)
CheckedScan == CheckDiscoverParameters(ScanGiven)

LEMMA ScanArguments ==
  LET a == Arguments("set_scan_parameters") IN
  /\ a["interval"] = CheckedScan.interval /\ a["window"] = CheckedScan.window /\ a["active"] = ActiveScan
BY SMT DEF Arguments, CheckedScan
LEMMA DiscoverArguments == Arguments("discover")["mode"] = DiscoverMode
BY SMT DEF Arguments
LEMMA ConnectArguments ==
  ASSUME request \in Requests
  PROVE  LET a == Arguments("connect_direct") IN
         /\ a["address"] = Device /\ a["type"] = AddressType
         /\ a["min"] = Checked.min /\ a["max"] = Checked.max
         /\ a["timeout"] = Checked.timeout /\ a["latency"] = Checked.latency
<1> DEFINE p == Checked
<1>1. p \in Connections
  BY ConnectionGivenTyped, CheckedConnectionTyped DEF Checked
<1>2. DOMAIN p = {"min", "max", "timeout", "latency"}
  BY <1>1 DEF Connections
<1> HIDE DEF p
<1>3. Arguments("connect_direct")
      = [f \in {"address", "type"} \cup DOMAIN p |->
           CASE f = "address" -> Device [] f = "type" -> AddressType [] OTHER -> p[f]]
  BY SMT DEF Arguments, p, Checked
<1>4. LET a == Arguments("connect_direct") IN
         /\ a["address"] = Device /\ a["type"] = AddressType
         /\ a["min"] = p["min"] /\ a["max"] = p["max"]
         /\ a["timeout"] = p["timeout"] /\ a["latency"] = p["latency"]
  BY <1>2, <1>3, SMT
<1> QED  BY <1>4 DEF p
LEMMA UpdateArguments ==
  ASSUME request \in Requests
  PROVE  LET a == Arguments("update") IN
         /\ a["connection"] = call.handle
         /\ a["min"] = Checked.min /\ a["max"] = Checked.max
         /\ a["timeout"] = Checked.timeout /\ a["latency"] = Checked.latency
<1> DEFINE p == Checked
<1>1. p \in Connections
  BY ConnectionGivenTyped, CheckedConnectionTyped DEF Checked
<1>2. DOMAIN p = {"min", "max", "timeout", "latency"}
  BY <1>1 DEF Connections
<1> HIDE DEF p
<1>3. Arguments("update")
      = [f \in {"connection"} \cup DOMAIN p |-> IF f = "connection" THEN call.handle ELSE p[f]]
  BY SMT DEF Arguments, p, Checked
<1>4. LET a == Arguments("update") IN
         /\ a["connection"] = call.handle
         /\ a["min"] = p["min"] /\ a["max"] = p["max"]
         /\ a["timeout"] = p["timeout"] /\ a["latency"] = p["latency"]
  BY <1>2, <1>3, SMT
<1> QED  BY <1>4 DEF p
LEMMA LinkArguments ==
  /\ \A c \in LinkCommands \ {"update"} : Arguments(c)["connection"] = call.handle
  /\ LET a == Arguments("read_by_group_type") IN a["start"] = 1 /\ a["end"] = 65535 /\ a["uuid"] = <<0, 40>>
  /\ LET a == Arguments("find_information") IN
     /\ call.op = "read" => a["start"] = AttributeHandle /\ a["end"] = AttributeHandle
     /\ call.op # "read" => a["start"] = 1 /\ a["end"] = 65535
  /\ Arguments("read_by_handle")["attribute"] = AttributeHandle
  /\ Arguments("attribute_write")["attribute"] = AttributeHandle
  /\ Arguments("attribute_write")["bytes"] = WriteBytes
<1>1. ASSUME NEW c \in LinkCommands \ {"update"} PROVE Arguments(c)["connection"] = call.handle
  BY SMT DEF Arguments, LinkCommands
<1>2. LET a == Arguments("read_by_group_type") IN a["start"] = 1 /\ a["end"] = 65535 /\ a["uuid"] = <<0, 40>>
  BY SMT DEF Arguments
<1>3. LET a == Arguments("find_information") IN
     /\ call.op = "read" => a["start"] = AttributeHandle /\ a["end"] = AttributeHandle
     /\ call.op # "read" => a["start"] = 1 /\ a["end"] = 65535
  BY SMT DEF Arguments
<1>4. /\ Arguments("read_by_handle")["attribute"] = AttributeHandle
      /\ Arguments("attribute_write")["attribute"] = AttributeHandle
      /\ Arguments("attribute_write")["bytes"] = WriteBytes
  BY SMT DEF Arguments
<1> QED  BY <1>1, <1>2, <1>3, <1>4

-----------------------------------------------------------------------------
(* The commands under way to the client.                                   *)

Plainly == {"get_info", "get_connections", "end_procedure"}
Legal == {p \in Connections : LegalConnection(p)}
LegalScans == {s \in Scans : LegalScan(s)}
PlainMsg(c) == Message(c, <<>>, <<>>)
ScanMsg(s, active) == Message("set_scan_parameters", <<"v", "v", "c">>, <<s.interval, s.window, active>>)
DiscoverMsg(mode) == Message("discover", <<"v">>, <<mode>>)
ConnectMsg(address, type, p) ==
  Message("connect_direct", <<"A", "c", "v", "v", "v", "v">>, <<address, type, p.min, p.max, p.timeout, p.latency>>)
UpdateMsg(h, p) == Message("update", <<"c", "v", "v", "v", "v">>, <<h, p.min, p.max, p.timeout, p.latency>>)
DisconnectMsg(h) == Message("disconnect", <<"c">>, <<h>>)
GroupMsg(h, uuid) == Message("read_by_group_type", <<"c", "v", "v", "B">>, <<h, 1, 65535, uuid>>)
FindMsg(h, start, end) == Message("find_information", <<"c", "v", "v">>, <<h, start, end>>)
ReadMsg(h, attribute) == Message("read_by_handle", <<"c", "v">>, <<h, attribute>>)
WriteMsg(h, attribute, bytes) == Message("attribute_write", <<"c", "v", "B">>, <<h, attribute, bytes>>)

OnLinkMessages ==
  {UpdateMsg(h, p) : h \in Handle, p \in Legal} \cup {DisconnectMsg(h) : h \in Handle}
  \cup {GroupMsg(h, uuid) : h \in Handle, uuid \in Bytes}
  \cup {FindMsg(h, start, end) : h \in Handle, start \in Word16, end \in Word16}
  \cup {ReadMsg(h, attribute) : h \in Handle, attribute \in Word16}
  \cup {WriteMsg(h, attribute, bytes) : h \in Handle, attribute \in Word16, bytes \in Bytes}
CommandMessages ==
  {PlainMsg(c) : c \in Plainly} \cup {ScanMsg(s, active) : s \in LegalScans, active \in Word8}
  \cup {DiscoverMsg(mode) : mode \in Word16}
  \cup {ConnectMsg(address, type, p) : address \in Bytes, type \in Word8, p \in Legal}
  \cup OnLinkMessages

LEMMA HandlesAreBytes == Handle \subseteq Word8
<1>1. \A n \in 0 .. 254 : n \in 0 .. 255
  BY SMT
<1> QED  BY <1>1, HandleAssumption, SMT DEF Word8

LEMMA LegalFields ==
  ASSUME NEW p \in Legal
  PROVE  /\ p.min \in Word16 /\ p.max \in Word16 /\ p.timeout \in Word16 /\ p.latency \in Word16
         /\ p = ConnectionParameters(p.min, p.max, p.timeout, p.latency)
         /\ LegalConnection(p)
BY DEF Legal, Connections, ConnectionParameters
LEMMA LegalScanFields ==
  ASSUME NEW s \in LegalScans
  PROVE  /\ s.interval \in Word16 /\ s.window \in Word16
         /\ s = [interval |-> s.interval, window |-> s.window]
         /\ LegalScan(s)
BY DEF LegalScans, Scans

LEMMA Widths ==
  /\ \A v \in Word8 : Width("c", v)
  /\ \A v \in Word16 : Width("v", v)
  /\ \A v \in Bytes : Width("A", v) /\ Width("B", v)
<1>1. \A v \in Word8 : Width("c", v)
  BY DEF Width
<1>2. \A v \in Word16 : Width("v", v)
  BY DEF Width
<1>3. ASSUME NEW v \in Bytes PROVE \A i \in DOMAIN v : v[i] \in Word8
  BY DEF Bytes
<1>4. \A v \in Bytes : Width("A", v) /\ Width("B", v)
  BY <1>3 DEF Width
<1> QED  BY <1>1, <1>2, <1>4

\* An answer is well formed when each of its fields is.
LEMMA WellFormed1 ==
  ASSUME NEW idx, NEW t1, NEW v1, Width(t1, v1)
  PROVE  WellFormed(Message(idx, <<t1>>, <<v1>>))
BY SMT DEF WellFormed, Message
LEMMA WellFormed2 ==
  ASSUME NEW idx, NEW t1, NEW v1, Width(t1, v1), NEW t2, NEW v2, Width(t2, v2)
  PROVE  WellFormed(Message(idx, <<t1, t2>>, <<v1, v2>>))
BY SMT DEF WellFormed, Message
LEMMA WellFormed3 ==
  ASSUME NEW idx, NEW t1, NEW v1, Width(t1, v1), NEW t2, NEW v2, Width(t2, v2), NEW t3, NEW v3, Width(t3, v3)
  PROVE  WellFormed(Message(idx, <<t1, t2, t3>>, <<v1, v2, v3>>))
BY SMT DEF WellFormed, Message
LEMMA WellFormed4 ==
  ASSUME NEW idx, NEW t1, NEW v1, Width(t1, v1), NEW t2, NEW v2, Width(t2, v2), NEW t3, NEW v3, Width(t3, v3),
         NEW t4, NEW v4, Width(t4, v4)
  PROVE  WellFormed(Message(idx, <<t1, t2, t3, t4>>, <<v1, v2, v3, v4>>))
BY SMT DEF WellFormed, Message
LEMMA WellFormed5 ==
  ASSUME NEW idx, NEW t1, NEW v1, Width(t1, v1), NEW t2, NEW v2, Width(t2, v2), NEW t3, NEW v3, Width(t3, v3),
         NEW t4, NEW v4, Width(t4, v4), NEW t5, NEW v5, Width(t5, v5)
  PROVE  WellFormed(Message(idx, <<t1, t2, t3, t4, t5>>, <<v1, v2, v3, v4, v5>>))
BY SMT DEF WellFormed, Message
LEMMA WellFormed6 ==
  ASSUME NEW idx, NEW t1, NEW v1, Width(t1, v1), NEW t2, NEW v2, Width(t2, v2), NEW t3, NEW v3, Width(t3, v3),
         NEW t4, NEW v4, Width(t4, v4), NEW t5, NEW v5, Width(t5, v5), NEW t6, NEW v6, Width(t6, v6)
  PROVE  WellFormed(Message(idx, <<t1, t2, t3, t4, t5, t6>>, <<v1, v2, v3, v4, v5, v6>>))
BY SMT DEF WellFormed, Message

LEMMA OneAndLast == 1 \in Word16 /\ 65535 \in Word16 /\ 0 \in Word8 /\ 1 \in Word8
BY SMT DEF Word16, Word8

LEMMA CommandsWellFormed ==
  ASSUME NEW m \in CommandMessages
  PROVE  WellFormed(m)
<1>1. ASSUME NEW c \in Plainly PROVE WellFormed(PlainMsg(c))
  BY SMT DEF WellFormed, Message, PlainMsg
<1>2. ASSUME NEW s \in LegalScans, NEW active \in Word8 PROVE WellFormed(ScanMsg(s, active))
  BY Widths, LegalScanFields, WellFormed3 DEF ScanMsg
<1>3. ASSUME NEW mode \in Word16 PROVE WellFormed(DiscoverMsg(mode))
  BY Widths, WellFormed1 DEF DiscoverMsg
<1>4. ASSUME NEW address \in Bytes, NEW type \in Word8, NEW p \in Legal
      PROVE  WellFormed(ConnectMsg(address, type, p))
  BY Widths, LegalFields, WellFormed6 DEF ConnectMsg
<1>5. ASSUME NEW h \in Handle, NEW p \in Legal PROVE WellFormed(UpdateMsg(h, p))
  BY HandlesAreBytes, Widths, LegalFields, WellFormed5 DEF UpdateMsg
<1>6. ASSUME NEW h \in Handle PROVE WellFormed(DisconnectMsg(h))
  BY HandlesAreBytes, Widths, WellFormed1 DEF DisconnectMsg
<1>7. ASSUME NEW h \in Handle, NEW uuid \in Bytes PROVE WellFormed(GroupMsg(h, uuid))
  BY HandlesAreBytes, Widths, OneAndLast, WellFormed4 DEF GroupMsg
<1>8. ASSUME NEW h \in Handle, NEW start \in Word16, NEW end \in Word16 PROVE WellFormed(FindMsg(h, start, end))
  BY HandlesAreBytes, Widths, WellFormed3 DEF FindMsg
<1>9. ASSUME NEW h \in Handle, NEW attribute \in Word16 PROVE WellFormed(ReadMsg(h, attribute))
  BY HandlesAreBytes, Widths, WellFormed2 DEF ReadMsg
<1>10. ASSUME NEW h \in Handle, NEW attribute \in Word16, NEW bytes \in Bytes
       PROVE  WellFormed(WriteMsg(h, attribute, bytes))
  BY HandlesAreBytes, Widths, WellFormed3 DEF WriteMsg
<1> QED  BY <1>1, <1>2, <1>3, <1>4, <1>5, <1>6, <1>7, <1>8, <1>9, <1>10 DEF CommandMessages, OnLinkMessages

-----------------------------------------------------------------------------
(* The responses and events under way to the driver.                       *)

Simply == {"set_scan_parameters", "discover", "end_procedure"}
Results == {0, 1}
SimpleRsp(c, result) == Message(c, <<"v">>, <<result>>)
LinkRsp(c, h, result) == Message(c, <<"c", "v">>, <<h, result>>)
ConnectRsp(h, result) == Message("connect_direct", <<"v", "c">>, <<result, h>>)
MaxConnectionsRsp == Message("get_connections", <<"c">>, <<Cardinality(Handle)>>)
InfoRsp == Message("get_info", <<"v", "v", "v", "v", "v", "c", "c">>, <<1, 1, 1, 1, 1, 1, 1>>)
StatusMsg(h, address, flags) ==
  Message("status", <<"A", "c", "c", "c", "v", "v", "v", "c">>,
          <<address, h, flags, 1, CONNECT_INTERVAL, CONNECT_TIMEOUT, 0, 255>>)
GoneMsg(h, reason) == Message("disconnected", <<"c", "v">>, <<h, reason>>)
CompletedMsg(h, result) == Message("procedure_completed", <<"c", "v", "v">>, <<h, result, 1>>)
ValueMsg(h) == Message("attribute_value", <<"c", "v", "c", "B">>, <<h, 1, 0, Longest(22)>>)
GroupFoundMsg(h) == Message("group_found", <<"c", "v", "v", "B">>, <<h, 1, 65535, Longest(16)>>)
InfoFoundMsg(h) == Message("information_found", <<"c", "v", "B">>, <<h, 1, Longest(16)>>)
FoundMsg == Message("scan_response", <<"A", "c", "c", "c", "c", "B">>, <<Nobody, 200, 0, 1, 255, Longest(31)>>)

Responses ==
  {SimpleRsp(c, result) : c \in Simply, result \in Results}
  \cup {LinkRsp(c, h, result) : c \in LinkCommands, h \in Handle, result \in Results}
  \cup {ConnectRsp(h, result) : h \in Word8, result \in Results}
  \cup {MaxConnectionsRsp, InfoRsp}
Events ==
  {StatusMsg(h, address, flags) : h \in Handle, address \in Bytes, flags \in {5, 9}}
  \cup {GoneMsg(h, reason) : h \in Handle, reason \in {520, 534}}
  \cup {CompletedMsg(h, result) : h \in Handle, result \in {0, 1025}}
  \cup {ValueMsg(h) : h \in Handle}
Findings == {GroupFoundMsg(h) : h \in Handle} \cup {InfoFoundMsg(h) : h \in Handle} \cup {FoundMsg}
Answers == Responses \cup Events \cup Findings

LEMMA SmallNumbers ==
  /\ 0 \in Word16 /\ 1 \in Word16 /\ 1025 \in Word16 /\ 520 \in Word16 /\ 534 \in Word16 /\ 65535 \in Word16
  /\ 0 \in Word8 /\ 1 \in Word8 /\ 5 \in Word8 /\ 9 \in Word8 /\ 200 \in Word8 /\ 255 \in Word8
  /\ CONNECT_INTERVAL \in Word16 /\ CONNECT_TIMEOUT \in Word16
BY SMT DEF Word16, Word8, CONNECT_INTERVAL, CONNECT_TIMEOUT

LEMMA LongestTyped == \A n \in Nat : Longest(n) \in Bytes /\ Len(Longest(n)) = n
BY SmallNumbers DEF Longest, Bytes

LEMMA HandlesFinite == Cardinality(Handle) \in Word8
<1>1. IsFiniteSet(0 .. 254) /\ Cardinality(0 .. 254) = 255
  <2>1. IsFiniteSet(0 .. 254) /\ Cardinality(0 .. 254) = IF 0 > 254 THEN 0 ELSE 254 - 0 + 1
    BY FS_Interval, 0 \in Int, 254 \in Int, ZenonT(60)
  <2> QED  BY <2>1
<1>2. IsFiniteSet(Handle) /\ Cardinality(Handle) <= 255
  <2>1. PICK S : S = 0 .. 254
    OBVIOUS
  <2>2. IsFiniteSet(S) /\ Cardinality(S) = 255 /\ Handle \in SUBSET S
    BY <1>1, <2>1, HandleAssumption
  <2> QED  BY <2>2, FS_Subset
<1>3. Cardinality(Handle) \in Nat
  BY <1>2, FS_CardinalityType
<1> QED  BY <1>2, <1>3, SMT DEF Word8

LEMMA AnswersWellFormed ==
  ASSUME NEW m \in Answers
  PROVE  WellFormed(m)
<1>0. <<>> \in Bytes /\ Longest(22) \in Bytes /\ Longest(16) \in Bytes /\ Longest(31) \in Bytes
  BY LongestTyped DEF Bytes
<1>1. ASSUME NEW c, NEW result \in Results PROVE WellFormed(SimpleRsp(c, result))
  BY Widths, SmallNumbers, WellFormed1 DEF SimpleRsp, Results
<1>2. ASSUME NEW c, NEW h \in Handle, NEW result \in Results PROVE WellFormed(LinkRsp(c, h, result))
  BY HandlesAreBytes, Widths, SmallNumbers, WellFormed2 DEF LinkRsp, Results
<1>3. ASSUME NEW h \in Word8, NEW result \in Results PROVE WellFormed(ConnectRsp(h, result))
  BY HandlesAreBytes, Widths, SmallNumbers, WellFormed2 DEF ConnectRsp, Results
<1>4. WellFormed(MaxConnectionsRsp)
  BY HandlesFinite, Widths, WellFormed1 DEF MaxConnectionsRsp
<1>5. WellFormed(InfoRsp)
  <2>1. Width("v", 1) /\ Width("c", 1)
    BY Widths, SmallNumbers
  <2> QED  BY <2>1, SMT DEF InfoRsp, WellFormed, Message
<1>6. ASSUME NEW h \in Handle, NEW address \in Bytes, NEW flags \in {5, 9} PROVE WellFormed(StatusMsg(h, address, flags))
  <2>1. Width("A", address) /\ Width("c", h) /\ Width("c", flags) /\ Width("c", 1)
        /\ Width("v", CONNECT_INTERVAL) /\ Width("v", CONNECT_TIMEOUT) /\ Width("v", 0) /\ Width("c", 255)
    BY HandlesAreBytes, Widths, SmallNumbers
  <2> QED  BY <2>1, SMT DEF StatusMsg, WellFormed, Message
<1>7. ASSUME NEW h \in Handle, NEW reason \in {520, 534} PROVE WellFormed(GoneMsg(h, reason))
  BY HandlesAreBytes, Widths, SmallNumbers, WellFormed2 DEF GoneMsg
<1>8. ASSUME NEW h \in Handle, NEW result \in {0, 1025} PROVE WellFormed(CompletedMsg(h, result))
  BY HandlesAreBytes, Widths, SmallNumbers, WellFormed3 DEF CompletedMsg
<1>9. ASSUME NEW h \in Handle PROVE WellFormed(ValueMsg(h))
  BY <1>0, HandlesAreBytes, Widths, SmallNumbers, WellFormed4 DEF ValueMsg
<1>10. ASSUME NEW h \in Handle PROVE WellFormed(GroupFoundMsg(h))
  BY <1>0, HandlesAreBytes, Widths, SmallNumbers, WellFormed4 DEF GroupFoundMsg
<1>11. ASSUME NEW h \in Handle PROVE WellFormed(InfoFoundMsg(h))
  BY <1>0, HandlesAreBytes, Widths, SmallNumbers, WellFormed3 DEF InfoFoundMsg
<1>12. WellFormed(FoundMsg)
  <2>1. Width("A", Nobody) /\ Width("c", 200) /\ Width("c", 0) /\ Width("c", 1) /\ Width("c", 255)
        /\ Width("B", Longest(31))
    BY <1>0, Widths, SmallNumbers DEF Nobody
  <2> QED  BY <2>1, WellFormed6 DEF FoundMsg
<1> QED  BY <1>1, <1>2, <1>3, <1>4, <1>5, <1>6, <1>7, <1>8, <1>9, <1>10, <1>11, <1>12
            DEF Answers, Responses, Events, Findings

\* Fields without a buffer, and with one of at most 31 bytes at the end.
LEMMA NoBuffer ==
  ASSUME NEW m, Shape(m.types), \A i \in DOMAIN m.types : m.types[i] # "B"
  PROVE  MessageSize(m) \in 0 .. 127
BY SizeBounded
LEMMA OneBuffer ==
  ASSUME NEW m, Shape(m.types), NEW n, \A i \in DOMAIN m.types : m.types[i] = "B" => i = n,
         Len(m.values[n]) \in 0 .. 31
  PROVE  MessageSize(m) \in 0 .. 127
BY SizeBounded

LEMMA Shapes ==
  /\ Shape(<<"v">>) /\ Shape(<<"c">>) /\ Shape(<<"c", "v">>) /\ Shape(<<"v", "c">>) /\ Shape(<<"c", "v", "v">>)
  /\ Shape(<<"v", "v", "v", "v", "v", "c", "c">>) /\ Shape(<<"A", "c", "c", "c", "v", "v", "v", "c">>)
  /\ Shape(<<"c", "v", "c", "B">>) /\ Shape(<<"c", "v", "v", "B">>) /\ Shape(<<"c", "v", "B">>)
  /\ Shape(<<"A", "c", "c", "c", "c", "B">>)
<1>1. Shape(<<"v">>) /\ Shape(<<"c">>) /\ Shape(<<"c", "v">>) /\ Shape(<<"v", "c">>)
  BY SMT DEF Shape, Types
<1>2. Shape(<<"c", "v", "v">>) /\ Shape(<<"c", "v", "B">>)
  BY SMT DEF Shape, Types
<1>3. Shape(<<"c", "v", "c", "B">>) /\ Shape(<<"c", "v", "v", "B">>)
  BY SMT DEF Shape, Types
<1>4. Shape(<<"A", "c", "c", "c", "c", "B">>)
  BY SMT DEF Shape, Types
<1>5. Shape(<<"v", "v", "v", "v", "v", "c", "c">>)
  BY SMT DEF Shape, Types
<1>6. Shape(<<"A", "c", "c", "c", "v", "v", "v", "c">>)
  BY SMT DEF Shape, Types
<1> QED  BY <1>1, <1>2, <1>3, <1>4, <1>5, <1>6

LEMMA AnswersSized ==
  ASSUME NEW m \in Answers
  PROVE  MessageSize(m) \in 0 .. 127
<1>0. Len(Longest(22)) \in 0 .. 31 /\ Len(Longest(16)) \in 0 .. 31 /\ Len(Longest(31)) \in 0 .. 31
  <2>1. 22 \in Nat /\ 16 \in Nat /\ 31 \in Nat
    OBVIOUS
  <2>2. Len(Longest(22)) = 22 /\ Len(Longest(16)) = 16 /\ Len(Longest(31)) = 31
    BY <2>1, LongestTyped
  <2> QED  BY <2>2
<1>1. ASSUME NEW c, NEW result PROVE MessageSize(SimpleRsp(c, result)) \in 0 .. 127
  BY Shapes, NoBuffer, SMT DEF SimpleRsp, Message
<1>2. ASSUME NEW c, NEW h, NEW result PROVE MessageSize(LinkRsp(c, h, result)) \in 0 .. 127
  BY Shapes, NoBuffer, SMT DEF LinkRsp, Message
<1>3. ASSUME NEW h, NEW result PROVE MessageSize(ConnectRsp(h, result)) \in 0 .. 127
  BY Shapes, NoBuffer, SMT DEF ConnectRsp, Message
<1>4. MessageSize(MaxConnectionsRsp) \in 0 .. 127
  BY Shapes, NoBuffer, SMT DEF MaxConnectionsRsp, Message
<1>5. MessageSize(InfoRsp) \in 0 .. 127
  BY Shapes, NoBuffer, SMT DEF InfoRsp, Message
<1>6. ASSUME NEW h, NEW address, NEW flags PROVE MessageSize(StatusMsg(h, address, flags)) \in 0 .. 127
  BY Shapes, NoBuffer, SMT DEF StatusMsg, Message
<1>7. ASSUME NEW h, NEW reason PROVE MessageSize(GoneMsg(h, reason)) \in 0 .. 127
  BY Shapes, NoBuffer, SMT DEF GoneMsg, Message
<1>8. ASSUME NEW h, NEW result PROVE MessageSize(CompletedMsg(h, result)) \in 0 .. 127
  BY Shapes, NoBuffer, SMT DEF CompletedMsg, Message
<1>9. ASSUME NEW h PROVE MessageSize(ValueMsg(h)) \in 0 .. 127
  <2> DEFINE m1 == ValueMsg(h)
  <2>1. m1.types = <<"c", "v", "c", "B">> /\ m1.values[4] = Longest(22)
    BY SMT DEF ValueMsg, Message
  <2>2. \A i \in DOMAIN m1.types : m1.types[i] = "B" => i = 4
    BY <2>1, SMT
  <2> HIDE DEF m1
  <2>a. Shape(m1.types)
    BY <2>1, Shapes
  <2>b. Len(m1.values[4]) \in 0 .. 31
    BY <1>0, <2>1
  <2>3. MessageSize(m1) \in 0 .. 127
    BY <2>2, <2>a, <2>b, OneBuffer
  <2> QED  BY <2>3 DEF m1
<1>10. ASSUME NEW h PROVE MessageSize(GroupFoundMsg(h)) \in 0 .. 127
  <2> DEFINE m1 == GroupFoundMsg(h)
  <2>1. m1.types = <<"c", "v", "v", "B">> /\ m1.values[4] = Longest(16)
    BY SMT DEF GroupFoundMsg, Message
  <2>2. \A i \in DOMAIN m1.types : m1.types[i] = "B" => i = 4
    BY <2>1, SMT
  <2> HIDE DEF m1
  <2>a. Shape(m1.types)
    BY <2>1, Shapes
  <2>b. Len(m1.values[4]) \in 0 .. 31
    BY <1>0, <2>1
  <2>3. MessageSize(m1) \in 0 .. 127
    BY <2>2, <2>a, <2>b, OneBuffer
  <2> QED  BY <2>3 DEF m1
<1>11. ASSUME NEW h PROVE MessageSize(InfoFoundMsg(h)) \in 0 .. 127
  <2> DEFINE m1 == InfoFoundMsg(h)
  <2>1. m1.types = <<"c", "v", "B">> /\ m1.values[3] = Longest(16)
    BY SMT DEF InfoFoundMsg, Message
  <2>2. \A i \in DOMAIN m1.types : m1.types[i] = "B" => i = 3
    BY <2>1, SMT
  <2> HIDE DEF m1
  <2>a. Shape(m1.types)
    BY <2>1, Shapes
  <2>b. Len(m1.values[3]) \in 0 .. 31
    BY <1>0, <2>1
  <2>3. MessageSize(m1) \in 0 .. 127
    BY <2>2, <2>a, <2>b, OneBuffer
  <2> QED  BY <2>3 DEF m1
<1>12. MessageSize(FoundMsg) \in 0 .. 127
  <2> DEFINE m1 == FoundMsg
  <2>1. m1.types = <<"A", "c", "c", "c", "c", "B">> /\ m1.values[6] = Longest(31)
    BY SMT DEF FoundMsg, Message
  <2>2. \A i \in DOMAIN m1.types : m1.types[i] = "B" => i = 6
    BY <2>1, SMT
  <2> HIDE DEF m1
  <2>a. Shape(m1.types)
    BY <2>1, Shapes
  <2>b. Len(m1.values[6]) \in 0 .. 31
    BY <1>0, <2>1
  <2>3. MessageSize(m1) \in 0 .. 127
    BY <2>2, <2>a, <2>b, OneBuffer
  <2> QED  BY <2>3 DEF m1
<1> QED  BY <1>1, <1>2, <1>3, <1>4, <1>5, <1>6, <1>7, <1>8, <1>9, <1>10, <1>11, <1>12
            DEF Answers, Responses, Events, Findings

-----------------------------------------------------------------------------
(* What the client calls.                                                  *)

Call(m) == [cmd |-> m.idx, args |-> Unpacked(ClientCalls[m.idx], m)]
Calls == {Call(m) : m \in CommandMessages}

LegalCall(c) ==
  LET a == c.args IN
    /\ c.cmd = "connect_direct" =>
         LegalConnection(ConnectionParameters(a.conn_interval_min, a.conn_interval_max, a.timeout, a.latency))
    /\ c.cmd = "update" =>
         LegalConnection(ConnectionParameters(a.interval_min, a.interval_max, a.timeout, a.latency))
    /\ c.cmd = "set_scan_parameters" =>
         LegalScan([interval |-> a.scan_interval, window |-> a.scan_window])

LEMMA CallsLegal == \A c \in Calls : LegalCall(c)
<1>1. SUFFICES ASSUME NEW m \in CommandMessages PROVE LegalCall(Call(m))
  BY DEF Calls
<1>2. CASE m \in {PlainMsg(c) : c \in Plainly}
  <2>1. m.idx \in Plainly
    BY <1>2 DEF PlainMsg, Message
  <2> QED  BY <2>1 DEF LegalCall, Call, Plainly
<1>3. CASE m \in {ScanMsg(s, active) : s \in LegalScans, active \in Word8}
  <2>1. PICK s \in LegalScans, active \in Word8 : m = ScanMsg(s, active)
    BY <1>3
  <2>2. LET a == Unpacked(ClientCalls["set_scan_parameters"], m) IN a.scan_interval = s.interval /\ a.scan_window = s.window
    BY <2>1, ScanParametersCalled DEF ScanMsg
  <2>3. m.idx = "set_scan_parameters"
    BY <2>1 DEF ScanMsg, Message
  <2> QED  BY <2>2, <2>3, LegalScanFields DEF LegalCall, Call
<1>4. CASE m \in {DiscoverMsg(mode) : mode \in Word16}
  <2>1. m.idx = "discover"
    BY <1>4 DEF DiscoverMsg, Message
  <2> QED  BY <2>1 DEF LegalCall, Call
<1>5. CASE m \in {ConnectMsg(address, type, p) : address \in Bytes, type \in Word8, p \in Legal}
  <2>1. PICK address \in Bytes, type \in Word8, p \in Legal : m = ConnectMsg(address, type, p)
    BY <1>5
  <2>2. LET a == Unpacked(ClientCalls["connect_direct"], m) IN
          /\ a.conn_interval_min = p.min /\ a.conn_interval_max = p.max
          /\ a.timeout = p.timeout /\ a.latency = p.latency
    BY <2>1, ConnectDirectCalled DEF ConnectMsg
  <2>3. m.idx = "connect_direct"
    BY <2>1 DEF ConnectMsg, Message
  <2> QED  BY <2>2, <2>3, LegalFields DEF LegalCall, Call
<1>6. CASE m \in {UpdateMsg(h, p) : h \in Handle, p \in Legal}
  <2>1. PICK h \in Handle, p \in Legal : m = UpdateMsg(h, p)
    BY <1>6
  <2>2. LET a == Unpacked(ClientCalls["update"], m) IN
          /\ a.interval_min = p.min /\ a.interval_max = p.max
          /\ a.timeout = p.timeout /\ a.latency = p.latency
    BY <2>1, UpdateCalled DEF UpdateMsg
  <2>3. m.idx = "update"
    BY <2>1 DEF UpdateMsg, Message
  <2> QED  BY <2>2, <2>3, LegalFields DEF LegalCall, Call
<1>7. CASE m \in OnLinkMessages \ {UpdateMsg(h, p) : h \in Handle, p \in Legal}
  <2>1. m.idx \in {"disconnect", "read_by_group_type", "find_information", "read_by_handle", "attribute_write"}
    BY <1>7 DEF OnLinkMessages, DisconnectMsg, GroupMsg, FindMsg, ReadMsg, WriteMsg, Message
  <2> QED  BY <2>1 DEF LegalCall, Call
<1> QED  BY <1>2, <1>3, <1>4, <1>5, <1>6, <1>7 DEF CommandMessages, OnLinkMessages

\* A command on a connection reaches BGLIB with the handle of one.
LEMMA CallsOnLinks ==
  ASSUME NEW m \in CommandMessages
  PROVE  /\ m.idx \in Plainly \cup {"set_scan_parameters", "discover", "connect_direct"} \cup LinkCommands
         /\ m.idx \in LinkCommands => Unpacked(ClientCalls[m.idx], m).connection \in Handle
         /\ m.idx = "connect_direct" => Unpacked(ClientCalls[m.idx], m).address \in Bytes
<1>1. CASE m \in {PlainMsg(c) : c \in Plainly}
  <2>1. m.idx \in Plainly
    BY <1>1 DEF PlainMsg, Message
  <2> QED  BY <2>1 DEF LinkCommands, Plainly
<1>2. CASE m \in {ScanMsg(s, active) : s \in LegalScans, active \in Word8}
  <2>1. m.idx = "set_scan_parameters"
    BY <1>2 DEF ScanMsg, Message
  <2> QED  BY <2>1 DEF LinkCommands
<1>3. CASE m \in {DiscoverMsg(mode) : mode \in Word16}
  <2>1. m.idx = "discover"
    BY <1>3 DEF DiscoverMsg, Message
  <2> QED  BY <2>1 DEF LinkCommands
<1>4. CASE m \in {ConnectMsg(address, type, p) : address \in Bytes, type \in Word8, p \in Legal}
  <2>1. PICK address \in Bytes, type \in Word8, p \in Legal : m = ConnectMsg(address, type, p)
    BY <1>4
  <2>2. m.idx = "connect_direct" /\ Unpacked(ClientCalls["connect_direct"], m).address = address
    BY <2>1, ConnectDirectCalled DEF ConnectMsg, Message
  <2> QED  BY <2>2 DEF LinkCommands
<1>5. CASE m \in {UpdateMsg(h, p) : h \in Handle, p \in Legal}
  <2>1. PICK h \in Handle, p \in Legal : m = UpdateMsg(h, p)
    BY <1>5
  <2>2. m.idx = "update" /\ Unpacked(ClientCalls["update"], m).connection = h
    BY <2>1, UpdateCalled DEF UpdateMsg, Message
  <2> QED  BY <2>2 DEF LinkCommands
<1>6. CASE m \in {DisconnectMsg(h) : h \in Handle}
  <2>1. PICK h \in Handle : m = DisconnectMsg(h)
    BY <1>6
  <2>2. m.idx = "disconnect" /\ Unpacked(ClientCalls["disconnect"], m).connection = h
    BY <2>1, DisconnectCalled DEF DisconnectMsg, Message
  <2> QED  BY <2>2 DEF LinkCommands
<1>7. CASE m \in {GroupMsg(h, uuid) : h \in Handle, uuid \in Bytes}
  <2>1. PICK h \in Handle, uuid \in Bytes : m = GroupMsg(h, uuid)
    BY <1>7
  <2>2. m.idx = "read_by_group_type" /\ Unpacked(ClientCalls["read_by_group_type"], m).connection = h
    BY <2>1, GroupTypeCalled DEF GroupMsg, Message
  <2> QED  BY <2>2 DEF LinkCommands
<1>8. CASE m \in {FindMsg(h, start, end) : h \in Handle, start \in Word16, end \in Word16}
  <2>1. PICK h \in Handle, start \in Word16, end \in Word16 : m = FindMsg(h, start, end)
    BY <1>8
  <2>2. m.idx = "find_information" /\ Unpacked(ClientCalls["find_information"], m).connection = h
    BY <2>1, FindInformationCalled DEF FindMsg, Message
  <2> QED  BY <2>2 DEF LinkCommands
<1>9. CASE m \in {ReadMsg(h, attribute) : h \in Handle, attribute \in Word16}
  <2>1. PICK h \in Handle, attribute \in Word16 : m = ReadMsg(h, attribute)
    BY <1>9
  <2>2. m.idx = "read_by_handle" /\ Unpacked(ClientCalls["read_by_handle"], m).connection = h
    BY <2>1, ReadByHandleCalled DEF ReadMsg, Message
  <2> QED  BY <2>2 DEF LinkCommands
<1>10. CASE m \in {WriteMsg(h, attribute, bytes) : h \in Handle, attribute \in Word16, bytes \in Bytes}
  <2>1. PICK h \in Handle, attribute \in Word16, bytes \in Bytes : m = WriteMsg(h, attribute, bytes)
    BY <1>10
  <2>2. m.idx = "attribute_write" /\ Unpacked(ClientCalls["attribute_write"], m).connection = h
    BY <2>1, AttributeWriteCalled DEF WriteMsg, Message
  <2> QED  BY <2>2 DEF LinkCommands
<1> QED  BY <1>1, <1>2, <1>3, <1>4, <1>5, <1>6, <1>7, <1>8, <1>9, <1>10 DEF CommandMessages, OnLinkMessages

-----------------------------------------------------------------------------
(* The commands of a request.                                              *)

Ops == {"connect", "update", "disconnect", "read", "write", "readall", "discover", "info"}
LEMMA Scripted ==
  /\ DOMAIN Script = Ops
  /\ Script["connect"] = << Step("connect_direct", {"GAP_CONNECTION_RSP_EVT"}), Step("none", {"GAP_CONNECTION_EVT"}) >>
  /\ Script["update"] = << Step("update", {"CONNECTION_UPDATE_RSP_EVT"}),
                           Step("none", {"CONNECTION_UPDATE_EVT", "CONNECTION_DISCONNECT_EVT"}) >>
  /\ Script["disconnect"] = << Step("disconnect", {"CONNECTION_DISCONNECT_RSP_EVT"}),
                               Step("none", {"CONNECTION_DISCONNECT_EVT"}) >>
  /\ Script["read"] = << Step("find_information", {"ATTCLIENT_FINDINFO_RSP_EVT"}), Step("none", ProcedureOver),
                         Step("read_by_handle", {"ATTCLIENT_READ_RSP_EVT"}),
                         Step("none", {"ATTCLIENT_ATTRIBUTE_FOUND_EVT"} \cup ProcedureOver) >>
  /\ Script["write"] = << Step("attribute_write", {"ATTCLIENT_WRITE_RSP_EVT"}), Step("none", ProcedureOver) >>
  /\ Script["readall"] = << Step("read_by_group_type", {"ATTCLIENT_READGROUP_RSP_EVT"}), Step("none", ProcedureOver),
                            Step("find_information", {"ATTCLIENT_FINDINFO_RSP_EVT"}), Step("none", ProcedureOver) >>
  /\ Script["discover"] = << Step("discover", {"GAP_DISCOVER_RSP_EVT"}) >>
  /\ Script["info"] = << Step("get_info", {"SYS_GET_INFO_RSP_EVT"}), Step("get_connections", {"SYS_GET_MAXCON_RSP_EVT"}) >>
BY SMTT(60) DEF Script, Ops, ConnectScript, UpdateScript, DisconnectScript, ReadScript, WriteScript, ReadAllScript,
           DiscoverScript, InfoScript

\* What each step of each command sends, and what it then waits for.
LEMMA ScriptEntries ==
  ASSUME NEW op \in Ops, NEW step \in 1 .. Len(Script[op])
  PROVE  LET s == Script[op][step] IN
         \/ op = "connect" /\ step = 1 /\ s.send = "connect_direct" /\ s.on = {"GAP_CONNECTION_RSP_EVT"}
         \/ op = "connect" /\ step = 2 /\ s.send = "none" /\ s.on = {"GAP_CONNECTION_EVT"}
         \/ op = "update" /\ step = 1 /\ s.send = "update" /\ s.on = {"CONNECTION_UPDATE_RSP_EVT"}
         \/ op = "update" /\ step = 2 /\ s.send = "none" /\ s.on = {"CONNECTION_UPDATE_EVT", "CONNECTION_DISCONNECT_EVT"}
         \/ op = "disconnect" /\ step = 1 /\ s.send = "disconnect" /\ s.on = {"CONNECTION_DISCONNECT_RSP_EVT"}
         \/ op = "disconnect" /\ step = 2 /\ s.send = "none" /\ s.on = {"CONNECTION_DISCONNECT_EVT"}
         \/ op = "read" /\ step = 1 /\ s.send = "find_information" /\ s.on = {"ATTCLIENT_FINDINFO_RSP_EVT"}
         \/ op = "read" /\ step = 2 /\ s.send = "none" /\ s.on = ProcedureOver
         \/ op = "read" /\ step = 3 /\ s.send = "read_by_handle" /\ s.on = {"ATTCLIENT_READ_RSP_EVT"}
         \/ op = "read" /\ step = 4 /\ s.send = "none" /\ s.on = {"ATTCLIENT_ATTRIBUTE_FOUND_EVT"} \cup ProcedureOver
         \/ op = "write" /\ step = 1 /\ s.send = "attribute_write" /\ s.on = {"ATTCLIENT_WRITE_RSP_EVT"}
         \/ op = "write" /\ step = 2 /\ s.send = "none" /\ s.on = ProcedureOver
         \/ op = "readall" /\ step = 1 /\ s.send = "read_by_group_type" /\ s.on = {"ATTCLIENT_READGROUP_RSP_EVT"}
         \/ op = "readall" /\ step = 2 /\ s.send = "none" /\ s.on = ProcedureOver
         \/ op = "readall" /\ step = 3 /\ s.send = "find_information" /\ s.on = {"ATTCLIENT_FINDINFO_RSP_EVT"}
         \/ op = "readall" /\ step = 4 /\ s.send = "none" /\ s.on = ProcedureOver
         \/ op = "discover" /\ step = 1 /\ s.send = "discover" /\ s.on = {"GAP_DISCOVER_RSP_EVT"}
         \/ op = "info" /\ step = 1 /\ s.send = "get_info" /\ s.on = {"SYS_GET_INFO_RSP_EVT"}
         \/ op = "info" /\ step = 2 /\ s.send = "get_connections" /\ s.on = {"SYS_GET_MAXCON_RSP_EVT"}
<1>1. CASE op = "connect"
  BY <1>1, Scripted, SMT DEF Step
<1>2. CASE op = "update"
  BY <1>2, Scripted, SMT DEF Step
<1>3. CASE op = "disconnect"
  BY <1>3, Scripted, SMT DEF Step
<1>4. CASE op = "read"
  BY <1>4, Scripted, SMT DEF Step
<1>5. CASE op = "write"
  BY <1>5, Scripted, SMT DEF Step
<1>6. CASE op = "readall"
  BY <1>6, Scripted, SMT DEF Step
<1>7. CASE op = "discover"
  BY <1>7, Scripted, SMT DEF Step
<1>8. CASE op = "info"
  BY <1>8, Scripted, SMT DEF Step
<1> QED  BY <1>1, <1>2, <1>3, <1>4, <1>5, <1>6, <1>7, <1>8 DEF Ops

LEMMA ScriptLengths ==
  /\ \A op \in Ops : Len(Script[op]) \in Nat /\ Len(Script[op]) >= 1 /\ DOMAIN Script[op] = 1 .. Len(Script[op])
  /\ Len(Script["connect"]) = 2 /\ Len(Script["update"]) = 2 /\ Len(Script["disconnect"]) = 2
  /\ Len(Script["read"]) = 4 /\ Len(Script["write"]) = 2 /\ Len(Script["readall"]) = 4
  /\ Len(Script["discover"]) = 1 /\ Len(Script["info"]) = 2
<1>1. /\ Len(Script["connect"]) = 2 /\ Len(Script["update"]) = 2 /\ Len(Script["disconnect"]) = 2
      /\ Len(Script["read"]) = 4 /\ Len(Script["write"]) = 2 /\ Len(Script["readall"]) = 4
      /\ Len(Script["discover"]) = 1 /\ Len(Script["info"]) = 2
  BY Scripted, SMT
<1>2. /\ DOMAIN Script["connect"] = 1 .. 2 /\ DOMAIN Script["update"] = 1 .. 2 /\ DOMAIN Script["disconnect"] = 1 .. 2
      /\ DOMAIN Script["read"] = 1 .. 4 /\ DOMAIN Script["write"] = 1 .. 2 /\ DOMAIN Script["readall"] = 1 .. 4
      /\ DOMAIN Script["discover"] = 1 .. 1 /\ DOMAIN Script["info"] = 1 .. 2
  BY Scripted, SMT
<1>3. ASSUME NEW op \in Ops PROVE Len(Script[op]) \in {1, 2, 4} /\ DOMAIN Script[op] = 1 .. Len(Script[op])
  BY <1>1, <1>2, <1>3 DEF Ops
<1>4. ASSUME NEW op \in Ops PROVE Len(Script[op]) \in Nat /\ Len(Script[op]) >= 1
  <2>1. Len(Script[op]) = 1 \/ Len(Script[op]) = 2 \/ Len(Script[op]) = 4
    BY <1>3
  <2> QED  BY <2>1, SMTT(60)
<1> QED  BY <1>1, <1>3, <1>4

DeviceOps == {"connect", "update", "disconnect", "read", "write", "readall"}
\* The command that is worked on, and what the URI has had to be for it.
CallFits ==
  /\ call \in [op : {"none"} \cup Ops, handle : {0} \cup Handle, step : Nat]
  /\ OnConnection(call.op) => call.handle \in Handle
  /\ call.op \in Ops => call.step \in 1 .. Len(Script[call.op])
  /\ call.op \in DeviceOps => Len(request.path) >= 2 /\ IsValidMAC(request.path[2])
  /\ call.op \in {"read", "write"} => Len(request.path) = 3

Sends(op, c) ==
  \/ op = "connect" /\ c = "connect_direct"
  \/ op \in {"update", "disconnect"} /\ c = op
  \/ op = "read" /\ c \in {"find_information", "read_by_handle"}
  \/ op = "write" /\ c = "attribute_write"
  \/ op = "readall" /\ c \in {"read_by_group_type", "find_information"}
  \/ op = "discover" /\ c \in {"set_scan_parameters", "discover"}

LEMMA PathTokens ==
  ASSUME request \in Requests
  PROVE  /\ request.path \in Seq(Tokens)
         /\ Len(request.path) >= 2 /\ IsValidMAC(request.path[2]) =>
              request.path[2] \in Tokens /\ Device \in Bytes /\ Device = <<request.path[2].n % 256, request.path[2].n \div 256>>
         /\ Len(request.path) = 3 => AttributeHandle \in Word16
<1>1. request.path \in Seq(Tokens)
  BY RequestsAssumption
<1>2. ASSUME Len(request.path) >= 2, IsValidMAC(request.path[2])
      PROVE  request.path[2] \in Tokens /\ Device \in Bytes /\ Device = <<request.path[2].n % 256, request.path[2].n \div 256>>
  <2>1. request.path[2] \in Tokens
    BY <1>1, <1>2
  <2> QED  BY <2>1, <1>2, AddressIsBytes DEF IsValidMAC, Device
<1>3. ASSUME Len(request.path) = 3 PROVE AttributeHandle \in Word16
  <2>1. request.path[3] \in Tokens
    BY <1>1, <1>3
  <2>2. request.path[3].n \in Int
    BY <2>1 DEF Tokens
  <2> QED  BY <2>2, NumberWidths DEF AttributeHandle
<1> QED  BY <1>1, <1>2, <1>3

Sent(c) == Packed(c, DriverPacks[c], Arguments(c))

LEMMA CheckedLegal == request \in Requests => Checked \in Legal /\ CheckedScan \in LegalScans
BY ConnectionGivenTyped, ScanGivenTyped, CheckedConnectionTyped, CheckedScanTyped
   DEF Checked, CheckedScan, Legal, LegalScans

\* What the driver packs for each command of a request.
LEMMA SentIs ==
  ASSUME request \in Requests
  PROVE  /\ \A c \in Plainly : Sent(c) = PlainMsg(c)
         /\ Sent("set_scan_parameters") = ScanMsg(CheckedScan, ActiveScan)
         /\ Sent("discover") = DiscoverMsg(DiscoverMode)
         /\ Sent("connect_direct") = ConnectMsg(Device, AddressType, Checked)
         /\ Sent("update") = UpdateMsg(call.handle, Checked)
         /\ Sent("disconnect") = DisconnectMsg(call.handle)
         /\ Sent("read_by_group_type") = GroupMsg(call.handle, <<0, 40>>)
         /\ Sent("find_information") = IF call.op = "read" THEN FindMsg(call.handle, AttributeHandle, AttributeHandle)
                                                           ELSE FindMsg(call.handle, 1, 65535)
         /\ Sent("read_by_handle") = ReadMsg(call.handle, AttributeHandle)
         /\ Sent("attribute_write") = WriteMsg(call.handle, AttributeHandle, WriteBytes)
<1>0. \A c \in LinkCommands \ {"update"} : Arguments(c)["connection"] = call.handle
  BY LinkArguments
<1>1. \A c \in Plainly : Sent(c) = PlainMsg(c)
  BY SimpleSent DEF Plainly, PlainMsg, Sent
<1>2. Sent("set_scan_parameters") = ScanMsg(CheckedScan, ActiveScan)
  BY ScanParametersSent, ScanArguments DEF ScanMsg, Sent
<1>3. Sent("discover") = DiscoverMsg(DiscoverMode)
  BY DiscoverSent, DiscoverArguments DEF DiscoverMsg, Sent
<1>4. Sent("connect_direct") = ConnectMsg(Device, AddressType, Checked)
  BY ConnectDirectSent, ConnectArguments DEF ConnectMsg, Sent
<1>5. Sent("update") = UpdateMsg(call.handle, Checked)
  BY UpdateSent, UpdateArguments DEF UpdateMsg, Sent
<1>6. Sent("disconnect") = DisconnectMsg(call.handle)
  BY <1>0, DisconnectSent DEF DisconnectMsg, Sent, LinkCommands
<1>7. Sent("read_by_group_type") = GroupMsg(call.handle, <<0, 40>>)
  <2>1. Arguments("read_by_group_type")["connection"] = call.handle
    BY <1>0 DEF LinkCommands
  <2> QED  BY <2>1, GroupTypeSent, LinkArguments DEF GroupMsg, Sent
<1>8. Sent("find_information") = IF call.op = "read" THEN FindMsg(call.handle, AttributeHandle, AttributeHandle)
                                                     ELSE FindMsg(call.handle, 1, 65535)
  <2>1. Arguments("find_information")["connection"] = call.handle
    BY <1>0 DEF LinkCommands
  <2> QED  BY <2>1, FindInformationSent, LinkArguments DEF FindMsg, Sent
<1>9. Sent("read_by_handle") = ReadMsg(call.handle, AttributeHandle)
  <2>1. Arguments("read_by_handle")["connection"] = call.handle
    BY <1>0 DEF LinkCommands
  <2> QED  BY <2>1, ReadByHandleSent, LinkArguments DEF ReadMsg, Sent
<1>10. Sent("attribute_write") = WriteMsg(call.handle, AttributeHandle, WriteBytes)
  <2>1. Arguments("attribute_write")["connection"] = call.handle
    BY <1>0 DEF LinkCommands
  <2> QED  BY <2>1, AttributeWriteSent, LinkArguments DEF WriteMsg, Sent
<1> QED  BY <1>1, <1>2, <1>3, <1>4, <1>5, <1>6, <1>7, <1>8, <1>9, <1>10

LEMMA SentTyped ==
  ASSUME request \in Requests, CallFits, NEW c, c \in Plainly \/ Sends(call.op, c)
  PROVE  Sent(c) \in CommandMessages
<1>1. CASE c \in Plainly
  BY <1>1, SentIs DEF CommandMessages
<1>2. CASE call.op = "connect" /\ c = "connect_direct"
  <2>1. Device \in Bytes
    BY <1>2, PathTokens DEF CallFits, DeviceOps
  <2> QED  BY <1>2, <2>1, SentIs, CheckedLegal, ConnectionGivenTyped DEF CommandMessages
<1>3. CASE call.op = "update" /\ c = "update"
  BY <1>3, SentIs, CheckedLegal DEF CommandMessages, OnLinkMessages, CallFits, OnConnection
<1>4. CASE call.op = "disconnect" /\ c = "disconnect"
  BY <1>4, SentIs DEF CommandMessages, OnLinkMessages, CallFits, OnConnection
<1>5. CASE call.op = "readall" /\ c = "read_by_group_type"
  <2>1. <<0, 40>> \in Bytes
    <3>1. 0 \in Word8 /\ 40 \in Word8
      BY SMT DEF Word8
    <3> QED  BY <3>1 DEF Bytes
  <2> QED  BY <1>5, <2>1, SentIs DEF CommandMessages, OnLinkMessages, CallFits, OnConnection
<1>6. CASE call.op = "readall" /\ c = "find_information"
  BY <1>6, SentIs, OneAndLast DEF CommandMessages, OnLinkMessages, CallFits, OnConnection
<1>7. CASE call.op = "read" /\ c = "find_information"
  <2>1. AttributeHandle \in Word16
    BY <1>7, PathTokens DEF CallFits
  <2> QED  BY <1>7, <2>1, SentIs DEF CommandMessages, OnLinkMessages, CallFits, OnConnection
<1>8. CASE call.op = "read" /\ c = "read_by_handle"
  <2>1. AttributeHandle \in Word16
    BY <1>8, PathTokens DEF CallFits
  <2> QED  BY <1>8, <2>1, SentIs DEF CommandMessages, OnLinkMessages, CallFits, OnConnection
<1>9. CASE call.op = "write" /\ c = "attribute_write"
  <2>1. AttributeHandle \in Word16
    BY <1>9, PathTokens DEF CallFits
  <2> QED  BY <1>9, <2>1, SentIs, WriteBytesTyped DEF CommandMessages, OnLinkMessages, CallFits, OnConnection
<1>10. CASE call.op = "discover" /\ c \in {"set_scan_parameters", "discover"}
  BY <1>10, SentIs, CheckedLegal, ScanGivenTyped DEF CommandMessages
<1> QED  BY <1>1, <1>2, <1>3, <1>4, <1>5, <1>6, <1>7, <1>8, <1>9, <1>10 DEF Sends

-----------------------------------------------------------------------------
(* The choice of ParseAcceptHeader.                                        *)

Entry == [type : STRING, q : 0 .. 10, others : BOOLEAN]
Media == {"text/html", "application/json", "application/*", "text/*", "*/*"}
Preferred == [type : {"none"} \cup Media, q : Nat]
LEMMA MediaAre == DOMAIN Specific = Media
BY DEF Specific, Media

LEMMA EntryFields ==
  ASSUME NEW e \in Entry
  PROVE  /\ e.type \in STRING /\ e.q \in Nat /\ GetQualityParam(e) \in Nat
         /\ e.type \in Media => Preference(e) \in Preferred
         /\ Preference(e).q = GetQualityParam(e)
         /\ Preference(e).type = IF e.type = "*/*" THEN "text/*" ELSE e.type
<1>1. e.type \in STRING /\ e.q \in 0 .. 10
  BY DEF Entry
<1>2. e.q \in Nat
  <2>1. \A n \in 0 .. 10 : n \in Nat
    OBVIOUS
  <2> QED  BY <1>1, <2>1
<1>3. GetQualityParam(e) \in Nat
  BY <1>2 DEF GetQualityParam
<1>4. Preference(e).q = GetQualityParam(e) /\ Preference(e).type = IF e.type = "*/*" THEN "text/*" ELSE e.type
  BY DEF Preference
<1>5. e.type \in Media => Preference(e) \in Preferred
  <2>1. e.type \in Media => (IF e.type = "*/*" THEN "text/*" ELSE e.type) \in {"none"} \cup Media
    BY DEF Media
  <2> QED  BY <1>3, <2>1 DEF Preference, Preferred
<1> QED  BY <1>1, <1>2, <1>3, <1>4, <1>5

Choose(accept, chosen, e) ==
  IF Counts(accept, e) /\ Better(chosen, Preference(e)) THEN Preference(e) ELSE chosen

LEMMA ChosenSteps ==
  ASSUME NEW accept \in Seq(Entry), NEW n \in Nat, n = Len(accept)
  PROVE  \E h \in [0 .. n -> Preferred] :
           /\ h[0] = NothingChosen /\ \A k \in 0 .. n - 1 : h[k + 1] = Choose(accept, h[k], accept[k + 1])
           /\ Chosen(accept) = h[n].type
<1> DEFINE F == [p \in Preferred \X (1 .. n) |-> Choose(accept, p[1], accept[p[2]])]
           Step1(f) == [s \in SUBSET DOMAIN accept |->
                        IF s = {} THEN NothingChosen ELSE Choose(accept, f[s \ {Max(s)}], accept[Max(s)])]
           it == CHOOSE f : f = Step1(f)
<1>0. DOMAIN accept = 1 .. n /\ \A i \in 1 .. n : accept[i] \in Entry
  OBVIOUS
<1>1. F \in [Preferred \X (1 .. n) -> Preferred] /\ \A a \in Preferred, i \in 1 .. n : F[<<a, i>>] = Choose(accept, a, accept[i])
  <2>1. ASSUME NEW a \in Preferred, NEW i \in 1 .. n PROVE Choose(accept, a, accept[i]) \in Preferred
    BY <1>0, EntryFields, MediaAre DEF Choose, Counts
  <2> QED  BY <2>1
<1>a. NothingChosen \in Preferred
  <2>1. 0 \in Nat /\ "none" \in {"none"} \cup Media
    OBVIOUS
  <2> QED  BY <2>1 DEF Preferred, NothingChosen
<1>2. PICK g \in [SUBSET (1 .. n) -> Preferred] : FoldOn(n, NothingChosen, F, g)
  <2> HIDE DEF F
  <2> QED  BY <1>1, <1>a, FoldExists DEF Folds
<1>3. g = Step1(g)
  <2>1. ASSUME NEW s \in SUBSET (1 .. n), s # {}
        PROVE F[<<g[s \ {Max(s)}], Max(s)>>] = Choose(accept, g[s \ {Max(s)}], accept[Max(s)])
    <3>1. g[s \ {Max(s)}] \in Preferred /\ Max(s) \in 1 .. n
      BY <2>1, MaxIn
    <3> QED  BY <1>1, <3>1
  <2> HIDE DEF F
  <2> QED BY <1>0, <1>2, <2>1 DEF FoldOn
<1>4. it = Step1(it)
  BY <1>3
<1>5. Chosen(accept) = it[1 .. n].type
  BY <1>0 DEF Chosen, FoldLeft, MapThenFoldSet, Choose
<1> HIDE DEF F, it
<1>6. it[{}] = NothingChosen
  BY <1>0, <1>4
<1>7. ASSUME NEW s \in SUBSET (1 .. n), s # {}, it[s \ {Max(s)}] \in Preferred
      PROVE  it[s] = F[<<it[s \ {Max(s)}], Max(s)>>]
  <2>1. Max(s) \in 1 .. n
    BY <1>7, MaxIn
  <2>2. it[s] = Choose(accept, it[s \ {Max(s)}], accept[Max(s)])
    BY <1>0, <1>4, <1>7, <2>1
  <2> QED  BY <1>1, <1>7, <2>1, <2>2
<1>8. Loop(n, Preferred, NothingChosen, F, it[1 .. n])
  <2> HIDE DEF Step1
  <2>1. F \in [Preferred \X (1 .. n) -> Preferred] /\ NothingChosen \in Preferred
    BY <1>1, <1>a
  <2> QED  BY <2>1, <1>6, <1>7, FoldIsLoop
<1>9. PICK h \in [0 .. n -> Preferred] :
        h[0] = NothingChosen /\ h[n] = it[1 .. n] /\ \A k \in 0 .. n - 1 : h[k + 1] = F[<<h[k], k + 1>>]
  BY <1>8 DEF Loop
<1>10. \A k \in 0 .. n - 1 : h[k + 1] = Choose(accept, h[k], accept[k + 1])
  <2> TAKE k \in 0 .. n - 1
  <2>1. h[k] \in Preferred /\ k + 1 \in 1 .. n
    BY k \in 0 .. n
  <2>2. F[<<h[k], k + 1>>] = Choose(accept, h[k], accept[k + 1])
    BY <1>1, <2>1
  <2> QED  BY <1>9, <2>2
<1> QED  BY <1>5, <1>9, <1>10

\* What the loop has found among the first entries: none that counts, or one that no other of
\* them beats.
BestOf(accept, k, choice) ==
  \/ choice = NothingChosen /\ \A j \in 1 .. k : ~Counts(accept, accept[j])
  \/ \E i \in 1 .. k :
       /\ Counts(accept, accept[i]) /\ choice = Preference(accept[i])
       /\ \A j \in 1 .. k : Counts(accept, accept[j]) =>
            /\ GetQualityParam(accept[j]) <= choice.q
            /\ Preference(accept[j]).type \in Html /\ GetQualityParam(accept[j]) = choice.q => choice.type \in Html

LEMMA ChosenIsBest ==
  ASSUME NEW accept \in Seq(Entry)
  PROVE  \E choice \in Preferred : Chosen(accept) = choice.type /\ BestOf(accept, Len(accept), choice)
<1>1. PICK n \in Nat : n = Len(accept)
  OBVIOUS
<1>2. PICK h \in [0 .. n -> Preferred] :
           /\ h[0] = NothingChosen /\ \A k \in 0 .. n - 1 : h[k + 1] = Choose(accept, h[k], accept[k + 1])
           /\ Chosen(accept) = h[n].type
  BY <1>1, ChosenSteps
<1> DEFINE S == {k \in 0 .. n : BestOf(accept, k, h[k])}
<1>3. 0 \in S
  BY <1>2 DEF BestOf
<1>4. ASSUME NEW k \in 0 .. n - 1, k \in S PROVE k + 1 \in S
  <2> DEFINE e == accept[k + 1]
             old == h[k]
             new == h[k + 1]
  <2>0. k + 1 \in 1 .. n /\ k \in 0 .. n /\ k + 1 \in 0 .. n /\ k \in Nat /\ 1 .. k + 1 = (1 .. k) \cup {k + 1}
    OBVIOUS
  <2>1. new = Choose(accept, old, e) /\ BestOf(accept, k, old) /\ old \in Preferred /\ new \in Preferred
    BY <1>2, <1>4, <2>0
  <2>2. \A j \in 1 .. k + 1 : accept[j] \in Entry /\ GetQualityParam(accept[j]) \in Nat
          /\ Preference(accept[j]).q = GetQualityParam(accept[j])
    <3>1. \A j \in 1 .. k + 1 : accept[j] \in Entry
      BY <1>1, <2>0
    <3> QED  BY <3>1, EntryFields
  <2>3. old.q \in Nat
    BY <2>1 DEF Preferred
  <2>4. CASE Counts(accept, e) /\ Better(old, Preference(e))
    <3>1. new = Preference(e) /\ new.q = GetQualityParam(e) /\ new.q \in Nat
      BY <2>0, <2>1, <2>2, <2>4 DEF Choose
    <3>2. old.q <= new.q /\ ~(old.type \in Html /\ old.q = new.q)
      <4>1. Preference(e).q >= old.q /\ ~(old.type \in Html /\ Preference(e).q = old.q)
        BY <2>4 DEF Better
      <4> QED  BY <2>3, <3>1, <4>1
    <3>3. ASSUME NEW j \in 1 .. k + 1, Counts(accept, accept[j])
          PROVE  /\ GetQualityParam(accept[j]) <= new.q
                 /\ Preference(accept[j]).type \in Html /\ GetQualityParam(accept[j]) = new.q => new.type \in Html
      <4>1. CASE j = k + 1
        BY <2>2, <3>1, <4>1
      <4>2. CASE j # k + 1
        <5>1. j \in 1 .. k
          BY <2>0, <4>2
        <5>2. /\ GetQualityParam(accept[j]) <= old.q
              /\ Preference(accept[j]).type \in Html /\ GetQualityParam(accept[j]) = old.q => old.type \in Html
          BY <2>1, <3>3, <5>1 DEF BestOf
        <5>3. GetQualityParam(accept[j]) \in Nat
          BY <2>2
        <5>4. GetQualityParam(accept[j]) <= new.q
          BY <2>3, <3>1, <3>2, <5>2, <5>3
        <5>5. GetQualityParam(accept[j]) # new.q \/ Preference(accept[j]).type \notin Html
          <6>1. SUFFICES ASSUME GetQualityParam(accept[j]) = new.q, Preference(accept[j]).type \in Html PROVE FALSE
            OBVIOUS
          <6>2. old.q = new.q
            BY <2>3, <3>1, <3>2, <5>2, <5>3, <6>1
          <6> QED  BY <3>2, <5>2, <6>1, <6>2
        <5> QED  BY <5>4, <5>5
      <4> QED  BY <4>1, <4>2
    <3>4. k + 1 \in 1 .. k + 1
      BY <2>0
    <3>5. BestOf(accept, k + 1, new)
      <4> HIDE DEF new
      <4> QED  BY <2>4, <3>1, <3>3, <3>4 DEF BestOf
    <3> QED  BY <2>0, <3>5
  <2>5. CASE ~(Counts(accept, e) /\ Better(old, Preference(e)))
    <3>1. new = old
      BY <2>1, <2>5 DEF Choose
    <3>2. CASE old = NothingChosen /\ \A j \in 1 .. k : ~Counts(accept, accept[j])
      <4>1. ~Counts(accept, e)
        <5>1. Better(old, Preference(e))
          <6>1. Preference(e).q \in Nat
            BY <2>0, <2>2
          <6>2. old.q = 0 /\ old.type = "none"
            BY <3>2 DEF NothingChosen
          <6> QED  BY <6>1, <6>2 DEF Better, Html
        <5> QED  BY <2>5, <5>1
      <4>2. \A j \in 1 .. k + 1 : ~Counts(accept, accept[j])
        BY <2>0, <3>2, <4>1
      <4> QED  BY <2>0, <3>1, <3>2, <4>2 DEF BestOf
    <3>3. CASE \E i \in 1 .. k :
                 /\ Counts(accept, accept[i]) /\ old = Preference(accept[i])
                 /\ \A j \in 1 .. k : Counts(accept, accept[j]) =>
                      /\ GetQualityParam(accept[j]) <= old.q
                      /\ Preference(accept[j]).type \in Html /\ GetQualityParam(accept[j]) = old.q => old.type \in Html
      <4>1. PICK i \in 1 .. k :
                 /\ Counts(accept, accept[i]) /\ old = Preference(accept[i])
                 /\ \A j \in 1 .. k : Counts(accept, accept[j]) =>
                      /\ GetQualityParam(accept[j]) <= old.q
                      /\ Preference(accept[j]).type \in Html /\ GetQualityParam(accept[j]) = old.q => old.type \in Html
        BY <3>3
      <4>2. Counts(accept, e) =>
              /\ GetQualityParam(e) <= old.q
              /\ Preference(e).type \in Html /\ GetQualityParam(e) = old.q => old.type \in Html
        <5>1. GetQualityParam(e) \in Nat /\ Preference(e).q = GetQualityParam(e)
          BY <2>0, <2>2
        <5>2. Counts(accept, e) => GetQualityParam(e) < old.q \/ (old.type \in Html /\ GetQualityParam(e) = old.q)
          <6>1. ~Better(old, Preference(e)) => ~(GetQualityParam(e) >= old.q) \/ (old.type \in Html /\ GetQualityParam(e) = old.q)
            BY <5>1 DEF Better
          <6> QED  BY <2>3, <2>5, <5>1, <6>1
        <5> QED  BY <2>3, <5>1, <5>2
      <4>3. i \in 1 .. k + 1
        BY <2>0
      <4>4. BestOf(accept, k + 1, old)
        <5> HIDE DEF old
        <5>1. \A j \in 1 .. k + 1 : Counts(accept, accept[j]) =>
                      /\ GetQualityParam(accept[j]) <= old.q
                      /\ Preference(accept[j]).type \in Html /\ GetQualityParam(accept[j]) = old.q => old.type \in Html
          BY <2>0, <4>1, <4>2
        <5> QED  BY <4>1, <4>3, <5>1 DEF BestOf
      <4> QED  BY <2>0, <3>1, <4>4
    <3> QED  BY <2>1, <3>2, <3>3 DEF BestOf
  <2> QED  BY <2>4, <2>5
<1>5. 0 .. n \subseteq S
  <2> HIDE DEF S
  <2> QED  BY <1>3, <1>4, NumbersUpTo
<1>6. BestOf(accept, n, h[n]) /\ h[n] \in Preferred
  BY <1>5, n \in 0 .. n
<1> QED  BY <1>1, <1>2, <1>6

\* Max of a set of specificities.
LEMMA MaxUpToTwo ==
  ASSUME NEW T \in SUBSET {0, 1, 2}, T # {}
  PROVE  Max(T) \in T /\ \A y \in T : y <= Max(T)
<1>1. \E x \in T : \A y \in T : x >= y
  <2>1. CASE 2 \in T
    BY <2>1
  <2>2. CASE 2 \notin T /\ 1 \in T
    BY <2>2
  <2>3. CASE 2 \notin T /\ 1 \notin T
    <3>1. \A x \in T : x = 0
      BY <2>3
    <3>2. PICK x \in T : TRUE
      OBVIOUS
    <3>3. x >= 0 /\ x = 0
      BY <3>1
    <3> QED  BY <3>1, <3>2, <3>3
  <2> QED  BY <2>1, <2>2, <2>3
<1>2. Max(T) \in T /\ \A y \in T : Max(T) >= y
  BY <1>1 DEF Max
<1> QED  BY <1>2

LEMMA SpecificIs ==
  /\ Specific["text/html"] = 2 /\ Specific["application/json"] = 2 /\ Specific["application/*"] = 1
  /\ Specific["text/*"] = 1 /\ Specific["*/*"] = 0
  /\ \A t \in Media : Specific[t] \in {0, 1, 2}
<1>1. /\ Specific["text/html"] = 2 /\ Specific["application/json"] = 2 /\ Specific["application/*"] = 1
      /\ Specific["text/*"] = 1 /\ Specific["*/*"] = 0
  BY SMT DEF Specific
<1> QED  BY <1>1 DEF Media

\* The entries that count are the most specific ones of those that are supported.
LEMMA CountingEntries ==
  ASSUME NEW accept \in Seq(Entry), NEW e \in ToSet(accept)
  PROVE  Counts(accept, e) <=> /\ e \in TypeToPreference(accept)
                               /\ \A f \in TypeToPreference(accept) : Specific[f.type] <= Specific[e.type]
<1> DEFINE T == {Specific[f.type] : f \in TypeToPreference(accept)}
<1>1. T \subseteq {0, 1, 2}
  BY SpecificIs, MediaAre DEF TypeToPreference
<1>2. \A f \in TypeToPreference(accept) : Specific[f.type] \in {0, 1, 2}
  BY <1>1
<1>3. MostSpecific(accept) = Max({0} \cup T)
  BY DEF MostSpecific
<1>4. Max({0} \cup T) \in {0} \cup T /\ \A y \in {0} \cup T : y <= Max({0} \cup T)
  <2> HIDE DEF T
  <2>1. {0} \cup T \in SUBSET {0, 1, 2} /\ {0} \cup T # {}
    BY <1>1
  <2> QED  BY <2>1, MaxUpToTwo
<1> DEFINE max == Max({0} \cup T)
<1> HIDE DEF max
<1>5. max \in {0, 1, 2} /\ max \in {0} \cup T /\ \A f \in TypeToPreference(accept) : Specific[f.type] <= max
  BY <1>1, <1>4 DEF max
<1>6. ASSUME e \in TypeToPreference(accept), \A f \in TypeToPreference(accept) : Specific[f.type] <= Specific[e.type]
      PROVE  Counts(accept, e)
  <2>1. Specific[e.type] \in {0, 1, 2} /\ Specific[e.type] <= max
    BY <1>2, <1>5, <1>6
  <2>2. max <= Specific[e.type]
    <3>1. CASE max = 0
      BY <2>1, <3>1
    <3>2. CASE max \in T
      <4>1. PICK f \in TypeToPreference(accept) : max = Specific[f.type]
        BY <3>2
      <4> QED  BY <1>6, <4>1
    <3> QED  BY <1>5, <3>1, <3>2
  <2>3. Specific[e.type] = max
    BY <1>5, <2>1, <2>2
  <2> QED  BY <1>3, <1>6, <2>3 DEF Counts, max, TypeToPreference
<1>7. ASSUME Counts(accept, e)
      PROVE  e \in TypeToPreference(accept) /\ \A f \in TypeToPreference(accept) : Specific[f.type] <= Specific[e.type]
  <2>1. e \in TypeToPreference(accept) /\ Specific[e.type] = max
    BY <1>3, <1>7 DEF Counts, max, TypeToPreference
  <2> QED  BY <1>5, <2>1
<1> QED  BY <1>6, <1>7

LEMMA SomethingCounts ==
  ASSUME NEW accept \in Seq(Entry), TypeToPreference(accept) # {}
  PROVE  \E i \in 1 .. Len(accept) : Counts(accept, accept[i])
<1> DEFINE T == {Specific[f.type] : f \in TypeToPreference(accept)}
<1>1. T \in SUBSET {0, 1, 2} /\ T # {}
  BY SpecificIs, MediaAre DEF TypeToPreference
<1>2. Max(T) \in T /\ \A y \in T : y <= Max(T)
  <2> HIDE DEF T
  <2> QED  BY <1>1, MaxUpToTwo
<1>3. PICK e \in TypeToPreference(accept) : Specific[e.type] = Max(T)
  BY <1>2
<1>4. e \in ToSet(accept) /\ \A f \in TypeToPreference(accept) : Specific[f.type] <= Specific[e.type]
  BY <1>2, <1>3 DEF TypeToPreference
<1>5. Counts(accept, e)
  BY <1>4, CountingEntries
<1> QED  BY <1>4, <1>5 DEF ToSet

LEMMA AcceptTyped == \A r \in Requests : r.accept \in Seq(Entry)
BY RequestsAssumption DEF Entry

LEMMA MimeTyped ==
  ASSUME request \in Requests
  PROVE  /\ ParseAcceptHeader(request.accept) \in {"none"} \cup Media
         /\ Mime \in Media
<1>1. request.accept \in Seq(Entry)
  BY AcceptTyped
<1>2. Chosen(request.accept) \in {"none"} \cup Media
  BY <1>1, ChosenIsBest DEF Preferred
<1> QED  BY <1>2 DEF ParseAcceptHeader, Mime, Media

\* The content type of the answer, and when the header is refused.
LEMMA MimeIsBest ==
  ASSUME request \in Requests, Plain
  PROVE  /\ (request.accept # <<>> /\ Supported = {}) <=> ParseAcceptHeader(request.accept) = "none"
         /\ Supported # {} => \E e \in Best : Mime = Preference(e).type
         /\ (\E e \in Best : Preference(e).type \in Html) => Mime \in Html
<1> DEFINE accept == request.accept
<1>1. accept \in Seq(Entry) /\ Supported = TypeToPreference(accept)
  BY AcceptTyped DEF Supported, TypeToPreference
<1>2. \A e \in ToSet(accept) : /\ e \in Entry /\ GetQualityParam(e) = e.q
                               /\ \E i \in 1 .. Len(accept) : e = accept[i]
  <2>1. ASSUME NEW i \in 1 .. Len(accept) PROVE accept[i] \in Entry /\ GetQualityParam(accept[i]) = accept[i].q
    BY <1>1 DEF Plain, GetQualityParam
  <2> QED  BY <1>1, <2>1 DEF ToSet
<1>3. \A i \in 1 .. Len(accept) : accept[i] \in ToSet(accept)
  BY <1>1 DEF ToSet
<1>4. PICK choice \in Preferred : Chosen(accept) = choice.type /\ BestOf(accept, Len(accept), choice)
  BY <1>1, ChosenIsBest
<1>5. CASE Supported = {}
  <2>1. \A i \in 1 .. Len(accept) : ~Counts(accept, accept[i])
    BY <1>1, <1>3, <1>5, CountingEntries
  <2>2. choice = NothingChosen
    BY <1>4, <2>1 DEF BestOf
  <2>3. Chosen(accept) = "none"
    BY <1>4, <2>2 DEF NothingChosen
  <2>4. Best = {}
    BY <1>5 DEF Best
  <2> QED  BY <1>5, <2>3, <2>4 DEF ParseAcceptHeader
<1>6. CASE Supported # {}
  <2>1. accept # <<>>
    BY <1>6 DEF Supported, ToSet
  <2>2. PICK i0 \in 1 .. Len(accept) : Counts(accept, accept[i0])
    BY <1>1, <1>6, SomethingCounts
  <2>3. PICK i \in 1 .. Len(accept) :
          /\ Counts(accept, accept[i]) /\ choice = Preference(accept[i])
          /\ \A j \in 1 .. Len(accept) : Counts(accept, accept[j]) =>
               /\ GetQualityParam(accept[j]) <= choice.q
               /\ Preference(accept[j]).type \in Html /\ GetQualityParam(accept[j]) = choice.q => choice.type \in Html
    BY <1>4, <2>2 DEF BestOf
  <2> DEFINE e == accept[i]
  <2>4. e \in ToSet(accept) /\ e \in Entry /\ GetQualityParam(e) = e.q /\ choice.q = e.q /\ choice.type = Preference(e).type
    BY <1>2, <1>3, <2>3, EntryFields
  <2>5. \A f \in Best : /\ f \in ToSet(accept) /\ Counts(accept, f) /\ \A g \in ToSet(accept) : Counts(accept, g) => g.q <= f.q
    BY <1>1, CountingEntries DEF Best, TypeToPreference
  <2>6. \A f \in ToSet(accept) : Counts(accept, f) =>
          f.q <= e.q /\ (Preference(f).type \in Html /\ f.q = e.q => choice.type \in Html)
    BY <1>2, <2>3, <2>4
  <2>7. e \in Best
    BY <1>1, <2>3, <2>4, <2>6, CountingEntries DEF Best, TypeToPreference
  <2>8. choice.type # "none"
    BY <2>4, <2>3, MediaAre, EntryFields DEF Counts, Media
  <2>9. ParseAcceptHeader(accept) = Preference(e).type /\ ParseAcceptHeader(accept) # "none"
    BY <1>4, <2>1, <2>4, <2>8 DEF ParseAcceptHeader
  <2>10. Mime = Preference(e).type
    BY <2>9 DEF Mime
  <2>11. ASSUME NEW f \in Best, Preference(f).type \in Html PROVE Mime \in Html
    <3>1. f \in ToSet(accept) /\ Counts(accept, f) /\ e.q <= f.q /\ f.q <= e.q
      BY <2>3, <2>4, <2>5, <2>6
    <3>2. f.q \in Nat /\ e.q \in Nat
      BY <1>2, <2>4, <3>1, EntryFields
    <3>3. f.q = e.q
      BY <3>1, <3>2
    <3> QED  BY <2>4, <2>6, <2>10, <2>11, <3>1, <3>3
  <2> QED  BY <1>6, <2>1, <2>7, <2>9, <2>10, <2>11
<1> QED  BY <1>5, <1>6

-----------------------------------------------------------------------------
(* The commands that a URI names.                                          *)

LEMMA URICommands ==
  ASSUME NEW path, NEW method
  PROVE  LET o == ParseURI(path, method) IN
         /\ o.command \in {"GW_OVERVIEW", "DONGLE_OVERVIEW", "DISCOVERED", "CONNECTED", "BLEDEV_OVERVIEW", "CONNECT",
                           "DISCONNECT", "READ_HANDLE", "WRITE_HANDLE", "OPTIONS", "ERROR"}
         /\ o.command = "OPTIONS" => o.code = 200
         /\ o.command = "ERROR" => o.code \in {400, 405}
         /\ o.command = "GW_OVERVIEW" => Len(path) = 0
         /\ Len(path) = 0 => o.command \in {"GW_OVERVIEW", "OPTIONS", "ERROR"}
         /\ o.command \in {"BLEDEV_OVERVIEW", "CONNECT", "DISCONNECT"} => Len(path) = 2 /\ IsValidMAC(path[2])
         /\ o.command \in {"READ_HANDLE", "WRITE_HANDLE"} => Len(path) = 3 /\ IsValidMAC(path[2])
<1> DEFINE o == ParseURI(path, method)
<1>1. ASSUME NEW commands
      PROVE  \/ Allowed(commands, method) = Order("OPTIONS", 200) \/ Allowed(commands, method) = Order("ERROR", 405)
             \/ method \in DOMAIN commands /\ Allowed(commands, method) = Order(commands[method], 0)
  BY DEF Allowed
<1>2. CASE Len(path) = 0
  <2>1. o = Allowed(GatewayCommands, method)
    BY <1>2 DEF ParseURI
  <2>2. method \in DOMAIN GatewayCommands => GatewayCommands[method] = "GW_OVERVIEW"
    BY DEF GatewayCommands
  <2> QED  BY <1>1, <1>2, <2>1, <2>2 DEF Order
<1>3. CASE Len(path) = 1
  <2>1. o = Allowed(DongleCommands, method)
    BY <1>3 DEF ParseURI
  <2>2. method \in DOMAIN DongleCommands => DongleCommands[method] = "DONGLE_OVERVIEW"
    BY DEF DongleCommands
  <2> QED  BY <1>1, <1>3, <2>1, <2>2 DEF Order
<1>4. CASE Len(path) = 2 /\ path[2] \in {Discovered, Connected}
  <2>0. ~IsValidMAC(path[2])
    BY <1>4 DEF IsValidMAC, Discovered, Connected, Word, Token
  <2>1. o = Allowed(ListCommands(path[2]), method)
    BY <1>4, <2>0, SMT DEF ParseURI
  <2>2. method \in DOMAIN ListCommands(path[2]) => ListCommands(path[2])[method] \in {"DISCOVERED", "CONNECTED"}
    BY DEF ListCommands
  <2> QED  BY <1>1, <1>4, <2>1, <2>2 DEF Order
<1>5. CASE Len(path) = 2 /\ path[2] \notin {Discovered, Connected} /\ IsValidMAC(path[2])
  <2>1. o = Allowed(DeviceCommands, method)
    BY <1>5 DEF ParseURI
  <2>2. method \in DOMAIN DeviceCommands => DeviceCommands[method] \in {"BLEDEV_OVERVIEW", "CONNECT", "DISCONNECT"}
    BY DEF DeviceCommands
  <2> QED  BY <1>1, <1>5, <2>1, <2>2 DEF Order
<1>6. CASE Len(path) = 3 /\ IsValidMAC(path[2]) /\ IsValidInteger(path[3])
  <2>1. o = Allowed(AttributeCommands, method)
    BY <1>6 DEF ParseURI
  <2>2. method \in DOMAIN AttributeCommands => AttributeCommands[method] \in {"READ_HANDLE", "WRITE_HANDLE"}
    BY DEF AttributeCommands
  <2> QED  BY <1>1, <1>6, <2>1, <2>2 DEF Order
<1>7. CASE /\ Len(path) # 0 /\ Len(path) # 1
           /\ ~(Len(path) = 2 /\ path[2] \in {Discovered, Connected})
           /\ ~(Len(path) = 2 /\ IsValidMAC(path[2]))
           /\ ~(Len(path) = 3 /\ IsValidMAC(path[2]) /\ IsValidInteger(path[3]))
  <2>1. o = Order("ERROR", 400)
    BY <1>7 DEF ParseURI
  <2> QED  BY <1>7, <2>1 DEF Order
<1> QED  BY <1>2, <1>3, <1>4, <1>5, <1>6, <1>7

-----------------------------------------------------------------------------
(* What the driver makes of each answer: the event that it posts and the   *)
(* devices that it then knows.                                             *)

Read(m) == Unpacked(DriverReads[m.idx], m)
EventOf(m) == Posted(m.idx, Read(m))
DevicesOf(m) == DevicesAfter(m.idx, Read(m))

LEMMA EventNames ==
  /\ DOMAIN SimpleEvent = Simply /\ DOMAIN SimpleConnectionEvent = LinkCommands
  /\ "connect_direct" \notin Simply \cup LinkCommands /\ "get_connections" \notin Simply \cup LinkCommands
  /\ "get_info" \notin Simply \cup LinkCommands /\ "status" \notin Simply \cup LinkCommands
  /\ "disconnected" \notin Simply \cup LinkCommands /\ "procedure_completed" \notin Simply \cup LinkCommands
  /\ "attribute_value" \notin Simply \cup LinkCommands /\ "group_found" \notin Simply \cup LinkCommands
  /\ "information_found" \notin Simply \cup LinkCommands /\ "scan_response" \notin Simply \cup LinkCommands
  /\ Simply \cap LinkCommands = {}
<1>1. DOMAIN SimpleEvent = Simply /\ DOMAIN SimpleConnectionEvent = LinkCommands
  BY SMT DEF SimpleEvent, SimpleConnectionEvent, Simply, LinkCommands
<1> QED  BY <1>1 DEF Simply, LinkCommands

LEMMA SimpleRspRead ==
  ASSUME NEW c \in Simply, NEW result
  PROVE  LET m == SimpleRsp(c, result) IN
         /\ m.idx = c /\ Fits(DriverReads[m.idx], m)
         /\ EventOf(m) = Event(SimpleEvent[c], 0, result) /\ DevicesOf(m) = connectedDevices
<1> DEFINE m == SimpleRsp(c, result)
<1>1. m.idx = c
  BY DEF SimpleRsp, Message
<1>2. Fits(DriverReads[m.idx], m) /\ Read(m).result = result
  BY <1>1, SimpleResponseRead DEF Simply, SimpleRsp, Read
<1> HIDE DEF m
<1>3. EventOf(m) = Event(SimpleEvent[c], 0, result)
  BY <1>1, <1>2, EventNames, SMT DEF EventOf, Posted
<1>4. DevicesOf(m) = connectedDevices
  BY <1>1, EventNames, SMT DEF DevicesOf, DevicesAfter
<1> QED  BY <1>1, <1>2, <1>3, <1>4 DEF m

LEMMA LinkRspRead ==
  ASSUME NEW c \in LinkCommands, NEW h, NEW result
  PROVE  LET m == LinkRsp(c, h, result) IN
         /\ m.idx = c /\ Fits(DriverReads[m.idx], m)
         /\ EventOf(m) = Event(SimpleConnectionEvent[c], h, result) /\ DevicesOf(m) = connectedDevices
<1> DEFINE m == LinkRsp(c, h, result)
<1>1. m.idx = c
  BY DEF LinkRsp, Message
<1>2. Fits(DriverReads[m.idx], m) /\ Read(m).result = result /\ Read(m).connection = h
  BY <1>1, ResponseRead DEF LinkRsp, Read
<1> HIDE DEF m
<1>3. EventOf(m) = Event(SimpleConnectionEvent[c], h, result)
  BY <1>1, <1>2, EventNames, SMT DEF EventOf, Posted
<1>4. DevicesOf(m) = connectedDevices
  BY <1>1, EventNames, SMT DEF DevicesOf, DevicesAfter
<1> QED  BY <1>1, <1>2, <1>3, <1>4 DEF m

LEMMA ConnectRspRead ==
  ASSUME NEW h, NEW result
  PROVE  LET m == ConnectRsp(h, result) IN
         /\ m.idx = "connect_direct" /\ Fits(DriverReads[m.idx], m)
         /\ EventOf(m) = Event("GAP_CONNECTION_RSP_EVT", 0, result) /\ DevicesOf(m) = connectedDevices
<1> DEFINE m == ConnectRsp(h, result)
<1>1. m.idx = "connect_direct"
  BY DEF ConnectRsp, Message
<1>2. Fits(DriverReads[m.idx], m) /\ Read(m).result = result
  BY <1>1, ConnectResponseRead DEF ConnectRsp, Read
<1> HIDE DEF m
<1>3. EventOf(m) = Event("GAP_CONNECTION_RSP_EVT", 0, result)
  BY <1>1, <1>2, EventNames, SMT DEF EventOf, Posted
<1>4. DevicesOf(m) = connectedDevices
  BY <1>1, EventNames, SMT DEF DevicesOf, DevicesAfter
<1> QED  BY <1>1, <1>2, <1>3, <1>4 DEF m

LEMMA InfoRspsRead ==
  /\ MaxConnectionsRsp.idx = "get_connections" /\ Fits(DriverReads[MaxConnectionsRsp.idx], MaxConnectionsRsp)
  /\ EventOf(MaxConnectionsRsp) = Event("SYS_GET_MAXCON_RSP_EVT", 0, 0)
  /\ DevicesOf(MaxConnectionsRsp) = connectedDevices
  /\ InfoRsp.idx = "get_info" /\ Fits(DriverReads[InfoRsp.idx], InfoRsp)
  /\ EventOf(InfoRsp) = Event("SYS_GET_INFO_RSP_EVT", 0, 0) /\ DevicesOf(InfoRsp) = connectedDevices
<1>1. MaxConnectionsRsp.idx = "get_connections" /\ InfoRsp.idx = "get_info"
  BY DEF MaxConnectionsRsp, InfoRsp, Message
<1>2. Fits(DriverReads["get_connections"], MaxConnectionsRsp)
  BY SMT DEF Fits, DriverReads, MaxConnectionsRsp, Message, MaxConnectionsResponse, Layout
<1>3. Fits(DriverReads["get_info"], InfoRsp)
  BY SMT DEF Fits, DriverReads, InfoRsp, Message, InfoResponse, Layout
<1>4. EventOf(MaxConnectionsRsp) = Event("SYS_GET_MAXCON_RSP_EVT", 0, 0) /\ DevicesOf(MaxConnectionsRsp) = connectedDevices
  BY <1>1, EventNames, SMT DEF EventOf, Posted, DevicesOf, DevicesAfter
<1>5. EventOf(InfoRsp) = Event("SYS_GET_INFO_RSP_EVT", 0, 0) /\ DevicesOf(InfoRsp) = connectedDevices
  BY <1>1, EventNames, SMT DEF EventOf, Posted, DevicesOf, DevicesAfter
<1> QED  BY <1>1, <1>2, <1>3, <1>4, <1>5

LEMMA Flags == ConnectedFlag(5) /\ CompletedFlag(5) /\ ConnectedFlag(9) /\ ~CompletedFlag(9)
<1>1. 5 % 2 = 1 /\ 9 % 2 = 1 /\ 5 \div 4 = 1 /\ 9 \div 4 = 2 /\ 1 % 2 = 1 /\ 2 % 2 = 0
  BY SMT
<1> QED  BY <1>1 DEF ConnectedFlag, CompletedFlag

LEMMA StatusMsgRead ==
  ASSUME NEW h, NEW address, NEW flags \in {5, 9}
  PROVE  LET m == StatusMsg(h, address, flags) IN
         /\ m.idx = "status" /\ Fits(DriverReads[m.idx], m)
         /\ EventOf(m) = IF flags = 5 THEN Event("GAP_CONNECTION_EVT", 0, 0) ELSE Event("CONNECTION_UPDATE_EVT", h, 0)
         /\ DevicesOf(m) = [connectedDevices EXCEPT ![h] = address]
<1> DEFINE m == StatusMsg(h, address, flags)
<1>1. m.idx = "status"
  BY DEF StatusMsg, Message
<1>2. Fits(DriverReads[m.idx], m) /\ Read(m).address = address /\ Read(m).connection = h /\ Read(m).flags = flags
  BY <1>1, StatusRead DEF StatusMsg, Read
<1> HIDE DEF m
<1>3. ConnectedFlag(flags) /\ (CompletedFlag(flags) <=> flags = 5)
  BY Flags
<1>4. EventOf(m) = IF flags = 5 THEN Event("GAP_CONNECTION_EVT", 0, 0) ELSE Event("CONNECTION_UPDATE_EVT", h, 0)
  <2>1. EventOf(m) = StatusEvent(Read(m))
    BY <1>1, EventNames, SMT DEF EventOf, Posted
  <2> QED  BY <1>2, <1>3, <2>1, SMT DEF StatusEvent
<1>5. DevicesOf(m) = [connectedDevices EXCEPT ![h] = address]
  BY <1>1, <1>2, <1>3, SMT DEF DevicesOf, DevicesAfter
<1> QED  BY <1>1, <1>2, <1>4, <1>5 DEF m

LEMMA GoneMsgRead ==
  ASSUME NEW h, NEW reason
  PROVE  LET m == GoneMsg(h, reason) IN
         /\ m.idx = "disconnected" /\ Fits(DriverReads[m.idx], m)
         /\ EventOf(m) = Event("CONNECTION_DISCONNECT_EVT", h, 0)
         /\ DevicesOf(m) = [connectedDevices EXCEPT ![h] = Nobody]
<1> DEFINE m == GoneMsg(h, reason)
<1>1. m.idx = "disconnected"
  BY DEF GoneMsg, Message
<1>2. Fits(DriverReads[m.idx], m) /\ Read(m).connection = h
  BY <1>1, DisconnectedRead DEF GoneMsg, Read
<1> HIDE DEF m
<1>3. EventOf(m) = Event("CONNECTION_DISCONNECT_EVT", h, 0)
  BY <1>1, <1>2, EventNames, SMT DEF EventOf, Posted
<1>4. DevicesOf(m) = [connectedDevices EXCEPT ![h] = Nobody]
  BY <1>1, <1>2, SMT DEF DevicesOf, DevicesAfter
<1> QED  BY <1>1, <1>2, <1>3, <1>4 DEF m

LEMMA CompletedMsgRead ==
  ASSUME NEW h, NEW result
  PROVE  LET m == CompletedMsg(h, result) IN
         /\ m.idx = "procedure_completed" /\ Fits(DriverReads[m.idx], m)
         /\ EventOf(m) = Event("GATT_PROCEDURE_COMPLETE_EVT", h, result) /\ DevicesOf(m) = connectedDevices
<1> DEFINE m == CompletedMsg(h, result)
<1>1. m.idx = "procedure_completed"
  BY DEF CompletedMsg, Message
<1>2. Fits(DriverReads[m.idx], m) /\ Read(m).connection = h /\ Read(m).result = result
  BY <1>1, CompletedRead DEF CompletedMsg, Read
<1> HIDE DEF m
<1>3. EventOf(m) = Event("GATT_PROCEDURE_COMPLETE_EVT", h, result)
  BY <1>1, <1>2, EventNames, SMT DEF EventOf, Posted
<1>4. DevicesOf(m) = connectedDevices
  BY <1>1, SMT DEF DevicesOf, DevicesAfter
<1> QED  BY <1>1, <1>2, <1>3, <1>4 DEF m

LEMMA ValueMsgRead ==
  ASSUME NEW h
  PROVE  LET m == ValueMsg(h) IN
         /\ m.idx = "attribute_value" /\ Fits(DriverReads[m.idx], m)
         /\ EventOf(m) = Event("ATTCLIENT_ATTRIBUTE_FOUND_EVT", h, 0) /\ DevicesOf(m) = connectedDevices
<1> DEFINE m == ValueMsg(h)
<1>1. m.idx = "attribute_value"
  BY DEF ValueMsg, Message
<1>2. Fits(DriverReads[m.idx], m) /\ Read(m).connection = h
  BY <1>1, ValueRead DEF ValueMsg, Read
<1> HIDE DEF m
<1>3. EventOf(m) = Event("ATTCLIENT_ATTRIBUTE_FOUND_EVT", h, 0)
  BY <1>1, <1>2, EventNames, SMT DEF EventOf, Posted
<1>4. DevicesOf(m) = connectedDevices
  BY <1>1, SMT DEF DevicesOf, DevicesAfter
<1> QED  BY <1>1, <1>2, <1>3, <1>4 DEF m

LEMMA FindingsRead ==
  ASSUME NEW m \in Findings
  PROVE  /\ m.idx \in {"group_found", "information_found", "scan_response"} /\ EventOf(m) = NoEvent
         /\ DevicesOf(m) = connectedDevices
<1>1. m.idx \in {"group_found", "information_found", "scan_response"}
  BY DEF Findings, GroupFoundMsg, InfoFoundMsg, FoundMsg, Message
<1>2. EventOf(m) = NoEvent
  BY <1>1, EventNames, SMT DEF EventOf, Posted
<1>3. DevicesOf(m) = connectedDevices
  BY <1>1, SMT DEF DevicesOf, DevicesAfter
<1> QED  BY <1>1, <1>2, <1>3

-----------------------------------------------------------------------------
(* What the dongle answers to each call.                                   *)

Args(m) == Unpacked(ClientCalls[m.idx], m)
Rsp(c, h, result) ==
  CASE c \in Simply -> SimpleRsp(c, result)
    [] c \in LinkCommands -> LinkRsp(c, h, result)
    [] c = "connect_direct" -> ConnectRsp(h, result)
    [] c = "get_connections" -> MaxConnectionsRsp
    [] c = "get_info" -> InfoRsp

LEMMA RspIs ==
  ASSUME NEW h, NEW result
  PROVE  /\ \A c \in Simply : Rsp(c, h, result) = SimpleRsp(c, result)
         /\ \A c \in LinkCommands : Rsp(c, h, result) = LinkRsp(c, h, result)
         /\ Rsp("connect_direct", h, result) = ConnectRsp(h, result)
         /\ Rsp("get_connections", h, result) = MaxConnectionsRsp
         /\ Rsp("get_info", h, result) = InfoRsp
<1>1. ASSUME NEW c \in Simply PROVE Rsp(c, h, result) = SimpleRsp(c, result)
  BY EventNames, SMT DEF Rsp
<1>2. ASSUME NEW c \in LinkCommands PROVE Rsp(c, h, result) = LinkRsp(c, h, result)
  BY EventNames, SMT DEF Rsp
<1>3. Rsp("connect_direct", h, result) = ConnectRsp(h, result)
  BY EventNames, SMT DEF Rsp
<1>4. Rsp("get_connections", h, result) = MaxConnectionsRsp
  BY EventNames, SMT DEF Rsp
<1>5. Rsp("get_info", h, result) = InfoRsp
  BY EventNames, SMT DEF Rsp
<1> QED  BY <1>1, <1>2, <1>3, <1>4, <1>5

Commanded == Simply \cup LinkCommands \cup {"connect_direct", "get_connections", "get_info"}
LEMMA ResponsePacked ==
  ASSUME NEW c \in Commanded, NEW h, NEW result
  PROVE  Packed(c, ClientPacks[c], ResponseFields(h, result)) = Rsp(c, h, result) /\ Rsp(c, h, result).idx = c
<1>1. CASE c \in Simply
  BY <1>1, RspIs, SimpleResponsePacked DEF Simply, SimpleRsp, Message
<1>2. CASE c \in LinkCommands
  <2>1. Packed(c, ClientPacks[c], ResponseFields(h, result)) = LinkRsp(c, h, result)
    BY <1>2, ConnectionResponsePacked DEF LinkRsp
  <2>2. Rsp(c, h, result) = LinkRsp(c, h, result) /\ LinkRsp(c, h, result).idx = c
    BY <1>2, RspIs DEF LinkRsp, Message
  <2> QED  BY <2>1, <2>2
<1>3. CASE c = "connect_direct"
  BY <1>3, RspIs, ConnectResponsePacked DEF ConnectRsp, Message
<1>4. CASE c \in {"get_connections", "get_info"}
  BY <1>4, RspIs, InfoResponsePacked DEF MaxConnectionsRsp, InfoRsp, Message
<1> QED  BY <1>1, <1>2, <1>3, <1>4 DEF Commanded

LEMMA LeastHandle ==
  ASSUME Free # {}
  PROVE  Min(Free) \in Free /\ Free \subseteq Handle
<1>1. Free \subseteq Nat /\ Free \subseteq Handle
  <2>1. \A n \in 0 .. 254 : n \in Nat
    OBVIOUS
  <2>2. Free \subseteq Handle
    BY DEF Free
  <2> QED  BY <2>1, <2>2, HandleAssumption
<1>2. PICK k \in Free : \A j \in Free : ~(j < k)
  BY <1>1, LeastNumber
<1>3. \A j \in Free : k <= j
  BY <1>1, <1>2
<1>4. Min(Free) \in Free
  BY <1>2, <1>3 DEF Min
<1> QED  BY <1>1, <1>4

\* The connection and the result in a response.
LEMMA ResultsAre ==
  ASSUME NEW m \in CommandMessages, NEW result \in ResultsOf(m.idx, Args(m)), NEW h, h = Subject(m.idx, Args(m))
  PROVE  /\ m.idx \in Commanded
         /\ result \in Results
         /\ m.idx \in {"get_info", "get_connections"} => result = 0
         /\ m.idx \in LinkCommands => /\ h = Args(m).connection /\ h \in Handle
                                      /\ result = 0 => Runs({"none"}) /\ links[h] # Nobody
         /\ m.idx = "connect_direct" /\ result = 0 =>
              Runs({"none"}) /\ h \in Free /\ \A g \in Handle : links[g] # Args(m).address
         /\ m.idx = "connect_direct" => h \in Word8
<1>0. m.idx \in Commanded /\ (m.idx \in LinkCommands => Args(m).connection \in Handle)
  BY CallsOnLinks DEF Args, Commanded, Simply, Plainly
<1>1. CASE m.idx \in {"get_info", "get_connections"}
  <2>1. ResultsOf(m.idx, Args(m)) = {0}
    BY <1>1, SMT DEF ResultsOf, LinkCommands
  <2> QED  BY <1>0, <1>1, <2>1 DEF Results, LinkCommands
<1>2. CASE m.idx \in LinkCommands
  <2>1. Subject(m.idx, Args(m)) = Args(m).connection
    BY <1>2, SMT DEF Subject, LinkCommands
  <2>2. ResultsOf(m.idx, Args(m)) = IF Runs({"none"}) /\ links[Args(m).connection] # Nobody THEN {0, 1} ELSE {1}
    BY <1>2, SMT DEF ResultsOf, LinkCommands
  <2>3. m.idx \notin {"get_info", "get_connections", "connect_direct"}
    BY <1>2 DEF LinkCommands
  <2> QED  BY <1>0, <1>2, <2>1, <2>2, <2>3 DEF Results
<1>3. CASE m.idx = "connect_direct"
  <2>1. Subject(m.idx, Args(m)) = IF Free # {} THEN Min(Free) ELSE 0
    BY <1>3, SMT DEF Subject, LinkCommands
  <2>2. ResultsOf(m.idx, Args(m)) =
          IF Runs({"none"}) /\ Free # {} /\ \A g \in Handle : links[g] # Args(m).address THEN {0, 1} ELSE {1}
    BY <1>3, SMT DEF ResultsOf, LinkCommands
  <2>3. m.idx \notin {"get_info", "get_connections"} \cup LinkCommands
    BY <1>3 DEF LinkCommands
  <2>4. h \in Word8
    BY <2>1, LeastHandle, HandlesAreBytes, SmallNumbers
  <2> QED  BY <1>0, <1>3, <2>1, <2>2, <2>3, <2>4, LeastHandle DEF Results
<1>4. CASE m.idx \in Simply
  <2>1. ResultsOf(m.idx, Args(m)) = {0, 1}
    BY <1>4, SMT DEF ResultsOf, LinkCommands, Simply
  <2> QED  BY <1>0, <1>4, <2>1, EventNames DEF Results
<1> QED  BY <1>0, <1>1, <1>2, <1>3, <1>4 DEF Commanded

LEMMA ProcedureAfterIs ==
  ASSUME NEW c, NEW a, NEW h
  PROVE  /\ c = "end_procedure" => ProcedureAfter(c, a, h) = Idle
         /\ c = "connect_direct" => ProcedureAfter(c, a, h) = [cmd |-> c, ch |-> h, device |-> a.address]
         /\ c = "discover" => ProcedureAfter(c, a, h) = [cmd |-> c, ch |-> h, device |-> Nobody]
         /\ c \in LinkCommands => ProcedureAfter(c, a, h) = [cmd |-> c, ch |-> h, device |-> links[h]]
         /\ c \in {"get_info", "get_connections", "set_scan_parameters"} => ProcedureAfter(c, a, h) = procedure
<1>1. ASSUME c = "end_procedure" PROVE ProcedureAfter(c, a, h) = Idle
  BY <1>1, SMT DEF ProcedureAfter, LinkCommands
<1>2. ASSUME c = "connect_direct" PROVE ProcedureAfter(c, a, h) = [cmd |-> c, ch |-> h, device |-> a.address]
  BY <1>2, SMT DEF ProcedureAfter, LinkCommands
<1>3. ASSUME c = "discover" PROVE ProcedureAfter(c, a, h) = [cmd |-> c, ch |-> h, device |-> Nobody]
  BY <1>3, SMT DEF ProcedureAfter, LinkCommands
<1>4. ASSUME c \in LinkCommands PROVE ProcedureAfter(c, a, h) = [cmd |-> c, ch |-> h, device |-> links[h]]
  BY <1>4, SMT DEF ProcedureAfter, LinkCommands
<1>5. ASSUME c \in {"get_info", "get_connections", "set_scan_parameters"} PROVE ProcedureAfter(c, a, h) = procedure
  BY <1>5, SMT DEF ProcedureAfter, LinkCommands
<1> QED  BY <1>1, <1>2, <1>3, <1>4, <1>5

\* A call of the client, at the dongle.
ClientCall(m, result, h) ==
  /\ m = Head(toClient) /\ toClient # <<>> /\ toClient' = Tail(toClient)
  /\ asked' = Append(asked, Call(m))
  /\ result \in ResultsOf(m.idx, Args(m)) /\ h = Subject(m.idx, Args(m))
  /\ toDriver' = Append(toDriver, Rsp(m.idx, h, result))
  /\ procedure' = IF result = 0 THEN ProcedureAfter(m.idx, Args(m), h) ELSE procedure
  /\ performed' = IF result = 0 /\ m.idx \notin Lasting THEN performed \cup {m.idx}
                  ELSE IF result # 0 /\ m.idx \notin Unawaited THEN performed \cup {"error"} ELSE performed
LEMMA ClientCalls1 ==
  ASSUME ClientExecutes, toClient \in Seq(CommandMessages)
  PROVE  \E m \in CommandMessages : \E result \in ResultsOf(m.idx, Args(m)) : ClientCall(m, result, Subject(m.idx, Args(m)))
<1> DEFINE m == Head(toClient)
<1>1. m \in CommandMessages /\ toClient # <<>>
  BY DEF ClientExecutes
<1>2. asked' = Append(asked, Call(m)) /\ DongleAnswers(m.idx, Args(m)) /\ toClient' = Tail(toClient)
  BY DEF ClientExecutes, Call, Args
<1>3. PICK result \in ResultsOf(m.idx, Args(m)) :
        LET h == Subject(m.idx, Args(m)) IN
        /\ toDriver' = Append(toDriver, Packed(m.idx, ClientPacks[m.idx], ResponseFields(h, result)))
        /\ procedure' = IF result = 0 THEN ProcedureAfter(m.idx, Args(m), h) ELSE procedure
        /\ performed' = CASE result = 0 /\ m.idx \notin Lasting -> performed \cup {m.idx}
                          [] result # 0 /\ m.idx \notin Unawaited -> performed \cup {"error"}
                          [] OTHER -> performed
  BY <1>2 DEF DongleAnswers
<1>4. m.idx \in Commanded
  BY <1>1, ResultsAre
<1> DEFINE h == Subject(m.idx, Args(m))
<1>5. Packed(m.idx, ClientPacks[m.idx], ResponseFields(h, result)) = Rsp(m.idx, h, result)
  BY <1>4, ResponsePacked
<1>6. performed' = IF result = 0 /\ m.idx \notin Lasting THEN performed \cup {m.idx}
                   ELSE IF result # 0 /\ m.idx \notin Unawaited THEN performed \cup {"error"} ELSE performed
  <2> HIDE DEF m
  <2> QED  BY <1>3, SMT
<1> QED  BY <1>1, <1>2, <1>3, <1>5, <1>6 DEF ClientCall

LEMMA ResponsesAreAnswers ==
  ASSUME NEW m \in CommandMessages, NEW result \in ResultsOf(m.idx, Args(m)), NEW h, h = Subject(m.idx, Args(m))
  PROVE  Rsp(m.idx, h, result) \in Responses
<1>1. m.idx \in Commanded /\ result \in Results
      /\ (m.idx \in LinkCommands => h \in Handle) /\ (m.idx = "connect_direct" => h \in Word8)
  BY ResultsAre
<1>2. CASE m.idx \in Simply
  <2>1. Rsp(m.idx, h, result) = SimpleRsp(m.idx, result)
    BY <1>2, RspIs
  <2>2. SimpleRsp(m.idx, result) \in {SimpleRsp(c, r) : c \in Simply, r \in Results}
    BY <1>1, <1>2
  <2> QED  BY <2>1, <2>2 DEF Responses
<1>3. CASE m.idx \in LinkCommands
  <2>1. Rsp(m.idx, h, result) = LinkRsp(m.idx, h, result)
    BY <1>3, RspIs
  <2>2. LinkRsp(m.idx, h, result) \in {LinkRsp(c, g, r) : c \in LinkCommands, g \in Handle, r \in Results}
    BY <1>1, <1>3
  <2> QED  BY <2>1, <2>2 DEF Responses
<1>4. CASE m.idx = "connect_direct"
  BY <1>1, <1>4, RspIs DEF Responses
<1>5. CASE m.idx \in {"get_connections", "get_info"}
  BY <1>5, RspIs DEF Responses
<1> QED  BY <1>1, <1>2, <1>3, <1>4, <1>5 DEF Commanded

-----------------------------------------------------------------------------
(* What it tells of its own.                                               *)

ProcedureFits ==
  \/ procedure = Idle
  \/ procedure.cmd = "discover"
  \/ procedure.cmd \in Lasting /\ procedure.ch \in Handle /\ procedure.device \in Bytes

Success(c, h, device) ==
  CASE c = "connect_direct" -> StatusMsg(h, device, 5)
    [] c = "update" -> StatusMsg(h, device, 9)
    [] c = "disconnect" -> GoneMsg(h, 534)
    [] c = "read_by_handle" -> ValueMsg(h)
    [] c \in Completing -> CompletedMsg(h, 0)
LEMMA SuccessIs ==
  ASSUME NEW h, NEW device
  PROVE  /\ Success("connect_direct", h, device) = StatusMsg(h, device, 5)
         /\ Success("update", h, device) = StatusMsg(h, device, 9)
         /\ Success("disconnect", h, device) = GoneMsg(h, 534)
         /\ Success("read_by_handle", h, device) = ValueMsg(h)
         /\ \A c \in Completing : Success(c, h, device) = CompletedMsg(h, 0)
<1>1. ASSUME NEW c \in Completing PROVE Success(c, h, device) = CompletedMsg(h, 0)
  BY SMT DEF Success, Completing
<1> QED  BY <1>1, SMT DEF Success, Completing

\* With whatever numbers.
LEMMA TellsAre ==
  /\ \A h, address, flags : Packed("status", ClientPacks["status"], [EventFields(h) EXCEPT !.address = address, !.flags = flags])
                            = StatusMsg(h, address, flags)
  /\ \A h, reason : Packed("disconnected", ClientPacks["disconnected"], [EventFields(h) EXCEPT !.reason = reason])
                    = GoneMsg(h, reason)
  /\ \A h : Packed("attribute_value", ClientPacks["attribute_value"], [EventFields(h) EXCEPT !.value = Longest(22)]) = ValueMsg(h)
  /\ \A h : Packed("procedure_completed", ClientPacks["procedure_completed"], EventFields(h)) = CompletedMsg(h, 0)
  /\ \A h, result : Packed("procedure_completed", ClientPacks["procedure_completed"], [EventFields(h) EXCEPT !.result = result])
                    = CompletedMsg(h, result)
BY StatusPacked, DisconnectedPacked, ValuePacked, CompletedPacked, ZenonT(60) DEF StatusMsg, GoneMsg, ValueMsg, CompletedMsg

LEMMA Succeeds ==
  ASSUME ProcedureSucceeds
  PROVE  LET c == procedure.cmd  h == procedure.ch IN
         /\ c \in Lasting /\ toDriver' = Append(toDriver, Success(c, h, procedure.device))
         /\ links' = IF c = "connect_direct" THEN [links EXCEPT ![h] = procedure.device]
                     ELSE IF c = "disconnect" THEN [links EXCEPT ![h] = Nobody] ELSE links
         /\ performed' = performed \cup {c} /\ procedure' = Idle
<1> DEFINE c == procedure.cmd
           h == procedure.ch
           device == procedure.device
<1>1. c \in Lasting
  BY DEF ProcedureSucceeds, Runs
<1>2. links' = IF c = "connect_direct" THEN [links EXCEPT ![h] = device]
               ELSE IF c = "disconnect" THEN [links EXCEPT ![h] = Nobody] ELSE links
  BY SMT DEF ProcedureSucceeds
<1>3. performed' = performed \cup {c} /\ procedure' = Idle
  BY DEF ProcedureSucceeds
<1>4. \/ c = "connect_direct" /\ Tells("status", [EventFields(h) EXCEPT !.address = device, !.flags = 5])
      \/ c = "update" /\ Tells("status", [EventFields(h) EXCEPT !.address = device, !.flags = 9])
      \/ c = "disconnect" /\ Tells("disconnected", [EventFields(h) EXCEPT !.reason = 534])
      \/ c = "read_by_handle" /\ Tells("attribute_value", [EventFields(h) EXCEPT !.value = Longest(22)])
      \/ c \in Completing /\ Tells("procedure_completed", EventFields(h))
  BY DEF ProcedureSucceeds
<1>5. toDriver' = Append(toDriver, Success(c, h, device))
  <2> HIDE DEF c, h, device
  <2>1. CASE c = "connect_direct"
    <3>1. PICK n : n = 5
      OBVIOUS
    <3>2. toDriver' = Append(toDriver, Packed("status", ClientPacks["status"], [EventFields(h) EXCEPT !.address = device, !.flags = n]))
      BY <1>4, <2>1, <3>1 DEF Tells, Completing
    <3>3. toDriver' = Append(toDriver, StatusMsg(h, device, n))
      BY <3>2, TellsAre, Zenon
    <3> QED  BY <2>1, <3>1, <3>3, SuccessIs
  <2>2. CASE c = "update"
    <3>1. PICK n : n = 9
      OBVIOUS
    <3>2. toDriver' = Append(toDriver, Packed("status", ClientPacks["status"], [EventFields(h) EXCEPT !.address = device, !.flags = n]))
      BY <1>4, <2>2, <3>1 DEF Tells, Completing
    <3>3. toDriver' = Append(toDriver, StatusMsg(h, device, n))
      BY <3>2, TellsAre, Zenon
    <3> QED  BY <2>2, <3>1, <3>3, SuccessIs
  <2>3. CASE c = "disconnect"
    <3>1. PICK n : n = 534
      OBVIOUS
    <3>2. toDriver' = Append(toDriver, Packed("disconnected", ClientPacks["disconnected"], [EventFields(h) EXCEPT !.reason = n]))
      BY <1>4, <2>3, <3>1, SMT DEF Tells, Completing
    <3>3. toDriver' = Append(toDriver, GoneMsg(h, n))
      BY <3>2, TellsAre, Zenon
    <3> QED  BY <2>3, <3>1, <3>3, SuccessIs
  <2>4. CASE c = "read_by_handle"
    <3>1. toDriver' = Append(toDriver, Packed("attribute_value", ClientPacks["attribute_value"], [EventFields(h) EXCEPT !.value = Longest(22)]))
      BY <1>4, <2>4, SMT DEF Tells, Completing
    <3>2. toDriver' = Append(toDriver, ValueMsg(h))
      BY <3>1, TellsAre, Zenon
    <3> QED  BY <2>4, <3>2, SuccessIs
  <2>5. CASE c \in Completing
    <3>1. toDriver' = Append(toDriver, Packed("procedure_completed", ClientPacks["procedure_completed"], EventFields(h)))
      BY <1>4, <2>5, SMT DEF Tells, Completing
    <3>2. toDriver' = Append(toDriver, CompletedMsg(h, 0))
      BY <3>1, TellsAre, Zenon
    <3> QED  BY <2>5, <3>2, SuccessIs, ZenonT(60)
  <2> QED  BY <1>4, <2>1, <2>2, <2>3, <2>4, <2>5
<1> QED  BY <1>1, <1>2, <1>3, <1>5

LEMMA Fails ==
  ASSUME ProcedureFails
  PROVE  /\ procedure.cmd \in LinkCommands \ {"update", "disconnect"}
         /\ toDriver' = Append(toDriver, CompletedMsg(procedure.ch, 1025))
<1>1. procedure.cmd \in LinkCommands \ {"update", "disconnect"}
  BY DEF ProcedureFails, Runs
<1>2. PICK n : n = 1025
  OBVIOUS
<1>3. toDriver' = Append(toDriver, Packed("procedure_completed", ClientPacks["procedure_completed"],
                                          [EventFields(procedure.ch) EXCEPT !.result = n]))
  BY <1>2, SMT DEF ProcedureFails, Tells
<1>4. toDriver' = Append(toDriver, CompletedMsg(procedure.ch, n))
  BY <1>3, TellsAre, Zenon
<1> QED  BY <1>1, <1>2, <1>4

LEMMA FindsIs ==
  ASSUME ProcedureFinds
  PROVE  \/ procedure.cmd = "read_by_group_type" /\ toDriver' = Append(toDriver, GroupFoundMsg(procedure.ch))
         \/ procedure.cmd = "find_information" /\ toDriver' = Append(toDriver, InfoFoundMsg(procedure.ch))
         \/ procedure.cmd = "discover" /\ toDriver' = Append(toDriver, FoundMsg)
BY GroupPacked, InformationPacked, ScanPacked, SMTT(60) DEF ProcedureFinds, Runs, Tells, GroupFoundMsg, InfoFoundMsg, FoundMsg

LEMMA Loses ==
  ASSUME LinkLost
  PROVE  \E h \in Handle \ Free :
            /\ links' = [links EXCEPT ![h] = Nobody]
            /\ procedure' = IF procedure.cmd \in LinkCommands /\ procedure.ch = h THEN Idle ELSE procedure
            /\ toDriver' = Append(toDriver, GoneMsg(h, 520))
<1>1. PICK h \in Handle \ Free :
            /\ links' = [links EXCEPT ![h] = Nobody]
            /\ procedure' = IF Runs(LinkCommands) /\ procedure.ch = h THEN Idle ELSE procedure
            /\ Tells("disconnected", [EventFields(h) EXCEPT !.reason = 520])
  BY DEF LinkLost
<1>2. toDriver' = Append(toDriver, GoneMsg(h, 520))
  <2>1. PICK n : n = 520
    OBVIOUS
  <2>2. toDriver' = Append(toDriver, Packed("disconnected", ClientPacks["disconnected"], [EventFields(h) EXCEPT !.reason = n]))
    BY <1>1, <2>1, SMT DEF Tells
  <2>3. toDriver' = Append(toDriver, GoneMsg(h, n))
    BY <2>2, TellsAre, Zenon
  <2> QED  BY <2>1, <2>3
<1> QED  BY <1>1, <1>2, ZenonT(60) DEF Runs

-----------------------------------------------------------------------------
(* The inductive invariant: where a request is, and what is under way.     *)

Stages == {"idle", "arrived", "worker", "send", "wait", "scanning", "answered"}
Statuses == {0, 200, 201, 400, 404, 405, 406, 502}
Refused == ParseAcceptHeader(request.accept) = "none"

StageFits ==
  /\ stage \in Stages
  /\ stage # "idle" => request \in Requests
  /\ stage \in {"idle", "arrived", "worker"} => call = NoCall
  /\ stage \in {"send", "wait", "scanning"} => call.op \in Ops
  /\ stage = "scanning" => call.op = "discover"
  /\ stage = "worker" => FirstIsDongle(request) /\ request.path[1].n = Dongle
  /\ call.op \in Ops => ~Refused
  /\ CallFits
AnswerFits ==
  /\ answer.status \in Statuses /\ answer.told \in BOOLEAN /\ answer.mime \in {"none"} \cup Media
  /\ stage # "answered" => answer = NoAnswer
  /\ stage = "answered" /\ Processed => answer.mime = Mime /\ (answer.status = 406 <=> Refused)
DevicesFit == connectedDevices \in [Handle -> Bytes] /\ links \in [Handle -> Bytes]
TrafficFits == toClient \in Seq(CommandMessages) /\ toDriver \in Seq(Answers) /\ asked \in Seq(Calls)
PathInv == StageFits /\ AnswerFits /\ DevicesFit /\ ProcedureFits /\ TrafficFits

-----------------------------------------------------------------------------
(* The gateway.                                                            *)

LEMMA NothingIsWellTyped ==
  /\ NoAnswer.status \in Statuses /\ NoAnswer.told \in BOOLEAN /\ NoAnswer.mime \in {"none"} \cup Media
  /\ NoCall \in [op : {"none"} \cup Ops, handle : {0} \cup Handle, step : Nat]
  /\ NoCall.op = "none" /\ "none" \notin Ops /\ ~OnConnection("none") /\ "none" \notin DeviceOps
BY DEF NoAnswer, NoCall, Statuses, Ops, OnConnection, DeviceOps

LEMMA StatusIs ==
  ASSUME NEW op, NEW code, NEW ch
  PROVE  /\ Status(op, code, ch) \in {200, 201, 404, 502}
         /\ op \in {"read", "readall", "write"} /\ ch = NoHandle => Status(op, code, ch) = 404
         /\ ~(op \in {"read", "readall", "write"} /\ ch = NoHandle) /\ code # Ok => Status(op, code, ch) = 502
         /\ ~(op \in {"read", "readall", "write"} /\ ch = NoHandle) /\ code = Ok =>
              Status(op, code, ch) = IF op = "connect" THEN 201 ELSE 200
<1>1. CASE op \in {"read", "readall", "write"} /\ ch = NoHandle
  <2>1. Status(op, code, ch) = 404
    BY <1>1, SMT DEF Status
  <2> QED  BY <1>1, <2>1
<1>2. CASE ~(op \in {"read", "readall", "write"} /\ ch = NoHandle) /\ code # Ok
  <2>1. Status(op, code, ch) = 502
    BY <1>2, SMT DEF Status
  <2> QED  BY <1>2, <2>1
<1>3. CASE ~(op \in {"read", "readall", "write"} /\ ch = NoHandle) /\ code = Ok
  <2>1. Status(op, code, ch) = IF op = "connect" THEN 201 ELSE 200
    BY <1>3, SMT DEF Status
  <2> QED  BY <1>3, <2>1
<1> QED  BY <1>1, <1>2, <1>3

\* An answer in the content type that was accepted.
LEMMA ReturnFits ==
  ASSUME request \in Requests, ~Refused, UNCHANGED request, NEW op, NEW code, NEW ch, Return(op, code, ch)
  PROVE  stage' = "answered" /\ AnswerFits'
<1>1. /\ stage' = "answered"
      /\ answer' = [status |-> Status(op, code, ch), mime |-> Mime, told |-> code = Ok /\ Told(op)]
  BY DEF Return, Answered
<1>2. answer'.status \in {200, 201, 404, 502} /\ answer'.mime = Mime /\ answer'.told \in BOOLEAN
  <2>1. (code = Ok /\ Told(op)) \in BOOLEAN
    OBVIOUS
  <2> QED  BY <1>1, <2>1, StatusIs
<1>3. Mime' = Mime /\ Refused' = Refused
  BY DEF Mime, Refused
<1>4. answer'.status \in Statuses /\ answer'.status # 406
  BY <1>2, SMT DEF Statuses
<1> QED  BY <1>1, <1>2, <1>3, <1>4, MimeTyped DEF AnswerFits
LEMMA AtOnceFits ==
  ASSUME request \in Requests, UNCHANGED request, NEW status, AtOnce(status),
         status \in {200, 400, 405, 406}, status = 406 <=> Refused
  PROVE  stage' = "answered" /\ call' = call /\ AnswerFits'
<1>1. /\ stage' = "answered" /\ call' = call
      /\ answer' = [status |-> status, mime |-> Mime, told |-> FALSE]
  BY DEF AtOnce, Answered
<1>2. answer'.status = status /\ answer'.mime = Mime /\ answer'.told \in BOOLEAN
  BY <1>1
<1>3. Mime' = Mime /\ Refused' = Refused
  BY DEF Mime, Refused
<1>4. answer'.status \in Statuses
  BY <1>2, SMT DEF Statuses
<1> QED  BY <1>1, <1>2, <1>3, <1>4, MimeTyped DEF AnswerFits

LEMMA PathInit == Init => PathInv
<1> SUFFICES ASSUME Init PROVE PathInv
  OBVIOUS
<1> USE DEF Init
<1>1. StageFits
  BY NothingIsWellTyped DEF StageFits, CallFits, Stages
<1>2. AnswerFits
  BY NothingIsWellTyped DEF AnswerFits
<1>3. DevicesFit /\ ProcedureFits /\ TrafficFits
  BY DEF DevicesFit, ProcedureFits, TrafficFits, Bytes, Nobody
<1> QED  BY <1>1, <1>2, <1>3 DEF PathInv

LEMMA ArriveFits ==
  ASSUME PathInv, Arrive
  PROVE  PathInv'
<1> USE DEF PathInv
<1>1. stage = "idle" /\ request' \in Requests /\ stage' = "arrived" /\ call' = NoCall /\ answer' = NoAnswer
  BY DEF Arrive, StageFits, AnswerFits
<1>2. StageFits'
  BY <1>1, NothingIsWellTyped DEF StageFits, CallFits, Stages
<1>3. AnswerFits'
  BY <1>1, NothingIsWellTyped DEF AnswerFits
<1>4. DevicesFit' /\ ProcedureFits' /\ TrafficFits'
  BY DEF Arrive, DevicesFit, ProcedureFits, TrafficFits, dongle
<1> QED  BY <1>2, <1>3, <1>4

LEMMA FinishFits ==
  ASSUME PathInv, FinishRequest
  PROVE  PathInv'
<1> USE DEF PathInv
<1>1. stage' = "idle" /\ call' = NoCall /\ answer' = NoAnswer
  BY DEF FinishRequest
<1>2. StageFits'
  BY <1>1, NothingIsWellTyped DEF StageFits, CallFits, Stages
<1>3. AnswerFits'
  BY <1>1, NothingIsWellTyped DEF AnswerFits
<1>4. DevicesFit' /\ ProcedureFits' /\ TrafficFits'
  BY DEF FinishRequest, DevicesFit, ProcedureFits, TrafficFits, dongle
<1> QED  BY <1>2, <1>3, <1>4

\* Nothing but the request moves on.
LEMMA Elsewhere ==
  ASSUME PathInv, UNCHANGED <<connectedDevices, toClient, toDriver, dongle, asked>>
  PROVE  DevicesFit' /\ ProcedureFits' /\ TrafficFits'
BY DEF PathInv, DevicesFit, ProcedureFits, TrafficFits, dongle

LEMMA OrderIs ==
  LET o == ProcessHTTPRequest(request) IN
  /\ Refused => o = Order("ERROR", 406)
  /\ ~Refused => o = ParseURI(request.path, request.method)
BY DEF ProcessHTTPRequest, Refused

LEMMA OrderFields == \A c, n : Order(c, n).command = c /\ Order(c, n).code = n
BY DEF Order

\* The command of a request that has come to its end at once, or to a worker.
LEMMA Orders ==
  LET o == ProcessHTTPRequest(request) IN
  /\ o.command \in {"GW_OVERVIEW", "DONGLE_OVERVIEW", "DISCOVERED", "CONNECTED", "BLEDEV_OVERVIEW", "CONNECT",
                    "DISCONNECT", "READ_HANDLE", "WRITE_HANDLE", "OPTIONS", "ERROR"}
  /\ o.command # "ERROR" => ~Refused
  /\ o.command = "OPTIONS" => o.code = 200
  /\ o.command = "ERROR" => o.code \in {400, 405, 406} /\ (o.code = 406 <=> Refused)
  /\ o.command \in {"BLEDEV_OVERVIEW", "CONNECT", "DISCONNECT"} => Len(request.path) = 2 /\ IsValidMAC(request.path[2])
  /\ o.command \in {"READ_HANDLE", "WRITE_HANDLE"} => Len(request.path) = 3 /\ IsValidMAC(request.path[2])
  /\ Len(request.path) = 0 => o.command \in {"GW_OVERVIEW", "OPTIONS", "ERROR"}
  /\ o.command = "GW_OVERVIEW" => Len(request.path) = 0
<1>1. CASE Refused
  BY <1>1, OrderIs, OrderFields
<1>2. CASE ~Refused
  <2>1. ProcessHTTPRequest(request) = ParseURI(request.path, request.method)
    BY <1>2, OrderIs
  <2>2. \A n \in {400, 405} : n # 406
    OBVIOUS
  <2> QED  BY <1>2, <2>1, <2>2, URICommands
<1> QED  BY <1>1, <1>2

LEMMA FCGIWorkerFits ==
  ASSUME PathInv, FCGIWorker
  PROVE  PathInv'
<1> USE DEF PathInv
<1>0. /\ stage = "arrived" /\ request \in Requests /\ call' = NoCall /\ request' = request
      /\ answer = NoAnswer
  BY DEF FCGIWorker, StageFits, AnswerFits
<1>1. DevicesFit' /\ ProcedureFits' /\ TrafficFits'
  BY Elsewhere DEF FCGIWorker
<1>2. Mime' = Mime /\ Refused' = Refused /\ Processed' = Processed
  BY <1>0 DEF Mime, Refused, Processed
<1>3. CASE IsGlobal(request) /\ Answered(GlobalStatus, Mime, FALSE)
  <2>1. stage' = "answered" /\ answer'.status = GlobalStatus /\ answer'.mime = Mime /\ answer'.told = FALSE
    BY <1>3 DEF Answered
  <2>2. Len(request.path) = 0
    BY <1>3 DEF IsGlobal
  <2>3. GlobalStatus \in {200, 400, 405, 406} /\ (GlobalStatus = 406 <=> Refused)
    <3> DEFINE o == ProcessHTTPRequest(request)
    <3>1. o.command \in {"GW_OVERVIEW", "OPTIONS", "ERROR"}
      BY <2>2, Orders
    <3>2. CASE o.command = "GW_OVERVIEW"
      BY <3>2, Orders DEF GlobalStatus
    <3>3. CASE o.command = "OPTIONS"
      BY <3>3, Orders DEF GlobalStatus
    <3>4. CASE o.command = "ERROR"
      BY <3>4, Orders DEF GlobalStatus
    <3> QED  BY <3>1, <3>2, <3>3, <3>4
  <2>4. GlobalStatus \in Statuses
    BY <2>3, SMT DEF Statuses
  <2>5. AnswerFits'
    BY <1>0, <1>2, <2>1, <2>3, <2>4, MimeTyped, ZenonT(60) DEF AnswerFits
  <2>6. StageFits'
    BY <1>0, <2>1, NothingIsWellTyped DEF StageFits, CallFits, Stages
  <2> QED  BY <1>1, <2>5, <2>6
<1>4. ASSUME NEW status \in {400, 404}, Answered(status, "text/html", FALSE), ~Processed
      PROVE  PathInv'
  <2>1. stage' = "answered" /\ answer'.status = status /\ answer'.mime = "text/html" /\ answer'.told = FALSE
    BY <1>4 DEF Answered
  <2>2. status \in Statuses /\ "text/html" \in Media
    BY SMT DEF Statuses, Media
  <2>3. AnswerFits'
    BY <1>2, <1>4, <2>1, <2>2, ZenonT(60) DEF AnswerFits
  <2>4. StageFits'
    BY <1>0, <2>1, NothingIsWellTyped DEF StageFits, CallFits, Stages
  <2> QED  BY <1>1, <2>3, <2>4
<1>5. CASE ~IsGlobal(request) /\ ~FirstIsDongle(request) /\ Answered(400, "text/html", FALSE)
  BY <1>4, <1>5, ZenonT(60) DEF Processed
<1>6. CASE FirstIsDongle(request) /\ request.path[1].n # Dongle /\ Answered(404, "text/html", FALSE)
  <2>1. ~IsGlobal(request)
    BY <1>6 DEF IsGlobal, FirstIsDongle
  <2> QED  BY <1>4, <1>6, <2>1, ZenonT(60) DEF Processed
<1>7. CASE FirstIsDongle(request) /\ request.path[1].n = Dongle /\ stage' = "worker" /\ UNCHANGED answer
  <2>1. StageFits'
    BY <1>0, <1>7, NothingIsWellTyped DEF StageFits, CallFits, Stages
  <2>2. AnswerFits'
    BY <1>0, <1>7, NothingIsWellTyped DEF AnswerFits
  <2> QED  BY <1>1, <2>1, <2>2
<1> QED  BY <1>3, <1>5, <1>6, <1>7 DEF FCGIWorker

LEMMA BeginFits ==
  ASSUME PathInv, stage = "worker", UNCHANGED <<request, connectedDevices, toClient, toDriver, dongle, asked, performed>>,
         NEW op \in Ops, NEW h, Begin(op, h), ~Refused,
         h \in {0} \cup Handle, OnConnection(op) => h \in Handle,
         op \in DeviceOps => Len(request.path) >= 2 /\ IsValidMAC(request.path[2]),
         op \in {"read", "write"} => Len(request.path) = 3
  PROVE  PathInv'
<1>1. stage' = "send" /\ call' = [op |-> op, handle |-> h, step |-> 1] /\ answer' = answer
  BY DEF Begin
<1>2. CallFits'
  <2>1. 1 \in 1 .. Len(Script[op])
    BY ScriptLengths
  <2> QED  BY <1>1, <2>1 DEF CallFits
<1>3. StageFits'
  BY <1>1, <1>2 DEF PathInv, StageFits, Stages, Refused
<1>4. AnswerFits'
  BY <1>1 DEF PathInv, AnswerFits, StageFits
<1> QED  BY <1>3, <1>4, Elsewhere DEF PathInv

LEMMA EndsFit ==
  ASSUME PathInv, stage = "worker", UNCHANGED <<request, connectedDevices, toClient, toDriver, dongle, asked, performed>>,
         stage' = "answered", AnswerFits', call' = call
  PROVE  PathInv'
<1>1. StageFits'
  BY NothingIsWellTyped DEF PathInv, StageFits, CallFits, Stages, Refused
<1> QED  BY <1>1, Elsewhere DEF PathInv

LEMMA OnDeviceFits ==
  ASSUME PathInv, stage = "worker", UNCHANGED <<request, connectedDevices, toClient, toDriver, dongle, asked, performed>>,
         ~Refused, NEW op \in Ops, NEW code, OnDevice(op, code),
         Len(request.path) >= 2 /\ IsValidMAC(request.path[2]),
         op \in {"read", "write"} => Len(request.path) = 3
  PROVE  PathInv'
<1>1. CASE \E h \in HandlesOf(Device) : Begin(op, h)
  <2>1. PICK h \in Handle : Begin(op, h)
    BY <1>1 DEF HandlesOf
  <2> QED  BY <2>1, BeginFits
<1>2. CASE Return(op, code, NoHandle) /\ UNCHANGED call
  <2>1. request \in Requests
    BY DEF PathInv, StageFits
  <2> QED  BY <1>2, <2>1, ReturnFits, EndsFit
<1> QED  BY <1>1, <1>2 DEF OnDevice

LEMMA WorkerFits ==
  ASSUME PathInv, ExecuteWorkRequest
  PROVE  PathInv'
<1> DEFINE o == ProcessHTTPRequest(request)
<1>1. /\ stage = "worker" /\ request \in Requests
      /\ UNCHANGED <<request, connectedDevices, toClient, toDriver, dongle, asked, performed>>
  BY DEF ExecuteWorkRequest, PathInv, StageFits
<1>2. ASSUME NEW status, AtOnce(status), status \in {200, 400, 405, 406}, status = 406 <=> Refused PROVE PathInv'
  BY <1>1, <1>2, AtOnceFits, EndsFit
<1>3. CASE o.command \in {"ERROR", "OPTIONS"} /\ AtOnce(o.code)
  <2>1. o.code \in {200, 400, 405, 406} /\ (o.code = 406 <=> Refused)
    BY <1>3, Orders
  <2> QED  BY <1>2, <1>3, <2>1
<1>4. CASE o.command \in {"DONGLE_OVERVIEW"} /\ Begin("info", 0)
  <2>1. "info" \in Ops /\ ~OnConnection("info") /\ "info" \notin DeviceOps
    BY DEF Ops, OnConnection, DeviceOps
  <2> QED  BY <1>1, <1>4, <2>1, BeginFits, Orders
<1>5. CASE o.command \in {"CONNECTED", "DISCOVERED", "READ_HANDLE"} /\ AtOnce(200)
  BY <1>2, <1>5, Orders
<1>6. CASE o.command = "DISCOVERED" /\ Begin("discover", 0)
  <2>1. "discover" \in Ops /\ ~OnConnection("discover") /\ "discover" \notin DeviceOps
    BY DEF Ops, OnConnection, DeviceOps
  <2> QED  BY <1>1, <1>6, <2>1, BeginFits, Orders
<1>7. CASE o.command = "CONNECT" /\ Begin("connect", 0)
  <2>1. "connect" \in Ops /\ ~OnConnection("connect") /\ Len(request.path) >= 2 /\ IsValidMAC(request.path[2])
    BY <1>7, Orders DEF Ops, OnConnection
  <2> QED  BY <1>1, <1>7, <2>1, BeginFits, Orders
<1>8. ASSUME NEW op \in {"readall", "update", "disconnect"}, OnDevice(op, Ok),
             o.command \in {"BLEDEV_OVERVIEW", "CONNECT", "DISCONNECT"}
      PROVE  PathInv'
  <2>1. op \in Ops /\ op \notin {"read", "write"} /\ Len(request.path) >= 2 /\ IsValidMAC(request.path[2]) /\ ~Refused
    BY <1>8, Orders DEF Ops
  <2> QED  BY <1>1, <1>8, <2>1, OnDeviceFits
<1>9. ASSUME NEW op \in {"read", "write"}, NEW code, OnAttribute(op, code), o.command \in {"READ_HANDLE", "WRITE_HANDLE"}
      PROVE  PathInv'
  <2>1. op \in Ops /\ Len(request.path) >= 2 /\ Len(request.path) = 3 /\ IsValidMAC(request.path[2]) /\ ~Refused
    BY <1>9, Orders DEF Ops
  <2>2. CASE OnDevice(op, code)
    BY <1>1, <2>1, <2>2, OnDeviceFits
  <2>3. CASE AtOnce(400)
    BY <1>2, <2>1, <2>3
  <2> QED  BY <1>9, <2>2, <2>3 DEF OnAttribute
<1> HIDE DEF o
<1>10. \/ o.command \in {"ERROR", "OPTIONS"} /\ AtOnce(o.code)
       \/ o.command \in {"DONGLE_OVERVIEW"} /\ Begin("info", 0)
       \/ o.command \in {"CONNECTED", "DISCOVERED", "READ_HANDLE"} /\ AtOnce(200)
       \/ o.command = "DISCOVERED" /\ Begin("discover", 0)
       \/ o.command = "CONNECT" /\ Begin("connect", 0)
       \/ o.command = "BLEDEV_OVERVIEW" /\ OnDevice("readall", Ok)
       \/ o.command = "CONNECT" /\ OnDevice("update", Ok)
       \/ o.command = "DISCONNECT" /\ OnDevice("disconnect", Ok)
       \/ o.command = "READ_HANDLE" /\ OnAttribute("read", Ok)
       \/ o.command = "WRITE_HANDLE" /\ OnAttribute("write", Gone)
  BY DEF ExecuteWorkRequest, ReadAttribute, o
<1> QED  BY <1>3, <1>4, <1>5, <1>6, <1>7, <1>8, <1>9, <1>10

-----------------------------------------------------------------------------
(* What is sent.                                                           *)

\* The names of a command's messages, and the messages.
LEMMA CommandsAre ==
  /\ CommandsOf("none") = <<>>
  /\ CommandsOf("discover") = <<"set_scan_parameters", "discover">>
  /\ \A c : c \notin {"none", "discover"} => CommandsOf(c) = <<c>>
<1>1. ASSUME NEW c, c \notin {"none", "discover"} PROVE CommandsOf(c) = <<c>>
  BY <1>1, SMT DEF CommandsOf
<1> QED  BY <1>1, SMT DEF CommandsOf
LEMMA MessagesAre ==
  /\ BleCmd(CommandsOf("none")) = <<>>
  /\ BleCmd(CommandsOf("discover")) = <<Sent("set_scan_parameters"), Sent("discover")>>
  /\ \A c : c \notin {"none", "discover"} => BleCmd(CommandsOf(c)) = <<Sent(c)>>
  /\ \A c : BleCmd(<<c>>) = <<Sent(c)>>
<1>1. BleCmd(<<>>) = <<>>
  BY DEF BleCmd
<1>2. ASSUME NEW c PROVE BleCmd(<<c>>) = <<Sent(c)>>
  BY SMT DEF BleCmd, Sent
<1>3. ASSUME NEW c, NEW d PROVE BleCmd(<<c, d>>) = <<Sent(c), Sent(d)>>
  BY SMTT(60) DEF BleCmd, Sent
<1> QED  BY <1>1, <1>2, <1>3, CommandsAre

\* What each step sends.
LEMMA StepSends ==
  ASSUME CallFits, call.op \in Ops
  PROVE  \/ Current.send = "none"
         \/ Current.send = "discover" /\ call.op = "discover"
         \/ Current.send \in Plainly \ {"end_procedure"} /\ call.op = "info"
         \/ Current.send \notin {"none", "discover"} /\ Sends(call.op, Current.send) /\ Current.send \in LinkCommands \cup {"connect_direct"}
<1>1. call.step \in 1 .. Len(Script[call.op])
  BY DEF CallFits
<1> QED  BY <1>1, ScriptEntries DEF Sends, Plainly, LinkCommands, Current

LEMMA StepMessages ==
  ASSUME request \in Requests, CallFits, call.op \in Ops
  PROVE  BleCmd(CommandsOf(Current.send)) \in Seq(CommandMessages) /\ BleCmd(<<"end_procedure">>) \in Seq(CommandMessages)
<1>0. \A c : Sent(c) \in CommandMessages => <<Sent(c)>> \in Seq(CommandMessages)
  OBVIOUS
<1>1. BleCmd(<<"end_procedure">>) \in Seq(CommandMessages)
  <2>1. BleCmd(<<"end_procedure">>) = <<Sent("end_procedure")>>
    BY MessagesAre
  <2>2. Sent("end_procedure") \in CommandMessages
    BY SentTyped DEF Plainly
  <2> QED  BY <1>0, <2>1, <2>2
<1>2. CASE Current.send = "none"
  <2>1. BleCmd(CommandsOf(Current.send)) = <<>>
    BY <1>2, MessagesAre
  <2> QED  BY <1>1, <2>1
<1>3. CASE Current.send = "discover" /\ call.op = "discover"
  <2>1. Sent("set_scan_parameters") \in CommandMessages /\ Sent("discover") \in CommandMessages
    BY <1>3, SentTyped DEF Sends
  <2>2. BleCmd(CommandsOf(Current.send)) = <<Sent("set_scan_parameters"), Sent("discover")>>
    BY <1>3, MessagesAre
  <2> QED  BY <1>1, <2>1, <2>2
<1>4. CASE Current.send \in Plainly \ {"end_procedure"} /\ call.op = "info"
  <2>1. Sent(Current.send) \in CommandMessages /\ Current.send \notin {"none", "discover"}
    BY <1>4, SentTyped DEF Plainly
  <2>2. BleCmd(CommandsOf(Current.send)) = <<Sent(Current.send)>>
    BY <2>1, MessagesAre
  <2> QED  BY <1>0, <1>1, <2>1, <2>2
<1>5. CASE Current.send \notin {"none", "discover"} /\ Sends(call.op, Current.send)
  <2>1. Sent(Current.send) \in CommandMessages
    BY <1>5, SentTyped
  <2>2. BleCmd(CommandsOf(Current.send)) = <<Sent(Current.send)>>
    BY <1>5, MessagesAre
  <2> QED  BY <1>0, <1>1, <2>1, <2>2
<1> QED  BY <1>2, <1>3, <1>4, <1>5, StepSends

LEMMA SendStepFits ==
  ASSUME PathInv, SendStep
  PROVE  PathInv'
<1>1. /\ stage = "send" /\ request \in Requests /\ call.op \in Ops /\ ~Refused /\ CallFits
      /\ UNCHANGED <<request, call, connectedDevices, toDriver, dongle, asked, performed>>
  BY DEF SendStep, PathInv, StageFits
<1>2. DevicesFit' /\ ProcedureFits'
  BY <1>1 DEF PathInv, DevicesFit, ProcedureFits, dongle
<1>3. CASE stage' = "wait" /\ toClient' = toClient \o BleCmd(CommandsOf(Current.send)) /\ UNCHANGED answer
  <2>1. TrafficFits'
    BY <1>1, <1>3, StepMessages DEF PathInv, TrafficFits
  <2>2. AnswerFits'
    BY <1>1, <1>3 DEF PathInv, AnswerFits
  <2>3. StageFits'
    BY <1>1, <1>3 DEF StageFits, CallFits, Stages, Refused
  <2> QED  BY <1>2, <2>1, <2>2, <2>3 DEF PathInv
<1>4. CASE Return(call.op, Exception, call.handle) /\ UNCHANGED toClient
  <2>1. stage' = "answered" /\ AnswerFits'
    BY <1>1, <1>4, ReturnFits
  <2>2. StageFits'
    BY <1>1, <2>1 DEF StageFits, CallFits, Stages, Refused
  <2>3. TrafficFits'
    BY <1>1, <1>4 DEF PathInv, TrafficFits
  <2> QED  BY <1>2, <2>1, <2>2, <2>3 DEF PathInv
<1> QED  BY <1>3, <1>4 DEF SendStep

LEMMA ScanEndsFits ==
  ASSUME PathInv, ScanEnds
  PROVE  PathInv'
<1>1. /\ stage = "scanning" /\ request \in Requests /\ call.op \in Ops /\ ~Refused /\ CallFits
      /\ toClient' = toClient \o BleCmd(<<"end_procedure">>) /\ Return("discover", Ok, 0)
      /\ UNCHANGED <<request, call, connectedDevices, toDriver, dongle, asked, performed>>
  BY DEF ScanEnds, PathInv, StageFits
<1>2. stage' = "answered" /\ AnswerFits'
  BY <1>1, ReturnFits
<1>3. StageFits'
  BY <1>1, <1>2 DEF StageFits, CallFits, Stages, Refused
<1>4. TrafficFits'
  BY <1>1, StepMessages DEF PathInv, TrafficFits
<1> QED  BY <1>1, <1>2, <1>3, <1>4 DEF PathInv, DevicesFit, ProcedureFits, dongle

-----------------------------------------------------------------------------
(* The end of a wait.                                                      *)

LEMMA WaitEndsFits ==
  ASSUME PathInv, stage = "wait", UNCHANGED request, NEW code, WaitEnds(code)
  PROVE  StageFits' /\ AnswerFits' /\ toClient' \in Seq(CommandMessages)
<1>1. /\ request \in Requests /\ call.op \in Ops /\ ~Refused /\ CallFits /\ toClient \in Seq(CommandMessages)
      /\ answer = NoAnswer /\ AnswerFits
  BY DEF PathInv, StageFits, AnswerFits, TrafficFits
<1>2. ASSUME NEW op, NEW code1, NEW ch, Return(op, code1, ch), UNCHANGED call
      PROVE  StageFits' /\ AnswerFits'
  <2>1. stage' = "answered" /\ AnswerFits'
    BY <1>1, <1>2, ReturnFits
  <2>2. StageFits'
    BY <1>1, <1>2, <2>1 DEF StageFits, CallFits, Stages, Refused
  <2> QED  BY <2>1, <2>2
<1>3. CASE /\ code # Ok
           /\ Return(call.op, code, ResultHandle)
           /\ toClient' = IF EndsAttempt THEN toClient \o BleCmd(<<"end_procedure">>) ELSE toClient
           /\ UNCHANGED call
  BY <1>1, <1>2, <1>3, StepMessages
<1>4. CASE /\ code = Ok /\ ~LastStep
           /\ stage' = "send" /\ call' = [call EXCEPT !.step = @ + 1]
           /\ UNCHANGED <<answer, toClient>>
  <2>1. call.step \in 1 .. Len(Script[call.op]) /\ call.step # Len(Script[call.op]) /\ Len(Script[call.op]) \in Nat
    BY <1>1, <1>4, ScriptLengths DEF CallFits, LastStep
  <2>2. call.step + 1 \in 1 .. Len(Script[call.op])
    BY <2>1
  <2>3. /\ call'.op = call.op /\ call'.handle = call.handle /\ call'.step = call.step + 1
        /\ call' \in [op : {"none"} \cup Ops, handle : {0} \cup Handle, step : Nat]
    <3>1. call \in [op : {"none"} \cup Ops, handle : {0} \cup Handle, step : Nat]
      BY <1>1 DEF CallFits
    <3> QED  BY <1>4, <3>1
  <2>4. CallFits'
    BY <1>1, <2>2, <2>3 DEF CallFits
  <2> QED  BY <1>1, <1>4, <2>3, <2>4 DEF StageFits, AnswerFits, Stages, Refused
<1>5. CASE code = Ok /\ LastStep /\ call.op = "discover" /\ stage' = "scanning" /\ UNCHANGED <<answer, call, toClient>>
  BY <1>1, <1>5 DEF StageFits, CallFits, AnswerFits, Stages, Refused
<1>6. CASE /\ code = Ok /\ LastStep /\ call.op # "discover"
           /\ IF DataLost THEN Return(call.op, Gone, NoHandle) ELSE Return(call.op, Ok, ResultHandle)
           /\ UNCHANGED <<call, toClient>>
  <2>1. CASE Return(call.op, Gone, NoHandle)
    BY <1>1, <1>2, <1>6, <2>1
  <2>2. CASE Return(call.op, Ok, ResultHandle)
    BY <1>1, <1>2, <1>6, <2>2
  <2> QED  BY <1>6, <2>1, <2>2
<1> QED  BY <1>3, <1>4, <1>5, <1>6 DEF WaitEnds

LEMMA WaitRunsOutFits ==
  ASSUME PathInv, WaitRunsOut
  PROVE  PathInv'
<1>1. /\ stage = "wait" /\ WaitEnds(TimedOut)
      /\ UNCHANGED <<connectedDevices, request, toDriver, dongle, asked>>
  BY DEF WaitRunsOut
<1>2. StageFits' /\ AnswerFits' /\ toClient' \in Seq(CommandMessages)
  BY <1>1, WaitEndsFits
<1> QED  BY <1>1, <1>2 DEF PathInv, DevicesFit, ProcedureFits, TrafficFits, dongle

\* The devices that the driver knows are on the connections that it knows.
LEMMA DevicesOfFits ==
  ASSUME NEW m \in Answers, connectedDevices \in [Handle -> Bytes]
  PROVE  DevicesOf(m) \in [Handle -> Bytes]
<1>0. Nobody \in Bytes
  BY DEF Nobody, Bytes
<1>1. ASSUME NEW c \in Simply, NEW result, m = SimpleRsp(c, result) PROVE DevicesOf(m) = connectedDevices
  BY <1>1, SimpleRspRead
<1>2. ASSUME NEW c \in LinkCommands, NEW h, NEW result, m = LinkRsp(c, h, result) PROVE DevicesOf(m) = connectedDevices
  BY <1>2, LinkRspRead
<1>3. ASSUME NEW h, NEW result, m = ConnectRsp(h, result) PROVE DevicesOf(m) = connectedDevices
  BY <1>3, ConnectRspRead
<1>4. ASSUME m \in {MaxConnectionsRsp, InfoRsp} PROVE DevicesOf(m) = connectedDevices
  BY <1>4, InfoRspsRead
<1>5. ASSUME NEW h, NEW address \in Bytes, NEW flags \in {5, 9}, m = StatusMsg(h, address, flags)
      PROVE  DevicesOf(m) \in [Handle -> Bytes]
  <2>1. DevicesOf(m) = [connectedDevices EXCEPT ![h] = address]
    BY <1>5, StatusMsgRead
  <2> QED  BY <2>1
<1>6. ASSUME NEW h, NEW reason, m = GoneMsg(h, reason) PROVE DevicesOf(m) \in [Handle -> Bytes]
  <2>1. DevicesOf(m) = [connectedDevices EXCEPT ![h] = Nobody]
    BY <1>6, GoneMsgRead
  <2> QED  BY <1>0, <2>1
<1>7. ASSUME NEW h, NEW result, m = CompletedMsg(h, result) PROVE DevicesOf(m) = connectedDevices
  BY <1>7, CompletedMsgRead
<1>8. ASSUME NEW h, m = ValueMsg(h) PROVE DevicesOf(m) = connectedDevices
  BY <1>8, ValueMsgRead
<1>9. CASE m \in Responses
  <2>1. DevicesOf(m) = connectedDevices
    BY <1>1, <1>2, <1>3, <1>4, <1>9 DEF Responses
  <2> QED  BY <2>1
<1>10. CASE m \in Events
  <2>1. CASE m \in {StatusMsg(h, address, flags) : h \in Handle, address \in Bytes, flags \in {5, 9}}
    BY <1>5, <2>1
  <2>2. CASE m \in {GoneMsg(h, reason) : h \in Handle, reason \in {520, 534}}
    BY <1>6, <2>2
  <2>3. CASE m \in {CompletedMsg(h, result) : h \in Handle, result \in {0, 1025}}
    BY <1>7, <2>3
  <2>4. CASE m \in {ValueMsg(h) : h \in Handle}
    BY <1>8, <2>4
  <2> QED  BY <1>10, <2>1, <2>2, <2>3, <2>4 DEF Events
<1>11. CASE m \in Findings
  BY <1>11, FindingsRead
<1> QED  BY <1>9, <1>10, <1>11 DEF Answers

LEMMA ReceivesFits ==
  ASSUME PathInv, DriverReceives
  PROVE  PathInv'
<1> DEFINE m == Head(toDriver)
<1>1. m \in Answers /\ toDriver' \in Seq(Answers)
  BY DEF DriverReceives, PathInv, TrafficFits
<1>2. connectedDevices' = DevicesOf(m) /\ UNCHANGED <<request, links, procedure, asked>>
  BY DEF DriverReceives, DevicesOf, Read, dongle
<1>3. \/ stage = "wait" /\ WaitEnds(EventOf(m).code)
      \/ UNCHANGED <<stage, call, answer, toClient>>
  BY DEF DriverReceives, EventOf, Read
<1> HIDE DEF m
<1>4. DevicesFit' /\ ProcedureFits'
  BY <1>1, <1>2, DevicesOfFits DEF PathInv, DevicesFit, ProcedureFits
<1>5. StageFits' /\ AnswerFits' /\ toClient' \in Seq(CommandMessages)
  <2>1. CASE stage = "wait" /\ WaitEnds(EventOf(m).code)
    BY <1>2, <2>1, WaitEndsFits
  <2>2. CASE UNCHANGED <<stage, call, answer, toClient>>
    <3>1. StageFits'
      BY <1>2, <2>2 DEF PathInv, StageFits, CallFits, Refused
    <3>2. Mime' = Mime /\ Processed' = Processed /\ Refused' = Refused
      BY <1>2 DEF Mime, Processed, Refused
    <3> QED  BY <2>2, <3>1, <3>2 DEF PathInv, AnswerFits, TrafficFits
  <2> QED  BY <1>3, <2>1, <2>2
<1> QED  BY <1>1, <1>2, <1>4, <1>5 DEF PathInv, TrafficFits

-----------------------------------------------------------------------------
(* The dongle.                                                             *)

LEMMA GatewayFits ==
  ASSUME PathInv, UNCHANGED gateway
  PROVE  StageFits' /\ AnswerFits' /\ connectedDevices' = connectedDevices
<1>1. UNCHANGED <<stage, request, call, answer, connectedDevices>>
  BY DEF gateway
<1>2. Mime' = Mime /\ Processed' = Processed /\ Refused' = Refused
  BY <1>1 DEF Mime, Processed, Refused
<1> QED  BY <1>1, <1>2 DEF PathInv, StageFits, CallFits, AnswerFits

LEMMA ClientFits ==
  ASSUME PathInv, ClientExecutes
  PROVE  PathInv'
<1>1. PICK m \in CommandMessages :
        \E result \in ResultsOf(m.idx, Args(m)) : ClientCall(m, result, Subject(m.idx, Args(m)))
  BY ClientCalls1 DEF PathInv, TrafficFits
<1>2. PICK result \in ResultsOf(m.idx, Args(m)) : ClientCall(m, result, Subject(m.idx, Args(m)))
  BY <1>1
<1> DEFINE h == Subject(m.idx, Args(m))
<1>3. UNCHANGED <<gateway, links>>
  BY DEF ClientExecutes
<1>4. toClient' \in Seq(CommandMessages) /\ toDriver' \in Seq(Answers) /\ asked' \in Seq(Calls)
  <2>1. Rsp(m.idx, h, result) \in Answers
    BY ResponsesAreAnswers DEF Answers
  <2>2. Call(m) \in Calls
    BY DEF Calls
  <2> HIDE DEF h
  <2>3. toDriver' = Append(toDriver, Rsp(m.idx, h, result)) /\ asked' = Append(asked, Call(m)) /\ toClient' = Tail(toClient)
        /\ toClient # <<>>
    BY <1>2 DEF ClientCall, h
  <2> QED  BY <2>1, <2>2, <2>3 DEF PathInv, TrafficFits
<1>5. ProcedureFits'
  <2>1. procedure' = IF result = 0 THEN ProcedureAfter(m.idx, Args(m), h) ELSE procedure
    BY <1>2 DEF ClientCall
  <2>2. /\ m.idx \in Commanded
        /\ m.idx \in LinkCommands => h \in Handle
        /\ m.idx = "connect_direct" /\ result = 0 => h \in Free
        /\ m.idx = "connect_direct" => Args(m).address \in Bytes
    BY ResultsAre, CallsOnLinks DEF Args
  <2> HIDE DEF h
  <2>3. CASE result = 0 /\ m.idx = "connect_direct"
    <3>1. procedure' = [cmd |-> "connect_direct", ch |-> h, device |-> Args(m).address]
      BY <2>1, <2>3, ProcedureAfterIs
    <3> QED  BY <2>2, <2>3, <3>1 DEF ProcedureFits, Lasting, Free
  <2>4. CASE result = 0 /\ m.idx \in LinkCommands
    <3>1. procedure' = [cmd |-> m.idx, ch |-> h, device |-> links[h]]
      BY <2>1, <2>4, ProcedureAfterIs
    <3> QED  BY <2>2, <2>4, <3>1 DEF ProcedureFits, Lasting, PathInv, DevicesFit
  <2>5. CASE result = 0 /\ m.idx = "discover"
    <3>1. procedure'.cmd = "discover"
      BY <2>1, <2>5, ProcedureAfterIs
    <3> QED  BY <3>1 DEF ProcedureFits
  <2>6. CASE result = 0 /\ m.idx = "end_procedure"
    <3>1. procedure' = Idle
      BY <2>1, <2>6, ProcedureAfterIs
    <3> QED  BY <3>1 DEF ProcedureFits
  <2>7. CASE result # 0 \/ m.idx \in {"get_info", "get_connections", "set_scan_parameters"}
    <3>1. procedure' = procedure
      BY <2>1, <2>7, ProcedureAfterIs
    <3> QED  BY <3>1 DEF PathInv, ProcedureFits
  <2> QED  BY <2>2, <2>3, <2>4, <2>5, <2>6, <2>7 DEF Commanded, Simply
<1> QED  BY <1>3, <1>4, <1>5, GatewayFits DEF PathInv, DevicesFit, TrafficFits

LEMMA LastingRuns ==
  ASSUME PathInv, procedure.cmd \in Lasting
  PROVE  procedure.ch \in Handle /\ procedure.device \in Bytes
<1>1. procedure # Idle /\ procedure.cmd # "discover"
  BY DEF Idle, Lasting, LinkCommands
<1> QED  BY <1>1 DEF PathInv, ProcedureFits

LEMMA SucceedsFits ==
  ASSUME PathInv, ProcedureSucceeds
  PROVE  PathInv'
<1> DEFINE c == procedure.cmd
           h == procedure.ch
           device == procedure.device
<1>1. /\ c \in Lasting /\ toDriver' = Append(toDriver, Success(c, h, device)) /\ procedure' = Idle
      /\ links' = IF c = "connect_direct" THEN [links EXCEPT ![h] = device]
                  ELSE IF c = "disconnect" THEN [links EXCEPT ![h] = Nobody] ELSE links
  BY Succeeds
<1>2. UNCHANGED <<gateway, toClient, asked>>
  BY DEF ProcedureSucceeds
<1>3. h \in Handle /\ device \in Bytes /\ Nobody \in Bytes
  BY <1>1, LastingRuns DEF Nobody, Bytes
<1> HIDE DEF c, h, device
<1>4. links' \in [Handle -> Bytes]
  BY <1>1, <1>3 DEF PathInv, DevicesFit
<1>5. Success(c, h, device) \in Answers
  <2>1. CASE c = "connect_direct"
    BY <1>3, <2>1, SuccessIs DEF Answers, Events
  <2>2. CASE c = "update"
    BY <1>3, <2>2, SuccessIs DEF Answers, Events
  <2>3. CASE c = "disconnect"
    BY <1>3, <2>3, SuccessIs, SMT DEF Answers, Events
  <2>4. CASE c = "read_by_handle"
    BY <1>3, <2>4, SuccessIs DEF Answers, Events
  <2>5. CASE c \in Completing
    <3>1. CompletedMsg(h, 0) \in {CompletedMsg(g, result) : g \in Handle, result \in {0, 1025}}
      BY <1>3, SMT
    <3>2. Success(c, h, device) = CompletedMsg(h, 0)
      BY <2>5, SuccessIs
    <3>3. CompletedMsg(h, 0) \in Answers
      BY <3>1 DEF Answers, Events
    <3> QED  BY <3>2, <3>3
  <2> QED  BY <1>1, <2>1, <2>2, <2>3, <2>4, <2>5 DEF Lasting, LinkCommands, Completing
<1>6. TrafficFits'
  BY <1>1, <1>2, <1>5 DEF PathInv, TrafficFits
<1> QED  BY <1>1, <1>2, <1>4, <1>6, GatewayFits DEF PathInv, DevicesFit, ProcedureFits

LEMMA FailsFits ==
  ASSUME PathInv, ProcedureFails
  PROVE  PathInv'
<1>1. procedure.cmd \in Lasting /\ toDriver' = Append(toDriver, CompletedMsg(procedure.ch, 1025))
  BY Fails DEF Lasting
<1>2. procedure' = Idle /\ UNCHANGED <<gateway, toClient, links, asked>>
  BY DEF ProcedureFails
<1>3. procedure.ch \in Handle
  BY <1>1, LastingRuns
<1>4. CompletedMsg(procedure.ch, 1025) \in {CompletedMsg(g, result) : g \in Handle, result \in {0, 1025}}
  BY <1>3, SMT
<1>5. TrafficFits'
  <2>1. CompletedMsg(procedure.ch, 1025) \in Answers
    BY <1>4 DEF Answers, Events
  <2> QED  BY <1>1, <1>2, <2>1 DEF PathInv, TrafficFits
<1> QED  BY <1>2, <1>5, GatewayFits DEF PathInv, DevicesFit, ProcedureFits

LEMMA FindsFits ==
  ASSUME PathInv, ProcedureFinds
  PROVE  PathInv'
<1>1. UNCHANGED <<gateway, toClient, dongle, asked>>
  BY DEF ProcedureFinds
<1>2. \E m \in Findings : toDriver' = Append(toDriver, m)
  <2>1. CASE procedure.cmd \in {"read_by_group_type", "find_information"}
    <3>1. procedure.ch \in Handle
      BY <2>1, LastingRuns DEF Lasting, LinkCommands
    <3> QED  BY <2>1, <3>1, FindsIs DEF Findings
  <2>2. CASE procedure.cmd = "discover"
    BY <2>2, FindsIs DEF Findings
  <2> QED  BY <2>1, <2>2, FindsIs
<1>3. TrafficFits'
  BY <1>1, <1>2 DEF PathInv, TrafficFits, Answers
<1> QED  BY <1>1, <1>3, GatewayFits DEF PathInv, DevicesFit, ProcedureFits, dongle

LEMMA LostFits ==
  ASSUME PathInv, LinkLost
  PROVE  PathInv'
<1>1. PICK h \in Handle \ Free :
            /\ links' = [links EXCEPT ![h] = Nobody]
            /\ procedure' = IF procedure.cmd \in LinkCommands /\ procedure.ch = h THEN Idle ELSE procedure
            /\ toDriver' = Append(toDriver, GoneMsg(h, 520))
  BY Loses
<1>2. UNCHANGED <<gateway, toClient, asked>>
  BY DEF LinkLost
<1>3. DevicesFit' /\ ProcedureFits'
  BY <1>1, <1>2 DEF PathInv, DevicesFit, ProcedureFits, Nobody, Bytes, gateway
<1>4. GoneMsg(h, 520) \in {GoneMsg(g, reason) : g \in Handle, reason \in {520, 534}}
  BY SMT
<1>5. TrafficFits'
  BY <1>1, <1>2, <1>4 DEF PathInv, TrafficFits, Answers, Events
<1> QED  BY <1>2, <1>3, <1>5, GatewayFits DEF PathInv

-----------------------------------------------------------------------------
LEMMA PathNext == PathInv /\ [Next]_vars => PathInv'
<1> SUFFICES ASSUME PathInv, [Next]_vars PROVE PathInv'
  OBVIOUS
<1>1. CASE UNCHANGED vars
  <2>1. UNCHANGED <<gateway, toClient, toDriver, dongle, asked>>
    BY <1>1 DEF vars
  <2> QED  BY <2>1, GatewayFits DEF PathInv, DevicesFit, ProcedureFits, TrafficFits, dongle
<1> QED  BY <1>1, ArriveFits, FCGIWorkerFits, FinishFits, WorkerFits, SendStepFits, WaitRunsOutFits, ScanEndsFits,
            ReceivesFits, ClientFits, SucceedsFits, FailsFits, FindsFits, LostFits DEF Next

\* The inductive invariant of the whole path: in every state each message under way and each
\* call of BGLIB has the fields, the types and the widths that its end packs, its parameters are
\* legal, and the locals of the FCGI thread, of ExecuteWorkRequest and of the command in the
\* driver fit the stage that the request has reached.
THEOREM PathInvariant == Spec => []PathInv
BY PathInit, PathNext, PTL DEF Spec

\* What is asked of the dongle fits its field of cmd_def.h and no answer has a status that
\* PostHTTPMessage does not know, whatever number stands in the request: the conversions to
\* uint8 and uint16 and the message formats leave nothing that is too wide.
THEOREM PathTypeOK == Spec => []TypeOK
<1>1. PathInv => TypeOK
  <2> SUFFICES ASSUME PathInv PROVE TypeOK
    OBVIOUS
  <2>1. \A i \in DOMAIN toClient : WellFormed(toClient[i])
    BY CommandsWellFormed DEF PathInv, TrafficFits
  <2>2. \A i \in DOMAIN toDriver : WellFormed(toDriver[i])
    BY AnswersWellFormed DEF PathInv, TrafficFits
  <2>3. DOMAIN connectedDevices = Handle /\ DOMAIN links = Handle
    BY DEF PathInv, DevicesFit
  <2>4. /\ answer.status \in {0, 200, 201, 400, 404, 405, 406, 502} /\ answer.told \in BOOLEAN
        /\ answer.mime \in {"none"} \cup DOMAIN Specific
    BY MediaAre DEF PathInv, AnswerFits, Statuses
  <2> QED  BY <2>1, <2>2, <2>3, <2>4 DEF TypeOK, PathInv, StageFits, Stages
<1> QED  BY <1>1, PathInvariant, PTL

\* No call of BGLIB has parameters outside the limits of BGAPI: what CheckConnectionParameters
\* and CheckDiscoverParameters leave of any request is what the client gets out of the message.
THEOREM PathParametersLegal == Spec => []ParametersLegal
<1>1. PathInv => ParametersLegal
  <2> SUFFICES ASSUME PathInv, NEW i \in DOMAIN asked PROVE LegalCall(asked[i])
    BY DEF ParametersLegal, LegalCall
  <2>1. asked[i] \in Calls
    BY DEF PathInv, TrafficFits
  <2> QED  BY <2>1, CallsLegal
<1> QED  BY <1>1, PathInvariant, PTL

\* For each message to the driver, ProcessTCPMsgFromSocket gets from the header, byte by byte
\* and with chars that have a sign, the size that send_message_to_tcpsocket has written.
THEOREM PathHeaderTellsSize == Spec => []HeaderTellsSize
<1>1. PathInv => HeaderTellsSize
  <2> SUFFICES ASSUME PathInv, NEW i \in DOMAIN toDriver
               PROVE  LET size == MessageSize(toDriver[i]) IN SizeRead(HeaderOf(size)) = size
    BY DEF HeaderTellsSize
  <2>1. toDriver[i] \in Answers
    BY DEF PathInv, TrafficFits
  <2> QED  BY <2>1, AnswersSized, SizeReadRight
<1> QED  BY <1>1, PathInvariant, PTL

\* The content type of an answer is of the most specific supported entries of the Accept header
\* one with the highest q, for headers of any length: ParseAcceptHeader's loop keeps the best of
\* what it has seen.
THEOREM PathBestAccepted == Spec => []BestAccepted
<1>1. PathInv => BestAccepted
  <2> SUFFICES ASSUME PathInv, stage = "answered", Processed, Plain
               PROVE  /\ (request.accept # <<>> /\ Supported = {}) <=> (answer.status = 406)
                      /\ Supported # {} => \E e \in Best : answer.mime = Preference(e).type
                      /\ (\E e \in Best : Preference(e).type \in Html) => answer.mime \in Html
    BY DEF BestAccepted
  <2>1. request \in Requests /\ answer.mime = Mime /\ (answer.status = 406 <=> Refused)
    BY DEF PathInv, StageFits, AnswerFits
  <2> QED  BY <2>1, MimeIsBest DEF Refused
<1> QED  BY <1>1, PathInvariant, PTL

-----------------------------------------------------------------------------
(* The commands of one request.                                            *)

\* Everything that a command carries comes from the request and the connection.
SentAre ==
  /\ \A c \in Plainly : Sent(c) = PlainMsg(c)
  /\ Sent("set_scan_parameters") = ScanMsg(CheckedScan, ActiveScan)
  /\ Sent("discover") = DiscoverMsg(DiscoverMode)
  /\ Sent("connect_direct") = ConnectMsg(Device, AddressType, Checked)
  /\ Sent("update") = UpdateMsg(call.handle, Checked)
  /\ Sent("disconnect") = DisconnectMsg(call.handle)
  /\ Sent("read_by_group_type") = GroupMsg(call.handle, <<0, 40>>)
  /\ Sent("find_information") = IF call.op = "read" THEN FindMsg(call.handle, AttributeHandle, AttributeHandle)
                                                     ELSE FindMsg(call.handle, 1, 65535)
  /\ Sent("read_by_handle") = ReadMsg(call.handle, AttributeHandle)
  /\ Sent("attribute_write") = WriteMsg(call.handle, AttributeHandle, WriteBytes)
LEMMA SentAreNow == request \in Requests => SentAre
BY SentIs DEF SentAre
LEMMA SentAreNext == (request \in Requests => SentAre)'
BY SentAreNow, PTL

LEMMA SentStays ==
  ASSUME request \in Requests, request' = request, call'.op = call.op, call'.handle = call.handle, NEW c \in Commanded
  PROVE  Sent(c)' = Sent(c)
<1>1. SentAre /\ SentAre'
  BY SentAreNow, SentAreNext
<1>2. /\ Device' = Device /\ AddressType' = AddressType /\ AttributeHandle' = AttributeHandle
      /\ WriteBytes' = WriteBytes /\ DiscoverMode' = DiscoverMode /\ ActiveScan' = ActiveScan
      /\ ConnectionGiven' = ConnectionGiven /\ ScanGiven' = ScanGiven
  BY DEF Device, AddressType, AttributeHandle, WriteBytes, DiscoverMode, ActiveScan, ConnectionGiven, ScanGiven
<1>3. Checked' = Checked /\ CheckedScan' = CheckedScan
  BY <1>2 DEF Checked, CheckedScan
<1>4. CASE c \in Plainly
  <2>1. Sent(c) = PlainMsg(c) /\ Sent(c)' = PlainMsg(c)
    BY <1>1, <1>4 DEF SentAre
  <2> QED  BY <2>1
<1>5. CASE c \in {"set_scan_parameters", "discover", "connect_direct"}
  BY <1>1, <1>2, <1>3, <1>5 DEF SentAre
<1>6. CASE c \in LinkCommands
  BY <1>1, <1>2, <1>3, <1>6 DEF SentAre, LinkCommands
<1> QED  BY <1>4, <1>5, <1>6 DEF Commanded, Simply, Plainly

EndMsg == PlainMsg("end_procedure")
SentBy(op, c) == Sends(op, c) \/ (op = "info" /\ c \in {"get_info", "get_connections"})
OurMsg(m) == m = EndMsg \/ (call.op \in Ops /\ SentBy(call.op, m.idx) /\ m = Sent(m.idx))
OurCall(c) == c = Call(EndMsg) \/ (call.op \in Ops /\ SentBy(call.op, c.cmd) /\ c = Call(Sent(c.cmd)))

LEMMA SentByCommanded ==
  ASSUME NEW op, NEW c, SentBy(op, c)
  PROVE  c \in Commanded /\ c # "end_procedure"
BY DEF SentBy, Sends, Commanded, Simply, LinkCommands
LEMMA SentIdx == (\A c : Sent(c).idx = c) /\ EndMsg.idx = "end_procedure"
BY DEF Sent, Packed, EndMsg, PlainMsg, Message

LEMMA OursStay ==
  ASSUME request \in Requests, request' = request, call'.op = call.op, call'.handle = call.handle, NEW m, OurMsg(m)
  PROVE  OurMsg(m)'
<1>1. CASE m = EndMsg
  BY <1>1 DEF OurMsg
<1>2. CASE call.op \in Ops /\ SentBy(call.op, m.idx) /\ m = Sent(m.idx)
  <2>1. Sent(m.idx)' = Sent(m.idx)
    BY <1>2, SentByCommanded, SentStays
  <2> QED  BY <1>2, <2>1 DEF OurMsg
<1> QED  BY <1>1, <1>2 DEF OurMsg

-----------------------------------------------------------------------------
(* No command is left over: with the time that the commands have, a wait   *)
(* for a response ends with it.                                            *)

ResponseEvents == {"GAP_DISCOVER_RSP_EVT", "GAP_CONNECTION_RSP_EVT", "SYS_GET_INFO_RSP_EVT", "SYS_GET_MAXCON_RSP_EVT"}
                  \cup {SimpleConnectionEvent[c] : c \in LinkCommands}
\* BGAPI's responses do not say which command they answer: one that comes after its wait was
\* given up passes for the response to a later request.
ResponsesInTime == MayTimeOut \cap ResponseEvents = {}

Awaited == Commanded \ Unawaited
Awaiting == stage = "wait" /\ Current.send # "none"
Pending == {i \in DOMAIN toDriver : toDriver[i].idx \in Awaited}   \* responses under way
\* The response that is waited for, whose result is one of ...
Matches(m, c) == m.idx = c /\ (c \in LinkCommands => \E result \in Results : m = LinkRsp(c, call.handle, result))
\* Everything under way and everything asked is what the request asks for, or ends a procedure.
AllOurs == (\A i \in DOMAIN toClient : OurMsg(toClient[i])) /\ (\A i \in DOMAIN asked : OurCall(asked[i]))
Quiet == (\A i \in DOMAIN toClient : toClient[i] = EndMsg) /\ Pending = {}
OneWait ==
  /\ \A i \in DOMAIN toClient : /\ toClient[i].idx \in {Current.send} \cup Unawaited
                                /\ toClient[i].idx \notin Unawaited => i = Len(toClient)
  /\ Pending # {} => toClient = <<>>
  /\ \A i \in Pending : Matches(toDriver[i], Current.send)
  /\ \A i, j \in Pending : i = j
OursInv == AllOurs /\ (~Awaiting => Quiet) /\ (Awaiting => OneWait)
\* A success tells of the parameters that have been changed.
ToldInv == stage = "answered" /\ call.op \in Ops /\ answer.status \in {200, 201} => answer.told = Told(call.op)

LEMMA AwaitedAre ==
  /\ Awaited = {"discover", "connect_direct", "get_connections", "get_info"} \cup LinkCommands
  /\ "end_procedure" \notin Awaited /\ "set_scan_parameters" \notin Awaited
  /\ \A m \in Events \cup Findings : m.idx \notin Awaited
<1>1. Awaited = {"discover", "connect_direct", "get_connections", "get_info"} \cup LinkCommands
  BY DEF Awaited, Commanded, Simply, Unawaited, LinkCommands
<1>2. "end_procedure" \notin Awaited /\ "set_scan_parameters" \notin Awaited
  BY DEF Awaited, Unawaited
<1>3. ASSUME NEW m \in Events PROVE m.idx \in {"status", "disconnected", "procedure_completed", "attribute_value"}
  BY <1>3 DEF Events, StatusMsg, GoneMsg, CompletedMsg, ValueMsg, Message
<1>4. ASSUME NEW m \in Findings PROVE m.idx \in {"group_found", "information_found", "scan_response"}
  BY <1>4, FindingsRead
<1> QED  BY <1>1, <1>2, <1>3, <1>4 DEF LinkCommands

\* What is waited for in each step.
LEMMA StepAwaits ==
  ASSUME CallFits, call.op \in Ops
  PROVE  /\ Current.send # "none" => Current.send \in Awaited
         /\ Current.send # "none" /\ Current.send \in LinkCommands =>
              Current.on = {SimpleConnectionEvent[Current.send]} /\ OnConnection(call.op) /\ SentBy(call.op, Current.send)
         /\ Current.send = "discover" => Current.on = {"GAP_DISCOVER_RSP_EVT"} /\ call.op = "discover"
         /\ Current.send = "connect_direct" => Current.on = {"GAP_CONNECTION_RSP_EVT"} /\ call.op = "connect"
         /\ Current.send = "get_info" => Current.on = {"SYS_GET_INFO_RSP_EVT"} /\ call.op = "info"
         /\ Current.send = "get_connections" => Current.on = {"SYS_GET_MAXCON_RSP_EVT"} /\ call.op = "info"
         /\ Current.send # "none" => Current.on \cap ResponseEvents # {}
<1> DEFINE s == Current
<1>0. call.step \in 1 .. Len(Script[call.op])
  BY DEF CallFits
<1>1. LET op == call.op  step == call.step IN
         \/ op = "connect" /\ step = 1 /\ s.send = "connect_direct" /\ s.on = {"GAP_CONNECTION_RSP_EVT"}
         \/ op = "connect" /\ step = 2 /\ s.send = "none" /\ s.on = {"GAP_CONNECTION_EVT"}
         \/ op = "update" /\ step = 1 /\ s.send = "update" /\ s.on = {"CONNECTION_UPDATE_RSP_EVT"}
         \/ op = "update" /\ step = 2 /\ s.send = "none" /\ s.on = {"CONNECTION_UPDATE_EVT", "CONNECTION_DISCONNECT_EVT"}
         \/ op = "disconnect" /\ step = 1 /\ s.send = "disconnect" /\ s.on = {"CONNECTION_DISCONNECT_RSP_EVT"}
         \/ op = "disconnect" /\ step = 2 /\ s.send = "none" /\ s.on = {"CONNECTION_DISCONNECT_EVT"}
         \/ op = "read" /\ step = 1 /\ s.send = "find_information" /\ s.on = {"ATTCLIENT_FINDINFO_RSP_EVT"}
         \/ op = "read" /\ step = 2 /\ s.send = "none" /\ s.on = ProcedureOver
         \/ op = "read" /\ step = 3 /\ s.send = "read_by_handle" /\ s.on = {"ATTCLIENT_READ_RSP_EVT"}
         \/ op = "read" /\ step = 4 /\ s.send = "none" /\ s.on = {"ATTCLIENT_ATTRIBUTE_FOUND_EVT"} \cup ProcedureOver
         \/ op = "write" /\ step = 1 /\ s.send = "attribute_write" /\ s.on = {"ATTCLIENT_WRITE_RSP_EVT"}
         \/ op = "write" /\ step = 2 /\ s.send = "none" /\ s.on = ProcedureOver
         \/ op = "readall" /\ step = 1 /\ s.send = "read_by_group_type" /\ s.on = {"ATTCLIENT_READGROUP_RSP_EVT"}
         \/ op = "readall" /\ step = 2 /\ s.send = "none" /\ s.on = ProcedureOver
         \/ op = "readall" /\ step = 3 /\ s.send = "find_information" /\ s.on = {"ATTCLIENT_FINDINFO_RSP_EVT"}
         \/ op = "readall" /\ step = 4 /\ s.send = "none" /\ s.on = ProcedureOver
         \/ op = "discover" /\ step = 1 /\ s.send = "discover" /\ s.on = {"GAP_DISCOVER_RSP_EVT"}
         \/ op = "info" /\ step = 1 /\ s.send = "get_info" /\ s.on = {"SYS_GET_INFO_RSP_EVT"}
         \/ op = "info" /\ step = 2 /\ s.send = "get_connections" /\ s.on = {"SYS_GET_MAXCON_RSP_EVT"}
  BY <1>0, ScriptEntries DEF Current
<1> HIDE DEF s
<1>2. \A c \in LinkCommands : SimpleConnectionEvent[c] =
         CASE c = "update" -> "CONNECTION_UPDATE_RSP_EVT" [] c = "disconnect" -> "CONNECTION_DISCONNECT_RSP_EVT"
           [] c = "read_by_group_type" -> "ATTCLIENT_READGROUP_RSP_EVT"
           [] c = "find_information" -> "ATTCLIENT_FINDINFO_RSP_EVT"
           [] c = "read_by_handle" -> "ATTCLIENT_READ_RSP_EVT" [] c = "attribute_write" -> "ATTCLIENT_WRITE_RSP_EVT"
  BY SMT DEF SimpleConnectionEvent, LinkCommands
<1>3. s.send # "none" => s.send \in {"discover", "connect_direct", "get_connections", "get_info"} \cup LinkCommands
  BY <1>1 DEF LinkCommands
<1>4. s.send \in LinkCommands => OnConnection(call.op) /\ SentBy(call.op, s.send)
  BY <1>1, SMT DEF LinkCommands, OnConnection, SentBy, Sends
<1>5. s.send \in LinkCommands => s.on = {SimpleConnectionEvent[s.send]}
  BY <1>1, <1>2, SMT DEF LinkCommands
<1>7. /\ s.send = "discover" => s.on = {"GAP_DISCOVER_RSP_EVT"} /\ call.op = "discover"
      /\ s.send = "connect_direct" => s.on = {"GAP_CONNECTION_RSP_EVT"} /\ call.op = "connect"
      /\ s.send = "get_info" => s.on = {"SYS_GET_INFO_RSP_EVT"} /\ call.op = "info"
      /\ s.send = "get_connections" => s.on = {"SYS_GET_MAXCON_RSP_EVT"} /\ call.op = "info"
  BY <1>1
<1>8. s.send # "none" => s.on \cap ResponseEvents # {}
  BY <1>3, <1>5, <1>7 DEF ResponseEvents
<1> QED  BY <1>3, <1>4, <1>5, <1>7, <1>8, AwaitedAre, SMTT(60) DEF s

-----------------------------------------------------------------------------
(* What becomes of the messages under way in a step.                       *)

\* The event of the response that is waited for is what the wait is for, that of another message
\* is not.
LEMMA AwaitedEvent ==
  ASSUME CallFits, call.op \in Ops, Current.send # "none", NEW m \in Answers, m.idx \in Awaited,
         Matches(m, Current.send)
  PROVE  EventOf(m).evt \in Current.on /\ EventOf(m).ch = WaitChannel
<1> DEFINE c == Current.send
<1>1. m.idx = c /\ c \in {"discover", "connect_direct", "get_connections", "get_info"} \cup LinkCommands
  BY AwaitedAre DEF Matches
<1>2. \A e, h, r : Event(e, h, r).evt = e /\ Event(e, h, r).ch = h
  BY DEF Event
<1>3. CASE c \in LinkCommands
  <2>1. PICK result : m = LinkRsp(c, call.handle, result)
    BY <1>3 DEF Matches
  <2>2. EventOf(m) = Event(SimpleConnectionEvent[c], call.handle, result)
    BY <1>3, <2>1, LinkRspRead
  <2> QED  BY <1>2, <1>3, <2>2, StepAwaits DEF WaitChannel
<1>4. CASE c = "discover"
  <2>1. \E result : m = SimpleRsp("discover", result)
    <3>1. m \in Responses
      BY <1>1, AwaitedAre DEF Answers
    <3>2. /\ \A d, r : SimpleRsp(d, r).idx = d
          /\ \A d, g, r : LinkRsp(d, g, r).idx = d
          /\ \A g, r : ConnectRsp(g, r).idx = "connect_direct"
          /\ MaxConnectionsRsp.idx = "get_connections" /\ InfoRsp.idx = "get_info"
      BY DEF SimpleRsp, LinkRsp, ConnectRsp, MaxConnectionsRsp, InfoRsp, Message
    <3>3. "discover" \notin LinkCommands
      BY DEF LinkCommands
    <3> QED  BY <1>1, <1>4, <3>1, <3>2, <3>3 DEF Responses
  <2>2. EventOf(m).evt = SimpleEvent["discover"] /\ EventOf(m).ch = 0
    BY <1>2, <2>1, SimpleRspRead DEF Simply
  <2>3. SimpleEvent["discover"] = "GAP_DISCOVER_RSP_EVT"
    BY SMT DEF SimpleEvent
  <2>4. ~OnConnection("discover")
    BY DEF OnConnection
  <2> QED  BY <1>4, <2>2, <2>3, <2>4, StepAwaits DEF WaitChannel
<1>5. CASE c \in {"connect_direct", "get_connections", "get_info"}
  <2>1. \/ c = "connect_direct" /\ \E g, r : m = ConnectRsp(g, r)
        \/ c = "get_connections" /\ m = MaxConnectionsRsp
        \/ c = "get_info" /\ m = InfoRsp
    <3>1. m \in Responses
      BY <1>1, AwaitedAre DEF Answers
    <3>2. /\ \A d, r : SimpleRsp(d, r).idx = d
          /\ \A d, g, r : LinkRsp(d, g, r).idx = d
          /\ \A g, r : ConnectRsp(g, r).idx = "connect_direct"
          /\ MaxConnectionsRsp.idx = "get_connections" /\ InfoRsp.idx = "get_info"
      BY DEF SimpleRsp, LinkRsp, ConnectRsp, MaxConnectionsRsp, InfoRsp, Message
    <3>3. c \notin LinkCommands /\ c \notin Simply
      BY <1>5 DEF LinkCommands, Simply
    <3> QED  BY <1>1, <1>5, <3>1, <3>2, <3>3 DEF Responses
  <2>2. EventOf(m).ch = 0 /\ EventOf(m).evt = CASE c = "connect_direct" -> "GAP_CONNECTION_RSP_EVT"
          [] c = "get_connections" -> "SYS_GET_MAXCON_RSP_EVT" [] c = "get_info" -> "SYS_GET_INFO_RSP_EVT"
    <3>1. CASE c = "connect_direct"
      BY <1>2, <2>1, <3>1, ConnectRspRead
    <3>2. CASE c = "get_connections"
      BY <1>2, <2>1, <3>2, InfoRspsRead
    <3>3. CASE c = "get_info"
      BY <1>2, <2>1, <3>3, InfoRspsRead
    <3> QED  BY <1>5, <3>1, <3>2, <3>3
  <2>3. ~OnConnection("connect") /\ ~OnConnection("info")
    BY DEF OnConnection
  <2> HIDE DEF c
  <2> QED  BY <1>5, <2>2, <2>3, StepAwaits DEF WaitChannel, c
<1> QED  BY <1>1, <1>3, <1>4, <1>5

OtherEvents == {"GAP_SET_SCANPARAMETER_RSP_EVT", "GAP_ENDPROCEDURE_RSP_EVT", "GAP_CONNECTION_EVT",
                "CONNECTION_UPDATE_EVT", "CONNECTION_DISCONNECT_EVT", "GATT_PROCEDURE_COMPLETE_EVT",
                "ATTCLIENT_ATTRIBUTE_FOUND_EVT", "none"}
LEMMA OtherEvent ==
  ASSUME NEW m \in Answers, m.idx \notin Awaited
  PROVE  EventOf(m).evt \in OtherEvents
<1>2. \A e, h, r : Event(e, h, r).evt = e /\ Event(e, h, r).ch = h
  BY DEF Event
<1>3. CASE m \in Responses
  <2>1. /\ \A d, r : SimpleRsp(d, r).idx = d
        /\ \A d, g, r : LinkRsp(d, g, r).idx = d
        /\ \A g, r : ConnectRsp(g, r).idx = "connect_direct"
        /\ MaxConnectionsRsp.idx = "get_connections" /\ InfoRsp.idx = "get_info"
    BY DEF SimpleRsp, LinkRsp, ConnectRsp, MaxConnectionsRsp, InfoRsp, Message
  <2>2. PICK c \in {"set_scan_parameters", "end_procedure"} : \E r : m = SimpleRsp(c, r)
    BY <1>3, <2>1, AwaitedAre DEF Responses, Simply
  <2>3. EventOf(m).evt = SimpleEvent[c]
    BY <1>2, <2>2, SimpleRspRead DEF Simply
  <2>4. SimpleEvent["set_scan_parameters"] = "GAP_SET_SCANPARAMETER_RSP_EVT"
        /\ SimpleEvent["end_procedure"] = "GAP_ENDPROCEDURE_RSP_EVT"
    BY SMT DEF SimpleEvent
  <2> QED  BY <2>2, <2>3, <2>4 DEF OtherEvents
<1>4. CASE m \in Events
  <2>1. CASE \E h \in Handle, address \in Bytes, flags \in {5, 9} : m = StatusMsg(h, address, flags)
    BY <1>2, <2>1, StatusMsgRead DEF OtherEvents
  <2>2. CASE \E h \in Handle, reason \in {520, 534} : m = GoneMsg(h, reason)
    BY <1>2, <2>2, GoneMsgRead DEF OtherEvents
  <2>3. CASE \E h \in Handle, result \in {0, 1025} : m = CompletedMsg(h, result)
    BY <1>2, <2>3, CompletedMsgRead DEF OtherEvents
  <2>4. CASE \E h \in Handle : m = ValueMsg(h)
    BY <1>2, <2>4, ValueMsgRead DEF OtherEvents
  <2> QED  BY <1>4, <2>1, <2>2, <2>3, <2>4 DEF Events
<1>5. CASE m \in Findings
  BY <1>2, <1>5, FindingsRead DEF OtherEvents, NoEvent
<1> QED  BY <1>3, <1>4, <1>5 DEF Answers

LEMMA AwaitedNotOther ==
  ASSUME CallFits, call.op \in Ops, Current.send # "none"
  PROVE  Current.on \cap OtherEvents = {}
<1> DEFINE c == Current.send
<1>1. c \in {"discover", "connect_direct", "get_connections", "get_info"} \cup LinkCommands
  BY StepAwaits, AwaitedAre
<1>2. CASE c \in LinkCommands
  <2>1. \A d \in LinkCommands : SimpleConnectionEvent[d] \notin OtherEvents
    BY SMT DEF SimpleConnectionEvent, LinkCommands, OtherEvents
  <2> QED  BY <1>2, <2>1, StepAwaits
<1>3. CASE c \in {"discover", "connect_direct", "get_connections", "get_info"}
  BY <1>3, StepAwaits DEF OtherEvents
<1> QED  BY <1>1, <1>2, <1>3

\* Responses under way when a message is added, and when one is read.
LEMMA PendingAppended ==
  ASSUME toDriver \in Seq(Answers), NEW m, toDriver' = Append(toDriver, m)
  PROVE  /\ \A i \in Pending' : \/ i \in Pending /\ toDriver'[i] = toDriver[i]
                                \/ i = Len(toDriver) + 1 /\ toDriver'[i] = m
         /\ m.idx \notin Awaited => Pending' = Pending
<1>1. /\ DOMAIN toDriver = 1 .. Len(toDriver) /\ DOMAIN toDriver' = 1 .. Len(toDriver) + 1 /\ Len(toDriver) \in Nat
      /\ \A i \in 1 .. Len(toDriver) : toDriver'[i] = toDriver[i]
      /\ toDriver'[Len(toDriver) + 1] = m
  OBVIOUS
<1> QED  BY <1>1 DEF Pending
LEMMA PendingRead ==
  ASSUME toDriver \in Seq(Answers), toDriver # <<>>, toDriver' = Tail(toDriver)
  PROVE  /\ \A i \in Pending' : i + 1 \in Pending /\ toDriver'[i] = toDriver[i + 1] /\ i \in Nat /\ i >= 1
         /\ 1 \in Pending <=> Head(toDriver).idx \in Awaited
<1>1. /\ DOMAIN toDriver = 1 .. Len(toDriver) /\ DOMAIN toDriver' = 1 .. Len(toDriver) - 1 /\ Len(toDriver) \in Nat
      /\ Len(toDriver) >= 1
      /\ \A i \in 1 .. Len(toDriver) - 1 : toDriver'[i] = toDriver[i + 1]
      /\ Head(toDriver) = toDriver[1]
  OBVIOUS
<1> QED  BY <1>1 DEF Pending

\* What the client makes of each command.
LEMMA SentCalled ==
  ASSUME request \in Requests
  PROVE  /\ \A c \in LinkCommands : Args(Sent(c)).connection = call.handle
         /\ LET a == Args(Sent("set_scan_parameters")) IN
              /\ a.scan_interval = CheckedScan.interval /\ a.scan_window = CheckedScan.window
              /\ a.active = ActiveScan
         /\ Args(Sent("discover")).mode = DiscoverMode
         /\ LET a == Args(Sent("connect_direct")) IN
              /\ a.address = Device /\ a.conn_interval_min = Checked.min /\ a.conn_interval_max = Checked.max
              /\ a.timeout = Checked.timeout /\ a.latency = Checked.latency /\ a.addr_type = AddressType
         /\ LET a == Args(Sent("update")) IN
              /\ a.interval_min = Checked.min /\ a.interval_max = Checked.max
              /\ a.timeout = Checked.timeout /\ a.latency = Checked.latency
         /\ Args(Sent("read_by_handle")).chrhandle = AttributeHandle
         /\ Args(Sent("attribute_write")).atthandle = AttributeHandle
         /\ Args(Sent("attribute_write")).data = WriteBytes
<1>0. SentAre /\ \A c : Sent(c).idx = c
  BY SentAreNow, SentIdx
<1>1. LET a == Args(Sent("set_scan_parameters")) IN
        a.scan_interval = CheckedScan.interval /\ a.scan_window = CheckedScan.window /\ a.active = ActiveScan
  BY <1>0, ScanParametersCalled DEF SentAre, Args, ScanMsg
<1>2. LET a == Args(Sent("connect_direct")) IN
        /\ a.address = Device /\ a.conn_interval_min = Checked.min /\ a.conn_interval_max = Checked.max
        /\ a.timeout = Checked.timeout /\ a.latency = Checked.latency /\ a.addr_type = AddressType
  BY <1>0, ConnectDirectCalled DEF SentAre, Args, ConnectMsg
<1>3. LET a == Args(Sent("update")) IN
        /\ a.connection = call.handle
        /\ a.interval_min = Checked.min /\ a.interval_max = Checked.max
        /\ a.timeout = Checked.timeout /\ a.latency = Checked.latency
  BY <1>0, UpdateCalled DEF SentAre, Args, UpdateMsg
<1>4. Args(Sent("disconnect")).connection = call.handle
  BY <1>0, DisconnectCalled DEF SentAre, Args, DisconnectMsg
<1>5. Args(Sent("read_by_group_type")).connection = call.handle
  BY <1>0, GroupTypeCalled DEF SentAre, Args, GroupMsg
<1>6. Args(Sent("find_information")).connection = call.handle
  BY <1>0, FindInformationCalled DEF SentAre, Args, FindMsg
<1>7. LET a == Args(Sent("read_by_handle")) IN a.connection = call.handle /\ a.chrhandle = AttributeHandle
  BY <1>0, ReadByHandleCalled DEF SentAre, Args, ReadMsg
<1>8. LET a == Args(Sent("attribute_write")) IN
        a.connection = call.handle /\ a.atthandle = AttributeHandle /\ a.data = WriteBytes
  BY <1>0, AttributeWriteCalled DEF SentAre, Args, WriteMsg
<1>9. Args(Sent("discover")).mode = DiscoverMode
  BY <1>0, DiscoverCalled DEF SentAre, Args, DiscoverMsg
<1> QED  BY <1>1, <1>2, <1>3, <1>4, <1>5, <1>6, <1>7, <1>8, <1>9 DEF LinkCommands

LEMMA OurCallStays ==
  ASSUME request \in Requests, request' = request, call'.op = call.op, call'.handle = call.handle, NEW c, OurCall(c)
  PROVE  OurCall(c)'
<1>1. CASE c = Call(EndMsg)
  BY <1>1 DEF OurCall
<1>2. CASE call.op \in Ops /\ SentBy(call.op, c.cmd) /\ c = Call(Sent(c.cmd))
  <2>1. Sent(c.cmd)' = Sent(c.cmd)
    BY <1>2, SentByCommanded, SentStays
  <2> QED  BY <1>2, <2>1 DEF OurCall
<1> QED  BY <1>1, <1>2 DEF OurCall

LEMMA OurCalls == \A m : OurMsg(m) => OurCall(Call(m)) /\ Call(m).cmd = m.idx
BY SentIdx DEF OurMsg, OurCall, Call

\* A request at rest.
SameRequest == request \in Requests /\ request' = request /\ call'.op = call.op /\ call'.handle = call.handle
LEMMA QuietStep ==
  ASSUME OursInv, ~Awaiting', Quiet', SameRequest \/ call.op \notin Ops, asked' = asked
  PROVE  OursInv'
<1>1. ASSUME NEW c, OurCall(c) PROVE OurCall(c)'
  <2>1. CASE SameRequest
    BY <1>1, <2>1, OurCallStays DEF SameRequest
  <2>2. CASE call.op \notin Ops
    BY <1>1, <2>2 DEF OurCall
  <2> QED  BY <2>1, <2>2
<1>2. (\A i \in DOMAIN asked : OurCall(asked[i]))'
  BY <1>1 DEF OursInv, AllOurs
<1>3. (\A i \in DOMAIN toClient : OurMsg(toClient[i]))'
  BY DEF Quiet, OurMsg
<1> QED  BY <1>2, <1>3 DEF OursInv, AllOurs
LEMMA QuietKept ==
  ASSUME PathInv, Quiet, toDriver' = toDriver, request \in Requests,
         toClient' = toClient \/ toClient' = toClient \o BleCmd(<<"end_procedure">>)
  PROVE  Quiet'
<1>1. Pending' = Pending
  BY DEF Pending
<1>2. BleCmd(<<"end_procedure">>) = <<EndMsg>>
  BY MessagesAre, SentAreNow DEF SentAre, Plainly, EndMsg
<1>3. \A i \in DOMAIN toClient' : toClient'[i] = EndMsg
  <2>1. CASE toClient' = toClient
    BY <2>1 DEF Quiet
  <2>2. CASE toClient' = toClient \o <<EndMsg>>
    <3>1. toClient \in Seq(CommandMessages)
      BY DEF PathInv, TrafficFits
    <3> QED  BY <2>2, <3>1 DEF Quiet
  <2> QED  BY <1>2, <2>1, <2>2
<1> QED  BY <1>1, <1>3 DEF Quiet

-----------------------------------------------------------------------------
LEMMA OursInit == Init => OursInv /\ ToldInv
<1>1. ASSUME Init PROVE OursInv /\ ToldInv
  BY <1>1 DEF Init, OursInv, AllOurs, Quiet, Awaiting, Pending, ToldInv
<1> QED  BY <1>1

\* What a return tells.
LEMMA ReturnTells ==
  ASSUME NEW code, NEW ch, UNCHANGED <<request, call>>, Return(call.op, code, ch)
  PROVE  ToldInv'
<1>1. answer' = [status |-> Status(call.op, code, ch), mime |-> Mime, told |-> code = Ok /\ Told(call.op)]
  BY DEF Return, Answered
<1>2. answer'.status \in {200, 201} => code = Ok
  BY <1>1, StatusIs
<1>3. Told(call.op)' = Told(call.op)
  BY DEF Told, ConnectionGiven, ScanGiven
<1>4. Told(call.op) \in BOOLEAN
  BY DEF Told
<1> QED  BY <1>1, <1>2, <1>3, <1>4 DEF ToldInv

LEMMA ArriveOurs ==
  ASSUME PathInv, OursInv, ToldInv, Arrive
  PROVE  OursInv' /\ ToldInv'
<1>1. stage = "idle" /\ stage' = "arrived" /\ call = NoCall /\ call.op \notin Ops
      /\ UNCHANGED <<call, toClient, toDriver, asked>>
  BY NothingIsWellTyped DEF Arrive, PathInv, StageFits
<1>2. Quiet' /\ ~Awaiting'
  BY <1>1 DEF OursInv, Quiet, Pending, Awaiting
<1> QED  BY <1>1, <1>2, QuietStep DEF ToldInv

LEMMA FinishOurs ==
  ASSUME PathInv, OursInv, ToldInv, FinishRequest
  PROVE  OursInv' /\ ToldInv'
<1>1. stage = "answered" /\ stage' = "idle" /\ asked' = <<>> /\ UNCHANGED <<toClient, toDriver>>
  BY DEF FinishRequest
<1>2. Quiet' /\ ~Awaiting'
  BY <1>1 DEF OursInv, Quiet, Pending, Awaiting
<1> QED  BY <1>1, <1>2 DEF OursInv, AllOurs, Quiet, OurMsg, ToldInv

LEMMA FCGIWorkerOurs ==
  ASSUME PathInv, OursInv, ToldInv, FCGIWorker
  PROVE  OursInv' /\ ToldInv'
<1>1. stage = "arrived" /\ stage' \in {"answered", "worker"} /\ call.op \notin Ops
      /\ UNCHANGED <<request, call, toClient, toDriver, asked>>
  BY NothingIsWellTyped DEF FCGIWorker, PathInv, StageFits, Answered
<1>2. Quiet' /\ ~Awaiting'
  BY <1>1 DEF OursInv, Quiet, Pending, Awaiting
<1> QED  BY <1>1, <1>2, QuietStep DEF ToldInv

LEMMA WorkerOurs ==
  ASSUME PathInv, OursInv, ToldInv, ExecuteWorkRequest
  PROVE  OursInv' /\ ToldInv'
<1>1. stage = "worker" /\ call.op \notin Ops /\ UNCHANGED <<request, toClient, toDriver, asked>>
  BY NothingIsWellTyped DEF ExecuteWorkRequest, PathInv, StageFits
<1>2. stage' = "send" \/ (stage' = "answered" /\ call' = call)
  BY DEF ExecuteWorkRequest, ReadAttribute, OnDevice, OnAttribute, AtOnce, Begin, Return, Answered
<1>3. Quiet' /\ ~Awaiting'
  BY <1>1, <1>2 DEF OursInv, Quiet, Pending, Awaiting
<1> QED  BY <1>1, <1>2, <1>3, QuietStep DEF ToldInv

LEMMA ScanEndsOurs ==
  ASSUME PathInv, OursInv, ToldInv, ScanEnds
  PROVE  OursInv' /\ ToldInv'
<1>1. /\ stage = "scanning" /\ request \in Requests /\ call.op = "discover"
      /\ toClient' = toClient \o BleCmd(<<"end_procedure">>) /\ Return("discover", Ok, 0)
      /\ UNCHANGED <<request, call, toDriver, asked>>
  BY DEF ScanEnds, PathInv, StageFits
<1>2. stage' = "answered" /\ Quiet /\ ~Awaiting'
  BY <1>1 DEF OursInv, Awaiting, Return, Answered
<1>3. Quiet'
  BY <1>1, <1>2, QuietKept
<1>4. ToldInv'
  BY <1>1, ReturnTells
<1> QED  BY <1>1, <1>2, <1>3, <1>4, QuietStep DEF SameRequest

\* The messages of a step, the one that is waited for last.
LEMMA StepIsOurs ==
  ASSUME request \in Requests, CallFits, call.op \in Ops, Current.send # "none"
  PROVE  LET new == BleCmd(CommandsOf(Current.send)) IN
         /\ new \in Seq(CommandMessages)
         /\ \A j \in DOMAIN new : /\ OurMsg(new[j]) /\ new[j].idx \in {Current.send} \cup Unawaited
                                  /\ new[j].idx \notin Unawaited => j = Len(new)
<1> DEFINE c == Current.send
           new == BleCmd(CommandsOf(c))
<1>0. new \in Seq(CommandMessages)
  BY StepMessages
<1>1. \A d : Sent(d).idx = d
  BY SentIdx
<1>2. CASE c = "discover"
  <2>1. new = <<Sent("set_scan_parameters"), Sent("discover")>>
    BY <1>2, MessagesAre
  <2>2. call.op = "discover"
    BY <1>2, StepAwaits
  <2>3. OurMsg(Sent("set_scan_parameters")) /\ OurMsg(Sent("discover"))
    BY <1>1, <2>2 DEF OurMsg, SentBy, Sends
  <2>4. Len(new) = 2 /\ DOMAIN new = {1, 2} /\ new[1] = Sent("set_scan_parameters") /\ new[2] = Sent("discover")
    BY <2>1
  <2> HIDE DEF new
  <2>5. /\ new \in Seq(CommandMessages)
        /\ \A j \in DOMAIN new : /\ OurMsg(new[j]) /\ new[j].idx \in {c} \cup Unawaited
                                 /\ new[j].idx \notin Unawaited => j = Len(new)
    BY <1>0, <1>1, <1>2, <2>3, <2>4 DEF Unawaited
  <2> QED  BY <2>5 DEF new
<1>3. CASE c # "discover"
  <2>1. new = <<Sent(c)>>
    BY <1>3, MessagesAre
  <2>2. SentBy(call.op, c)
    <3>1. CASE c \in LinkCommands
      BY <3>1, StepAwaits
    <3>2. CASE c \in {"connect_direct", "get_connections", "get_info"}
      <4>1. c = "connect_direct" => call.op = "connect"
        BY StepAwaits
      <4>2. c \in {"get_connections", "get_info"} => call.op = "info"
        BY StepAwaits
      <4> HIDE DEF c
      <4> QED  BY <3>2, <4>1, <4>2 DEF SentBy, Sends
    <3>3. c \in Awaited
      BY StepAwaits
    <3> QED  BY <1>3, <3>1, <3>2, <3>3, AwaitedAre
  <2>3. OurMsg(Sent(c))
    BY <1>1, <2>2 DEF OurMsg
  <2>4. Len(new) = 1 /\ DOMAIN new = {1} /\ new[1] = Sent(c)
    BY <2>1
  <2> HIDE DEF new
  <2>5. /\ new \in Seq(CommandMessages)
        /\ \A j \in DOMAIN new : /\ OurMsg(new[j]) /\ new[j].idx \in {c} \cup Unawaited
                                 /\ new[j].idx \notin Unawaited => j = Len(new)
    BY <1>0, <1>1, <2>3, <2>4
  <2> QED  BY <2>5 DEF new
<1> QED  BY <1>2, <1>3

LEMMA SendStepOurs ==
  ASSUME PathInv, OursInv, ToldInv, SendStep
  PROVE  OursInv' /\ ToldInv'
<1>1. /\ stage = "send" /\ request \in Requests /\ call.op \in Ops /\ CallFits
      /\ UNCHANGED <<request, call, toDriver, asked>>
      /\ toClient \in Seq(CommandMessages)
  BY DEF SendStep, PathInv, StageFits, TrafficFits
<1>2. Quiet /\ SameRequest /\ Current' = Current
  BY <1>1 DEF OursInv, Awaiting, SameRequest, Current
<1>3. CASE stage' = "wait" /\ toClient' = toClient \o BleCmd(CommandsOf(Current.send)) /\ Current.send = "none"
  <2>1. toClient' = toClient
    BY <1>1, <1>3, MessagesAre
  <2>2. Quiet' /\ ~Awaiting'
    BY <1>1, <1>2, <1>3, <2>1 DEF Quiet, Pending, Awaiting
  <2> QED  BY <1>1, <1>2, <1>3, <2>2, QuietStep DEF ToldInv
<1>4. CASE stage' = "wait" /\ toClient' = toClient \o BleCmd(CommandsOf(Current.send)) /\ Current.send # "none"
  <2> DEFINE new == BleCmd(CommandsOf(Current.send))
  <2>1. /\ new \in Seq(CommandMessages)
        /\ \A j \in DOMAIN new : /\ OurMsg(new[j]) /\ new[j].idx \in {Current.send} \cup Unawaited
                                 /\ new[j].idx \notin Unawaited => j = Len(new)
    BY <1>1, <1>4, StepIsOurs
  <2>2. toClient' = toClient \o new
    BY <1>4
  <2> HIDE DEF new
  <2>3. Pending' = {} /\ Awaiting'
    BY <1>1, <1>2, <1>4 DEF Quiet, Pending, Awaiting
  <2>4. \A i \in DOMAIN toClient' : \/ i \in DOMAIN toClient /\ toClient'[i] = toClient[i]
                                    \/ \E j \in DOMAIN new : i = Len(toClient) + j /\ toClient'[i] = new[j]
    BY <1>1, <2>1, <2>2
  <2>5. Len(toClient') = Len(toClient) + Len(new)
    BY <1>1, <2>1, <2>2
  <2>6. ASSUME NEW i \in DOMAIN toClient'
        PROVE  /\ OurMsg(toClient'[i]) /\ toClient'[i].idx \in {Current.send} \cup Unawaited
               /\ toClient'[i].idx \notin Unawaited => i = Len(toClient')
    <3>1. CASE toClient'[i] = EndMsg
      BY <3>1, SentIdx DEF OurMsg, Unawaited
    <3> QED  BY <1>2, <2>1, <2>4, <2>5, <3>1 DEF Quiet
  <2>7. ASSUME NEW m, OurMsg(m) PROVE OurMsg(m)'
    BY <1>1, <2>7, OursStay
  <2>8. ASSUME NEW c, OurCall(c) PROVE OurCall(c)'
    BY <1>1, <2>8, OurCallStays
  <2>9. AllOurs'
    BY <1>1, <2>6, <2>7, <2>8 DEF OursInv, AllOurs
  <2>10. OneWait'
    BY <1>2, <2>3, <2>6 DEF OneWait
  <2>11. ToldInv'
    BY <1>4 DEF ToldInv
  <2> QED  BY <2>3, <2>9, <2>10, <2>11 DEF OursInv
<1>5. CASE Return(call.op, Exception, call.handle) /\ UNCHANGED toClient
  <2>1. stage' = "answered" /\ ToldInv'
    BY <1>1, <1>5, ReturnTells DEF Return, Answered
  <2>2. Quiet' /\ ~Awaiting'
    BY <1>1, <1>2, <1>5, <2>1 DEF Quiet, Pending, Awaiting
  <2> QED  BY <1>1, <1>2, <2>1, <2>2, QuietStep
<1> QED  BY <1>3, <1>4, <1>5 DEF SendStep

\* A wait that is over.
LEMMA WaitEndsMoves ==
  ASSUME PathInv, OursInv, stage = "wait", UNCHANGED request, NEW code, WaitEnds(code)
  PROVE  /\ stage' \in {"send", "scanning", "answered"} /\ SameRequest
         /\ toClient' = toClient \/ toClient' = toClient \o BleCmd(<<"end_procedure">>)
         /\ ToldInv'
<1>1. /\ request \in Requests /\ call.op \in Ops
      /\ call \in [op : {"none"} \cup Ops, handle : {0} \cup Handle, step : Nat]
  BY DEF PathInv, StageFits, CallFits
<1>2. CASE /\ code # Ok
           /\ Return(call.op, code, ResultHandle)
           /\ toClient' = IF EndsAttempt THEN toClient \o BleCmd(<<"end_procedure">>) ELSE toClient
           /\ UNCHANGED call
  BY <1>1, <1>2, ReturnTells DEF Return, Answered, SameRequest
<1>3. CASE /\ code = Ok /\ ~LastStep
           /\ stage' = "send" /\ call' = [call EXCEPT !.step = @ + 1]
           /\ UNCHANGED <<answer, toClient>>
  <2>1. call'.op = call.op /\ call'.handle = call.handle
    BY <1>1, <1>3
  <2> QED  BY <1>1, <1>3, <2>1 DEF SameRequest, ToldInv
<1>4. CASE code = Ok /\ LastStep /\ call.op = "discover" /\ stage' = "scanning" /\ UNCHANGED <<answer, call, toClient>>
  BY <1>1, <1>4 DEF SameRequest, ToldInv
<1>5. CASE /\ code = Ok /\ LastStep /\ call.op # "discover"
           /\ IF DataLost THEN Return(call.op, Gone, NoHandle) ELSE Return(call.op, Ok, ResultHandle)
           /\ UNCHANGED <<call, toClient>>
  BY <1>1, <1>5, ReturnTells DEF Return, Answered, SameRequest
<1> QED  BY <1>2, <1>3, <1>4, <1>5 DEF WaitEnds

LEMMA WaitRunsOutOurs ==
  ASSUME ResponsesInTime, PathInv, OursInv, ToldInv, WaitRunsOut
  PROVE  OursInv' /\ ToldInv'
<1>1. stage = "wait" /\ WaitEnds(TimedOut) /\ UNCHANGED <<request, toDriver, asked>>
  BY DEF WaitRunsOut
<1>2. CallFits /\ call.op \in Ops
  BY <1>1 DEF PathInv, StageFits
<1>3. Quiet
  <2>1. Current.on \cap ResponseEvents = {}
    BY DEF WaitRunsOut, ResponsesInTime
  <2>2. ~Awaiting
    BY <1>2, <2>1, StepAwaits DEF Awaiting
  <2> QED  BY <2>2 DEF OursInv
<1>4. stage' \in {"send", "scanning", "answered"} /\ SameRequest /\ ToldInv'
      /\ (toClient' = toClient \/ toClient' = toClient \o BleCmd(<<"end_procedure">>))
  BY <1>1, WaitEndsMoves
<1>5. Quiet' /\ ~Awaiting'
  BY <1>1, <1>3, <1>4, QuietKept DEF SameRequest, Awaiting
<1> QED  BY <1>1, <1>4, <1>5, QuietStep

LEMMA ReceivesOurs ==
  ASSUME PathInv, OursInv, ToldInv, DriverReceives
  PROVE  OursInv' /\ ToldInv'
<1> DEFINE m == Head(toDriver)
<1>1. /\ m \in Answers /\ toDriver \in Seq(Answers) /\ toDriver # <<>> /\ toDriver' = Tail(toDriver)
      /\ UNCHANGED <<request, asked>> /\ toClient \in Seq(CommandMessages)
  BY DEF DriverReceives, PathInv, TrafficFits
<1>2. IF stage = "wait" /\ EventOf(m).evt \in Current.on /\ EventOf(m).ch = WaitChannel
        THEN WaitEnds(EventOf(m).code) ELSE UNCHANGED <<stage, call, answer, toClient>>
  BY DEF DriverReceives, EventOf, Read
<1>3. /\ \A i \in Pending' : i + 1 \in Pending /\ toDriver'[i] = toDriver[i + 1] /\ i \in Nat /\ i >= 1
      /\ 1 \in Pending <=> m.idx \in Awaited
  BY <1>1, PendingRead
<1> HIDE DEF m
<1>4. ASSUME WaitEnds(EventOf(m).code), stage = "wait", Pending' = {}, \A i \in DOMAIN toClient : toClient[i] = EndMsg
      PROVE  OursInv' /\ ToldInv'
  <2>1. stage' \in {"send", "scanning", "answered"} /\ SameRequest /\ ToldInv'
        /\ (toClient' = toClient \/ toClient' = toClient \o BleCmd(<<"end_procedure">>))
    BY <1>1, <1>4, WaitEndsMoves
  <2>2. BleCmd(<<"end_procedure">>) = <<EndMsg>>
    BY <2>1, MessagesAre, SentAreNow DEF SentAre, Plainly, EndMsg, SameRequest
  <2>3. \A i \in DOMAIN toClient' : toClient'[i] = EndMsg
    <3>1. CASE toClient' = toClient
      BY <1>4, <3>1
    <3>2. CASE toClient' = toClient \o <<EndMsg>>
      BY <1>1, <1>4, <3>2
    <3> QED  BY <2>1, <2>2, <3>1, <3>2
  <2>4. Quiet' /\ ~Awaiting'
    BY <1>4, <2>1, <2>3 DEF Quiet, Awaiting
  <2> QED  BY <1>1, <2>1, <2>4, QuietStep
<1>5. CASE UNCHANGED <<stage, call, answer, toClient>> /\ ~Awaiting
  <2>1. Quiet' /\ ~Awaiting'
    BY <1>3, <1>5 DEF OursInv, Quiet, Awaiting, Current
  <2>2. SameRequest \/ call.op \notin Ops
    BY <1>1, <1>5, NothingIsWellTyped DEF PathInv, StageFits, SameRequest
  <2>3. ToldInv'
    BY <1>1, <1>5, ZenonT(60) DEF ToldInv, Told, ConnectionGiven, ScanGiven
  <2> QED  BY <1>1, <2>1, <2>2, <2>3, QuietStep
<1>6. CASE UNCHANGED <<stage, call, answer, toClient>> /\ Awaiting /\ m.idx \notin Awaited
  <2>1. request \in Requests
    BY <1>6 DEF Awaiting, PathInv, StageFits
  <2>2. ASSUME NEW n, OurMsg(n) PROVE OurMsg(n)'
    BY <1>1, <1>6, <2>1, <2>2, OursStay
  <2>3. ASSUME NEW c, OurCall(c) PROVE OurCall(c)'
    BY <1>1, <1>6, <2>1, <2>3, OurCallStays
  <2>4. AllOurs'
    BY <1>1, <1>6, <2>2, <2>3 DEF OursInv, AllOurs
  <2>5. Awaiting' /\ Current' = Current /\ call' = call
    BY <1>6 DEF Awaiting, Current
  <2>6. OneWait'
    <3>1. OneWait
      BY <1>6 DEF OursInv
    <3>2. \A i \in Pending' : Matches(toDriver'[i], Current.send)
      BY <1>3, <3>1 DEF OneWait
    <3>3. \A i, j \in Pending' : i = j
      <4> TAKE i \in Pending', j \in Pending'
      <4>1. i + 1 \in Pending /\ j + 1 \in Pending /\ i \in Nat /\ j \in Nat
        BY <1>3
      <4>2. i + 1 = j + 1
        BY <3>1, <4>1 DEF OneWait
      <4> QED  BY <4>1, <4>2
    <3>4. Pending' # {} => toClient' = <<>>
      BY <1>3, <1>6, <3>1 DEF OneWait
    <3>5. \A x, c : Matches(x, c)' <=> Matches(x, c)
      BY <2>5 DEF Matches
    <3> QED  BY <1>6, <2>5, <3>1, <3>2, <3>3, <3>4, <3>5 DEF OneWait, Matches
  <2>7. ToldInv'
    BY <1>1, <1>6 DEF ToldInv, Awaiting
  <2> QED  BY <2>4, <2>5, <2>6, <2>7 DEF OursInv
<1>7. CASE Awaiting /\ m.idx \in Awaited
  <2>1. OneWait /\ 1 \in Pending /\ stage = "wait" /\ Current.send # "none" /\ CallFits /\ call.op \in Ops
    BY <1>3, <1>7 DEF OursInv, Awaiting, PathInv, StageFits
  <2>2. Matches(m, Current.send)
    BY <1>1, <2>1 DEF OneWait, m
  <2>3. EventOf(m).evt \in Current.on /\ EventOf(m).ch = WaitChannel
    BY <1>1, <1>7, <2>1, <2>2, AwaitedEvent
  <2>4. Pending' = {}
    <3> SUFFICES ASSUME NEW i \in Pending' PROVE FALSE
      OBVIOUS
    <3>1. i + 1 \in Pending /\ i \in Nat /\ i >= 1
      BY <1>3
    <3>2. i + 1 = 1
      BY <2>1, <3>1 DEF OneWait
    <3> QED  BY <3>1, <3>2
  <2>5. toClient = <<>>
    BY <2>1 DEF OneWait
  <2> QED  BY <1>2, <1>4, <2>1, <2>3, <2>4, <2>5
<1>8. CASE Awaiting /\ m.idx \notin Awaited
  <2>1. stage = "wait" /\ Current.send # "none" /\ CallFits /\ call.op \in Ops
    BY <1>8 DEF Awaiting, PathInv, StageFits
  <2>2. EventOf(m).evt \notin Current.on
    BY <1>1, <1>8, <2>1, OtherEvent, AwaitedNotOther
  <2> QED  BY <1>2, <1>6, <1>8, <2>2
<1>9. CASE ~Awaiting
  <2>1. Quiet /\ Pending' = {}
    BY <1>3, <1>9 DEF OursInv, Quiet
  <2> QED  BY <1>2, <1>4, <1>5, <1>9, <2>1 DEF Quiet
<1> QED  BY <1>7, <1>8, <1>9

LEMMA GatewayStands ==
  ASSUME PathInv, UNCHANGED gateway
  PROVE  /\ UNCHANGED <<stage, request, call, answer>> /\ Current' = Current /\ Awaiting' = Awaiting
         /\ \A m : OurMsg(m) => OurMsg(m)'
         /\ \A c : OurCall(c) => OurCall(c)'
         /\ \A m, c : Matches(m, c)' <=> Matches(m, c)
         /\ ToldInv => ToldInv'
<1>1. UNCHANGED <<stage, request, call, answer>>
  BY DEF gateway
<1>2. Current' = Current /\ Awaiting' = Awaiting
  BY <1>1 DEF Current, Awaiting
<1>3. ASSUME NEW m, OurMsg(m) PROVE OurMsg(m)'
  <2>1. CASE call.op \in Ops
    <3>1. request \in Requests
      BY <2>1, NothingIsWellTyped DEF PathInv, StageFits
    <3> QED  BY <1>1, <1>3, <3>1, OursStay
  <2>2. CASE call.op \notin Ops
    BY <1>1, <1>3, <2>2 DEF OurMsg
  <2> QED  BY <2>1, <2>2
<1>4. ASSUME NEW c, OurCall(c) PROVE OurCall(c)'
  <2>1. CASE call.op \in Ops
    <3>1. request \in Requests
      BY <2>1, NothingIsWellTyped DEF PathInv, StageFits
    <3> QED  BY <1>1, <1>4, <3>1, OurCallStays
  <2>2. CASE call.op \notin Ops
    BY <1>1, <1>4, <2>2 DEF OurCall
  <2> QED  BY <2>1, <2>2
<1>5. \A m, c : Matches(m, c)' <=> Matches(m, c)
  BY <1>1 DEF Matches
<1>6. ToldInv => ToldInv'
  BY <1>1, ZenonT(60) DEF ToldInv, Told, ConnectionGiven, ScanGiven
<1> QED  BY <1>1, <1>2, <1>3, <1>4, <1>5, <1>6

\* What the dongle tells of its own is not waited for as a response.
LEMMA TellsOurs ==
  ASSUME PathInv, OursInv, ToldInv, UNCHANGED <<gateway, toClient, asked>>,
         NEW m, toDriver' = Append(toDriver, m), m.idx \notin Awaited
  PROVE  OursInv' /\ ToldInv'
<1>1. toDriver \in Seq(Answers)
  BY DEF PathInv, TrafficFits
<1>2. Pending' = Pending /\ \A i \in Pending' : toDriver'[i] = toDriver[i]
  <2>1. Pending' = Pending
    BY <1>1, PendingAppended
  <2>2. \A i \in DOMAIN toDriver : toDriver'[i] = toDriver[i]
    BY <1>1
  <2> QED  BY <2>1, <2>2 DEF Pending
<1>3. AllOurs'
  BY GatewayStands DEF OursInv, AllOurs
<1>4. ~Awaiting' => Quiet'
  BY <1>2, GatewayStands DEF OursInv, Quiet
<1>5. Awaiting' => OneWait'
  <2> SUFFICES ASSUME Awaiting' PROVE OneWait'
    OBVIOUS
  <2>1. OneWait /\ call' = call /\ Current' = Current
    BY GatewayStands DEF OursInv
  <2> QED  BY <1>2, <2>1, ZenonT(60) DEF OneWait, Matches
<1> QED  BY <1>3, <1>4, <1>5, GatewayStands DEF OursInv

LEMMA ClientOurs ==
  ASSUME PathInv, OursInv, ToldInv, ClientExecutes
  PROVE  OursInv' /\ ToldInv'
<1>1. PICK m \in CommandMessages :
        \E result \in ResultsOf(m.idx, Args(m)) : ClientCall(m, result, Subject(m.idx, Args(m)))
  BY ClientCalls1 DEF PathInv, TrafficFits
<1>2. PICK result \in ResultsOf(m.idx, Args(m)) : ClientCall(m, result, Subject(m.idx, Args(m)))
  BY <1>1
<1> DEFINE h == Subject(m.idx, Args(m))
           rsp == Rsp(m.idx, h, result)
<1>3. UNCHANGED gateway /\ toClient \in Seq(CommandMessages) /\ toDriver \in Seq(Answers) /\ asked \in Seq(Calls)
  BY DEF ClientExecutes, PathInv, TrafficFits
<1>4. m.idx \in Commanded /\ result \in Results /\ rsp.idx = m.idx
      /\ (m.idx \in LinkCommands => h = Args(m).connection /\ rsp = LinkRsp(m.idx, h, result))
  <2>1. m.idx \in Commanded /\ result \in Results /\ (m.idx \in LinkCommands => h = Args(m).connection)
    BY ResultsAre
  <2> HIDE DEF h
  <2>2. rsp.idx = m.idx
    BY <2>1, ResponsePacked
  <2>3. m.idx \in LinkCommands => rsp = LinkRsp(m.idx, h, result)
    BY RspIs
  <2> QED  BY <2>1, <2>2, <2>3
<1> HIDE DEF h, rsp
<1>5. /\ m = toClient[1] /\ toClient # <<>> /\ 1 \in DOMAIN toClient
      /\ toDriver' = Append(toDriver, rsp) /\ asked' = Append(asked, Call(m)) /\ toClient' = Tail(toClient)
  BY <1>2, <1>3 DEF ClientCall, h, rsp
<1>6. \A i \in DOMAIN toClient' : /\ i + 1 \in DOMAIN toClient /\ toClient'[i] = toClient[i + 1]
                                /\ (i = Len(toClient') <=> i + 1 = Len(toClient))
  BY <1>3, <1>5, SMTT(60)
<1>7. \A i \in DOMAIN asked' : asked'[i] = Call(m) \/ (i \in DOMAIN asked /\ asked'[i] = asked[i])
  BY <1>3, <1>5
<1>8. OurMsg(m)
  BY <1>5 DEF OursInv, AllOurs
<1>9. AllOurs'
  <2>1. (\A i \in DOMAIN toClient : OurMsg(toClient[i]))'
    BY <1>3, <1>6, GatewayStands DEF OursInv, AllOurs
  <2>2. (\A i \in DOMAIN asked : OurCall(asked[i]))'
    BY <1>3, <1>7, <1>8, GatewayStands, OurCalls DEF OursInv, AllOurs
  <2> QED  BY <2>1, <2>2 DEF AllOurs
<1>10. /\ \A i \in Pending' : \/ i \in Pending /\ toDriver'[i] = toDriver[i]
                              \/ i = Len(toDriver) + 1 /\ toDriver'[i] = rsp
       /\ rsp.idx \notin Awaited => Pending' = Pending
  BY <1>3, <1>5, PendingAppended
<1>11. CASE ~Awaiting
  <2>1. m = EndMsg /\ Pending = {} /\ \A i \in DOMAIN toClient : toClient[i] = EndMsg
    BY <1>5, <1>11 DEF OursInv, Quiet
  <2>2. rsp.idx \notin Awaited
    BY <1>4, <2>1, SentIdx, AwaitedAre
  <2>3. Quiet'
    BY <1>6, <1>10, <2>1, <2>2 DEF Quiet
  <2> QED  BY <1>3, <1>9, <1>11, <2>3, GatewayStands DEF OursInv
<1>12. CASE Awaiting
  <2>1. OneWait /\ Pending = {} /\ m.idx \in {Current.send} \cup Unawaited /\ (m.idx \notin Unawaited => 1 = Len(toClient))
    BY <1>5, <1>12 DEF OursInv, OneWait
  <2>2. Current' = Current /\ call' = call
    BY <1>3, GatewayStands
  <2>3. (\A i \in DOMAIN toClient : /\ toClient[i].idx \in {Current.send} \cup Unawaited
                                    /\ toClient[i].idx \notin Unawaited => i = Len(toClient))'
    <3> SUFFICES ASSUME NEW i \in DOMAIN toClient'
                 PROVE  /\ toClient'[i].idx \in {Current.send} \cup Unawaited
                        /\ toClient'[i].idx \notin Unawaited => i = Len(toClient')
      BY <2>2
    <3> QED  BY <1>6, <2>1 DEF OneWait
  <2>4. CASE m.idx \in Unawaited
    <3>1. Pending' = {}
      BY <1>4, <1>10, <2>1, <2>4 DEF Awaited
    <3> QED  BY <1>3, <1>9, <1>12, <2>3, <3>1, GatewayStands DEF OursInv, OneWait
  <2>5. CASE m.idx = Current.send /\ m.idx \notin Unawaited
    <3>1. toClient' = <<>>
      BY <1>3, <1>5, <2>1, <2>5, SMTT(60)
    <3>2. \A i \in Pending' : i = Len(toDriver) + 1 /\ toDriver'[i] = rsp
      BY <1>10, <2>1
    <3>3. Matches(rsp, Current.send)
      <4>1. CASE m.idx \in LinkCommands
        <5>1. request \in Requests
          BY <1>12 DEF Awaiting, PathInv, StageFits
        <5>2. m = Sent(m.idx)
          BY <1>8, <2>5, SentIdx DEF OurMsg, Unawaited
        <5>3. h = call.handle
          BY <1>4, <4>1, <5>1, <5>2, SentCalled
        <5> QED  BY <1>4, <2>5, <4>1, <5>3 DEF Matches
      <4>2. CASE m.idx \notin LinkCommands
        BY <1>4, <2>5, <4>2 DEF Matches
      <4> QED  BY <4>1, <4>2
    <3>4. OneWait'
      <4>1. \A i \in Pending' : Matches(toDriver'[i], Current.send)
        BY <3>2, <3>3
      <4>2. (\A i \in Pending : Matches(toDriver[i], Current.send))'
        BY <2>2, <4>1 DEF Matches
      <4>3. \A i, j \in Pending' : i = j
        BY <3>2
      <4> QED  BY <2>3, <3>1, <4>2, <4>3 DEF OneWait
    <3> QED  BY <1>3, <1>9, <1>12, <3>4, GatewayStands DEF OursInv
  <2> QED  BY <2>1, <2>4, <2>5
<1> QED  BY <1>11, <1>12

\* None of what the dongle tells is a response.
LEMMA TellsIdx ==
  /\ \A h, address, flags : StatusMsg(h, address, flags).idx \notin Awaited
  /\ \A h, reason : GoneMsg(h, reason).idx \notin Awaited
  /\ \A h, result : CompletedMsg(h, result).idx \notin Awaited
  /\ \A h : ValueMsg(h).idx \notin Awaited /\ GroupFoundMsg(h).idx \notin Awaited /\ InfoFoundMsg(h).idx \notin Awaited
  /\ FoundMsg.idx \notin Awaited
<1>1. Awaited \cap {"status", "disconnected", "procedure_completed", "attribute_value", "group_found",
                    "information_found", "scan_response"} = {}
  BY AwaitedAre DEF LinkCommands
<1> QED  BY <1>1 DEF StatusMsg, GoneMsg, CompletedMsg, ValueMsg, GroupFoundMsg, InfoFoundMsg, FoundMsg, Message

LEMMA DongleOurs ==
  ASSUME PathInv, OursInv, ToldInv, ProcedureSucceeds \/ ProcedureFails \/ ProcedureFinds \/ LinkLost
  PROVE  OursInv' /\ ToldInv'
<1>1. UNCHANGED <<gateway, toClient, asked>>
  BY DEF ProcedureSucceeds, ProcedureFails, ProcedureFinds, LinkLost
<1>2. \E m : toDriver' = Append(toDriver, m) /\ m.idx \notin Awaited
  <2>1. CASE ProcedureSucceeds
    <3> DEFINE c == procedure.cmd
    <3>1. c \in Lasting /\ toDriver' = Append(toDriver, Success(c, procedure.ch, procedure.device))
      BY <2>1, Succeeds
    <3> HIDE DEF c
    <3>2. Success(c, procedure.ch, procedure.device).idx \notin Awaited
      <4>1. c \in {"connect_direct", "update", "disconnect", "read_by_handle"} \cup Completing
        BY <3>1 DEF Lasting, LinkCommands, Completing
      <4>2. CASE c \in Completing
        <5>1. Success(c, procedure.ch, procedure.device) = CompletedMsg(procedure.ch, 0)
          BY <4>2, SuccessIs
        <5> QED  BY <5>1, TellsIdx
      <4>3. CASE c = "connect_direct"
        BY <4>3, SuccessIs, TellsIdx
      <4>4. CASE c = "update"
        BY <4>4, SuccessIs, TellsIdx
      <4>5. CASE c = "disconnect"
        BY <4>5, SuccessIs, TellsIdx
      <4>6. CASE c = "read_by_handle"
        BY <4>6, SuccessIs, TellsIdx
      <4> QED  BY <4>1, <4>2, <4>3, <4>4, <4>5, <4>6
    <3> QED  BY <3>1, <3>2
  <2>2. CASE ProcedureFails
    BY <2>2, Fails, TellsIdx
  <2>3. CASE ProcedureFinds
    BY <2>3, FindsIs, TellsIdx
  <2>4. CASE LinkLost
    BY <2>4, Loses, TellsIdx
  <2> QED  BY <2>1, <2>2, <2>3, <2>4
<1> QED  BY <1>1, <1>2, TellsOurs

LEMMA OursNext == ResponsesInTime /\ PathInv /\ OursInv /\ ToldInv /\ [Next]_vars => OursInv' /\ ToldInv'
<1> SUFFICES ASSUME ResponsesInTime, PathInv, OursInv, ToldInv, [Next]_vars PROVE OursInv' /\ ToldInv'
  OBVIOUS
<1>1. CASE UNCHANGED vars
  <2>1. UNCHANGED <<gateway, toClient, toDriver, asked>>
    BY <1>1 DEF vars
  <2>2. Pending' = Pending
    BY <2>1 DEF Pending
  <2> QED  BY <2>1, <2>2, GatewayStands DEF OursInv, AllOurs, Quiet, OneWait
<1> QED  BY <1>1, ArriveOurs, FCGIWorkerOurs, FinishOurs, WorkerOurs, SendStepOurs, WaitRunsOutOurs, ScanEndsOurs,
            ReceivesOurs, ClientOurs, DongleOurs DEF Next

\* If no wait for a response runs out, what is under way to the client and what the dongle has been
\* asked belongs to the request in work or ends a procedure, at most one response is under way and
\* it is the one that the driver waits for, and a success tells of changed parameters.
THEOREM PathOurs ==
  ASSUME ResponsesInTime
  PROVE  Spec => [](PathInv /\ OursInv /\ ToldInv)
<1>1. PathInv /\ OursInv /\ ToldInv /\ [Next]_vars => PathInv' /\ OursInv' /\ ToldInv'
  BY PathNext, OursNext
<1> QED  BY <1>1, PathInit, OursInit, PTL DEF Spec

-----------------------------------------------------------------------------
(* Changed parameters.                                                     *)

LEMMA GivenFits ==
  ASSUME request \in Requests, NEW name, NEW default, NEW value, NEW room \in Nat,
         \A n \in Nat : n < room /\ Parameter(request.query, name, default) = n => value = n,
         Parameter(request.query, name, value) < room
  PROVE  value = Parameter(request.query, name, value)
<1> DEFINE query == request.query
<1>1. CASE name \in DOMAIN query /\ ConstructsInteger(query[name])
  <2>1. Parameter(query, name, default) = query[name].n /\ Parameter(query, name, value) = query[name].n
    BY <1>1 DEF Parameter
  <2>2. query[name].n \in Nat
    <3>1. query[name] \in Tokens
      BY <1>1, RequestsAssumption
    <3> HIDE DEF query
    <3> QED  BY <3>1 DEF Tokens
  <2> QED  BY <2>1, <2>2
<1>2. CASE ~(name \in DOMAIN query /\ ConstructsInteger(query[name]))
  BY <1>2 DEF Parameter
<1> QED  BY <1>1, <1>2

\* What is kept of a number that its parameter has room for.
LEMMA RoomFits ==
  /\ \A n \in Nat : n < 65536 => Uint16(n) = n
  /\ \A n \in Nat : n < 256 => Uint8(n) = n
  /\ \A n \in Nat : n < 2 => (IF n = 0 THEN 0 ELSE 1) = n
  /\ \A n \in Nat : n < 3 => (IF n \in 0 .. 2 THEN n ELSE 1) = n
BY SMT DEF Uint16, Uint8

LEMMA UsesAre ==
  /\ DOMAIN Uses = {"connect_direct", "update", "set_scan_parameters", "discover"}
  /\ Uses["connect_direct"] = [conn_interval_max |-> "CONNECTIONINTERVAL", timeout |-> "TIMEOUT",
                               latency |-> "SLAVELATENCY", addr_type |-> "ADDRESSTYPE"]
  /\ Uses["update"] = [interval_max |-> "CONNECTIONINTERVAL", timeout |-> "TIMEOUT", latency |-> "SLAVELATENCY"]
  /\ Uses["set_scan_parameters"] = [scan_interval |-> "SCANINTERVAL", scan_window |-> "SCANWINDOW",
                                    active |-> "ACTIVESCAN"]
  /\ Uses["discover"] = [mode |-> "DISCOVERMODE"]
BY DEF Uses
LEMMA RoomIs ==
  /\ Room["CONNECTIONINTERVAL"] = 65536 /\ Room["TIMEOUT"] = 65536 /\ Room["SLAVELATENCY"] = 65536
  /\ Room["SCANINTERVAL"] = 65536 /\ Room["SCANWINDOW"] = 65536
  /\ Room["ADDRESSTYPE"] = 256 /\ Room["ACTIVESCAN"] = 2 /\ Room["DISCOVERMODE"] = 3
BY DEF Room

\* If no wait for a response runs out, a success that does not speak of changed parameters means
\* that the dongle got every number of the request that its parameter has room for: interval,
\* timeout, latency, address type, window, and the kind of the scan.  Connect and Discover leave
\* no other change of theirs unmentioned than that of a number that is cut to its parameter.
THEOREM PathChangeReported ==
  ASSUME ResponsesInTime
  PROVE  Spec => []ChangeReported
<1>1. PathInv /\ OursInv /\ ToldInv => ChangeReported
  <2> SUFFICES ASSUME PathInv, OursInv, ToldInv, answer.status \in {200, 201}, ~answer.told,
                      NEW i \in DOMAIN asked, asked[i].cmd \in DOMAIN Uses
               PROVE  Honoured(asked[i])
    BY DEF ChangeReported
  <2> DEFINE c == asked[i].cmd
             op == call.op
  <2>1. c \in {"connect_direct", "update", "set_scan_parameters", "discover"}
    BY UsesAre
  <2>2. op \in Ops /\ SentBy(op, c) /\ asked[i] = Call(Sent(c))
    <3>1. OurCall(asked[i])
      BY DEF OursInv, AllOurs
    <3>2. Call(EndMsg).cmd = "end_procedure"
      BY SentIdx DEF Call
    <3> QED  BY <2>1, <3>1, <3>2 DEF OurCall
  <2>3. request \in Requests /\ stage = "answered"
    BY <2>2, NothingIsWellTyped DEF PathInv, StageFits, AnswerFits, NoAnswer
  <2>4. ~Told(op)
    BY <2>2, <2>3 DEF ToldInv
  <2>5. asked[i].args = Args(Sent(c))
    BY <2>2, SentIdx DEF Call, Args
  <2>6. op = "connect" \/ op = "update" => Checked = ConnectionGiven
    BY <2>4 DEF Told, Checked
  <2>7. op = "discover" => CheckedScan = ScanGiven
    BY <2>4 DEF Told, CheckedScan
  <2>8. /\ ConnectionGiven.max = Uint16(Parameter(request.query, "CONNECTIONINTERVAL", CONNECT_INTERVAL))
        /\ ConnectionGiven.timeout = Uint16(Parameter(request.query, "TIMEOUT", CONNECT_TIMEOUT))
        /\ ConnectionGiven.latency = Uint16(Parameter(request.query, "SLAVELATENCY", CONNECT_SAVE_LATENCY))
    BY DEF ConnectionGiven, ConnectionParameters
  <2>9. /\ ScanGiven.interval = Uint16(Parameter(request.query, "SCANINTERVAL", DISCOVERY_SCAN_INTERVAL))
        /\ ScanGiven.window = Uint16(Parameter(request.query, "SCANWINDOW", DISCOVERY_SCAN_WINDOW))
    BY DEF ScanGiven
  <2> DEFINE Keeps(field, default) ==
               \A n \in Nat : n < Room[Uses[c][field]] /\ Parameter(request.query, Uses[c][field], default) = n
                                => asked[i].args[field] = n
  <2>10. ASSUME NEW field \in DOMAIN Uses[c], NEW default, Keeps(field, default)
         PROVE  LET given == Parameter(request.query, Uses[c][field], asked[i].args[field])
                IN  given < Room[Uses[c][field]] => asked[i].args[field] = given
    <3>1. Room[Uses[c][field]] \in Nat
      BY <2>1, <2>10, UsesAre, RoomIs
    <3> QED  BY <2>3, <2>10, <3>1, GivenFits
  <2>11. \A field \in DOMAIN Uses[c] : \E default : Keeps(field, default)
    <3>1. CASE c = "connect_direct"
      <4>1. op = "connect"
        BY <2>2, <3>1 DEF SentBy, Sends
      <4> DEFINE a == Args(Sent("connect_direct"))
      <4>2. a.conn_interval_max = ConnectionGiven.max /\ a.timeout = ConnectionGiven.timeout
            /\ a.latency = ConnectionGiven.latency /\ a.addr_type = AddressType
        BY <2>3, <2>6, <4>1, SentCalled
      <4> HIDE DEF a
      <4>3. asked[i].args = a
        BY <2>5, <3>1 DEF a
      <4>4. /\ Keeps("conn_interval_max", CONNECT_INTERVAL) /\ Keeps("timeout", CONNECT_TIMEOUT)
            /\ Keeps("latency", CONNECT_SAVE_LATENCY) /\ Keeps("addr_type", 1)
        BY <2>8, <3>1, <4>2, <4>3, UsesAre, RoomIs, RoomFits DEF AddressType
      <4> HIDE DEF Keeps
      <4> QED  BY <3>1, <4>4, UsesAre
    <3>2. CASE c = "update"
      <4>1. op = "update"
        BY <2>2, <3>2 DEF SentBy, Sends
      <4> DEFINE a == Args(Sent("update"))
      <4>2. a.interval_max = ConnectionGiven.max /\ a.timeout = ConnectionGiven.timeout
            /\ a.latency = ConnectionGiven.latency
        BY <2>3, <2>6, <4>1, SentCalled
      <4> HIDE DEF a
      <4>3. asked[i].args = a
        BY <2>5, <3>2 DEF a
      <4>4. /\ Keeps("interval_max", CONNECT_INTERVAL) /\ Keeps("timeout", CONNECT_TIMEOUT)
            /\ Keeps("latency", CONNECT_SAVE_LATENCY)
        BY <2>8, <3>2, <4>2, <4>3, UsesAre, RoomIs, RoomFits
      <4> HIDE DEF Keeps
      <4> QED  BY <3>2, <4>4, UsesAre
    <3>3. CASE c = "set_scan_parameters"
      <4>1. op = "discover"
        BY <2>2, <3>3 DEF SentBy, Sends
      <4> DEFINE a == Args(Sent("set_scan_parameters"))
      <4>2. a.scan_interval = ScanGiven.interval /\ a.scan_window = ScanGiven.window /\ a.active = ActiveScan
        BY <2>3, <2>7, <4>1, SentCalled
      <4> HIDE DEF a
      <4>3. asked[i].args = a
        BY <2>5, <3>3 DEF a
      <4>4. /\ Keeps("scan_interval", DISCOVERY_SCAN_INTERVAL) /\ Keeps("scan_window", DISCOVERY_SCAN_WINDOW)
            /\ Keeps("active", 1)
        BY <2>9, <3>3, <4>2, <4>3, UsesAre, RoomIs, RoomFits DEF ActiveScan
      <4> HIDE DEF Keeps
      <4> QED  BY <3>3, <4>4, UsesAre
    <3>4. CASE c = "discover"
      <4>1. asked[i].args.mode = DiscoverMode
        BY <2>3, <2>5, <3>4, SentCalled
      <4>2. Keeps("mode", 1)
        BY <3>4, <4>1, UsesAre, RoomIs, RoomFits DEF DiscoverMode
      <4> HIDE DEF Keeps
      <4> QED  BY <3>4, <4>2, UsesAre
    <3> QED  BY <2>1, <3>1, <3>2, <3>3, <3>4
  <2> HIDE DEF Keeps
  <2> QED  BY <2>10, <2>11 DEF Honoured
<1> QED  BY <1>1, PathOurs, PTL

-----------------------------------------------------------------------------
(* The links of the dongle, and what the driver will know of them.         *)

\* News of the link h, and the device that is then on it.
About(m, h) == m.idx \in {"status", "disconnected"} /\ Read(m).connection = h
NewDevice(m) == IF m.idx = "status" THEN Read(m).address ELSE Nobody

\* A driver that has device d on the link h takes it to be x after the first n messages of s.
Knows(d, s, h, n, x) ==
  \/ x = d /\ \A j \in 1 .. n : ~About(s[j], h)
  \/ \E j \in 1 .. n : /\ About(s[j], h) /\ x = NewDevice(s[j])
                       /\ \A l \in j + 1 .. n : ~About(s[l], h)
\* The first n messages of s have no news of the link h since the last response to connect_direct.
After(s, h, n) ==
  \/ \A j \in 1 .. n : ~About(s[j], h)
  \/ \E k \in 1 .. n : s[k].idx = "connect_direct" /\ \A l \in k + 1 .. n : ~About(s[l], h)

LEMMA KnowsRead ==
  ASSUME NEW s \in Seq(Answers), NEW n \in 1 .. Len(s), NEW h, NEW d, NEW x, Knows(d, s, h, n, x)
  PROVE  Knows(IF About(s[1], h) THEN NewDevice(s[1]) ELSE d, Tail(s), h, n - 1, x)
<1> DEFINE t == Tail(s)
           e == IF About(s[1], h) THEN NewDevice(s[1]) ELSE d
<1>0. n \in Nat /\ n >= 1 /\ Len(s) \in Nat /\ \A j \in 1 .. n - 1 : j + 1 \in 2 .. n /\ t[j] = s[j + 1]
  OBVIOUS
<1> HIDE DEF t
<1>1. CASE x = d /\ \A j \in 1 .. n : ~About(s[j], h)
  <2>1. x = e /\ \A j \in 1 .. n - 1 : ~About(t[j], h)
    BY <1>0, <1>1
  <2> QED  BY <2>1 DEF Knows, t
<1>2. CASE \E j \in 1 .. n : /\ About(s[j], h) /\ x = NewDevice(s[j])
                             /\ \A l \in j + 1 .. n : ~About(s[l], h)
  <2>1. PICK j \in 1 .. n : /\ About(s[j], h) /\ x = NewDevice(s[j])
                            /\ \A l \in j + 1 .. n : ~About(s[l], h)
    BY <1>2
  <2>2. CASE j = 1
    <3>1. x = e /\ \A l \in 1 .. n - 1 : ~About(t[l], h)
      BY <1>0, <2>1, <2>2
    <3> QED  BY <3>1 DEF Knows, t
  <2>3. CASE j # 1
    <3>1. j - 1 \in 1 .. n - 1 /\ t[j - 1] = s[j]
      BY <1>0, <2>3
    <3>2. \A l \in (j - 1) + 1 .. n - 1 : ~About(t[l], h)
      <4> TAKE l \in (j - 1) + 1 .. n - 1
      <4>1. l \in 1 .. n - 1 /\ l + 1 \in j + 1 .. n
        BY <1>0, <3>1
      <4> QED  BY <1>0, <2>1, <4>1
    <3>3. About(t[j - 1], h) /\ x = NewDevice(t[j - 1])
      BY <2>1, <3>1
    <3> QED  BY <3>1, <3>2, <3>3 DEF Knows, t
  <2> QED  BY <2>2, <2>3
<1> QED  BY <1>1, <1>2 DEF Knows

LEMMA AfterRead ==
  ASSUME NEW s \in Seq(Answers), NEW n \in 1 .. Len(s), NEW h, After(s, h, n)
  PROVE  After(Tail(s), h, n - 1)
<1> DEFINE t == Tail(s)
<1>0. n \in Nat /\ n >= 1 /\ Len(s) \in Nat /\ \A j \in 1 .. n - 1 : j + 1 \in 2 .. n /\ t[j] = s[j + 1]
  OBVIOUS
<1> HIDE DEF t
<1>1. CASE \A j \in 1 .. n : ~About(s[j], h)
  <2>1. \A j \in 1 .. n - 1 : ~About(t[j], h)
    BY <1>0, <1>1
  <2> QED  BY <2>1 DEF After, t
<1>2. CASE \E k \in 1 .. n : s[k].idx = "connect_direct" /\ \A l \in k + 1 .. n : ~About(s[l], h)
  <2>1. PICK k \in 1 .. n : s[k].idx = "connect_direct" /\ \A l \in k + 1 .. n : ~About(s[l], h)
    BY <1>2
  <2>2. CASE k = 1
    <3>1. \A l \in 1 .. n - 1 : ~About(t[l], h)
      BY <1>0, <2>1, <2>2
    <3> QED  BY <3>1 DEF After, t
  <2>3. CASE k # 1
    <3>1. k - 1 \in 1 .. n - 1 /\ t[k - 1] = s[k]
      BY <1>0, <2>3
    <3>2. \A l \in (k - 1) + 1 .. n - 1 : ~About(t[l], h)
      <4> TAKE l \in (k - 1) + 1 .. n - 1
      <4>1. l \in 1 .. n - 1 /\ l + 1 \in k + 1 .. n
        BY <1>0, <3>1
      <4> QED  BY <1>0, <2>1, <4>1
    <3> QED  BY <2>1, <3>1, <3>2 DEF After, t
  <2> QED  BY <2>2, <2>3
<1> QED  BY <1>1, <1>2 DEF After

\* A message that is added changes nothing of what the ones before it tell.
LEMMA Appended ==
  ASSUME NEW s \in Seq(Answers), NEW m \in Answers, NEW n \in 0 .. Len(s), NEW h
  PROVE  /\ \A d, x : Knows(d, s, h, n, x) => Knows(d, Append(s, m), h, n, x)
         /\ After(s, h, n) => After(Append(s, m), h, n)
<1>1. \A j \in 1 .. n : Append(s, m)[j] = s[j]
  OBVIOUS
<1>2. \A j \in 1 .. n : \A l \in j + 1 .. n : l \in 1 .. n
  OBVIOUS
<1> DEFINE t == Append(s, m)
<1> HIDE DEF t
<1>3. \A j \in 1 .. n : t[j] = s[j]
  BY <1>1 DEF t
<1>4. \A d, x : Knows(d, s, h, n, x) => Knows(d, t, h, n, x)
  BY <1>2, <1>3 DEF Knows
<1>5. After(s, h, n) => After(t, h, n)
  BY <1>2, <1>3 DEF After
<1> QED  BY <1>4, <1>5 DEF t

LEMMA AppendedLast ==
  ASSUME NEW s \in Seq(Answers), NEW m \in Answers, NEW h
  PROVE  /\ ~About(m, h) => /\ \A d, x : Knows(d, s, h, Len(s), x) => Knows(d, Append(s, m), h, Len(s) + 1, x)
                            /\ After(s, h, Len(s)) => After(Append(s, m), h, Len(s) + 1)
         /\ About(m, h) => \A d : Knows(d, Append(s, m), h, Len(s) + 1, NewDevice(m))
         /\ m.idx = "connect_direct" => After(Append(s, m), h, Len(s) + 1)
<1> DEFINE t == Append(s, m)
           n == Len(s)
<1>1. n \in Nat /\ n + 1 \in 1 .. n + 1 /\ t[n + 1] = m /\ (\A j \in 1 .. n : t[j] = s[j])
  OBVIOUS
<1>2. /\ \A j \in 1 .. n + 1 : j \in 1 .. n \/ j = n + 1
      /\ \A j \in 1 .. n : j \in 1 .. n + 1 /\ \A l \in j + 1 .. n + 1 : l \in j + 1 .. n \/ l = n + 1
      /\ \A j \in 1 .. n : \A l \in j + 1 .. n : l \in 1 .. n
      /\ (n + 1) + 1 .. n + 1 = {}
  BY <1>1
<1> HIDE DEF t, n
<1>3. ASSUME ~About(m, h), NEW d, NEW x, Knows(d, s, h, n, x) PROVE Knows(d, t, h, n + 1, x)
  <2>1. CASE x = d /\ \A j \in 1 .. n : ~About(s[j], h)
    <3>1. \A j \in 1 .. n + 1 : ~About(t[j], h)
      BY <1>1, <1>2, <1>3, <2>1
    <3> QED  BY <2>1, <3>1 DEF Knows
  <2>2. CASE \E j \in 1 .. n : /\ About(s[j], h) /\ x = NewDevice(s[j])
                               /\ \A l \in j + 1 .. n : ~About(s[l], h)
    <3>1. PICK j \in 1 .. n : /\ About(s[j], h) /\ x = NewDevice(s[j])
                              /\ \A l \in j + 1 .. n : ~About(s[l], h)
      BY <2>2
    <3>2. \A l \in j + 1 .. n + 1 : ~About(t[l], h)
      BY <1>1, <1>2, <1>3, <3>1
    <3> QED  BY <1>1, <1>2, <3>1, <3>2 DEF Knows
  <2> QED  BY <1>3, <2>1, <2>2 DEF Knows
<1>4. ASSUME ~About(m, h), After(s, h, n) PROVE After(t, h, n + 1)
  <2>1. CASE \A j \in 1 .. n : ~About(s[j], h)
    <3>1. \A j \in 1 .. n + 1 : ~About(t[j], h)
      BY <1>1, <1>2, <1>4, <2>1
    <3> QED  BY <3>1 DEF After
  <2>2. CASE \E k \in 1 .. n : s[k].idx = "connect_direct" /\ \A l \in k + 1 .. n : ~About(s[l], h)
    <3>1. PICK k \in 1 .. n : s[k].idx = "connect_direct" /\ \A l \in k + 1 .. n : ~About(s[l], h)
      BY <2>2
    <3>2. \A l \in k + 1 .. n + 1 : ~About(t[l], h)
      BY <1>1, <1>2, <1>4, <3>1
    <3> QED  BY <1>1, <1>2, <3>1, <3>2 DEF After
  <2> QED  BY <1>4, <2>1, <2>2 DEF After
<1>5. ASSUME About(m, h), NEW d PROVE Knows(d, t, h, n + 1, NewDevice(m))
  BY <1>1, <1>2, <1>5 DEF Knows
<1>6. ASSUME m.idx = "connect_direct" PROVE After(t, h, n + 1)
  BY <1>1, <1>2, <1>6 DEF After
<1> QED  BY <1>3, <1>4, <1>5, <1>6 DEF t, n

-----------------------------------------------------------------------------
\* What news there is.
LEMMA StatusNews ==
  ASSUME NEW h, NEW address, NEW flags \in {5, 9}
  PROVE  LET m == StatusMsg(h, address, flags) IN
         /\ m.idx = "status" /\ Read(m).connection = h /\ Read(m).address = address /\ Read(m).flags = flags
         /\ \A g : About(m, g) <=> g = h
         /\ NewDevice(m) = address
<1> DEFINE m == StatusMsg(h, address, flags)
<1>1. m.idx = "status"
  BY DEF StatusMsg, Message
<1>2. Read(m).address = address /\ Read(m).connection = h /\ Read(m).flags = flags
  BY <1>1, StatusRead DEF StatusMsg, Read
<1> HIDE DEF m
<1> QED  BY <1>1, <1>2 DEF m, About, NewDevice

LEMMA GoneNews ==
  ASSUME NEW h, NEW reason
  PROVE  LET m == GoneMsg(h, reason) IN
         /\ m.idx = "disconnected" /\ Read(m).connection = h
         /\ \A g : About(m, g) <=> g = h
         /\ NewDevice(m) = Nobody
<1> DEFINE m == GoneMsg(h, reason)
<1>1. m.idx = "disconnected"
  BY DEF GoneMsg, Message
<1>2. Read(m).connection = h
  BY <1>1, DisconnectedRead DEF GoneMsg, Read
<1> HIDE DEF m
<1> QED  BY <1>1, <1>2 DEF m, About, NewDevice

LEMMA NewsIs ==
  ASSUME NEW m \in Answers
  PROVE  /\ m.idx = "status" => \E h \in Handle, address \in Bytes, flags \in {5, 9} : m = StatusMsg(h, address, flags)
         /\ m.idx = "disconnected" => \E h \in Handle, reason \in {520, 534} : m = GoneMsg(h, reason)
<1>1. CASE m \in Responses
  <2>1. /\ \A d, r : SimpleRsp(d, r).idx = d
        /\ \A d, g, r : LinkRsp(d, g, r).idx = d
        /\ \A g, r : ConnectRsp(g, r).idx = "connect_direct"
        /\ MaxConnectionsRsp.idx = "get_connections" /\ InfoRsp.idx = "get_info"
    BY DEF SimpleRsp, LinkRsp, ConnectRsp, MaxConnectionsRsp, InfoRsp, Message
  <2>2. m.idx \in Simply \cup LinkCommands \cup {"connect_direct", "get_connections", "get_info"}
    BY <1>1, <2>1 DEF Responses
  <2> QED  BY <2>2 DEF Simply, LinkCommands
<1>2. CASE m \in Findings
  BY <1>2, FindingsRead
<1>3. CASE m \in Events
  <2>1. CASE \E h \in Handle, address \in Bytes, flags \in {5, 9} : m = StatusMsg(h, address, flags)
    <3>1. m.idx = "status"
      BY <2>1 DEF StatusMsg, Message
    <3> QED  BY <2>1, <3>1
  <2>2. CASE \E h \in Handle, reason \in {520, 534} : m = GoneMsg(h, reason)
    <3>1. m.idx = "disconnected"
      BY <2>2 DEF GoneMsg, Message
    <3> QED  BY <2>2, <3>1
  <2>3. CASE \E h \in Handle : m = ValueMsg(h) \/ \E result : m = CompletedMsg(h, result)
    BY <2>3 DEF ValueMsg, CompletedMsg, Message
  <2> QED  BY <1>3, <2>1, <2>2, <2>3 DEF Events
<1> QED  BY <1>1, <1>2, <1>3 DEF Answers

\* The driver's devices after a message.
LEMMA DevicesTold ==
  ASSUME NEW m \in Answers, connectedDevices \in [Handle -> Bytes], NEW h \in Handle
  PROVE  /\ DevicesOf(m)[h] = IF About(m, h) THEN NewDevice(m) ELSE connectedDevices[h]
         /\ About(m, h) => m.idx # "connect_direct"
<1>0. About(m, h) => m.idx # "connect_direct"
  BY DEF About
<1>1. CASE m.idx = "status"
  <2>1. PICK g \in Handle, address \in Bytes, flags \in {5, 9} : m = StatusMsg(g, address, flags)
    BY <1>1, NewsIs
  <2>2. DevicesOf(m) = [connectedDevices EXCEPT ![g] = address] /\ NewDevice(m) = address /\ (About(m, h) <=> h = g)
    BY <2>1, StatusMsgRead, StatusNews
  <2> QED  BY <1>0, <2>2
<1>2. CASE m.idx = "disconnected"
  <2>1. PICK g \in Handle, reason \in {520, 534} : m = GoneMsg(g, reason)
    BY <1>2, NewsIs
  <2>2. DevicesOf(m) = [connectedDevices EXCEPT ![g] = Nobody] /\ NewDevice(m) = Nobody /\ (About(m, h) <=> h = g)
    BY <2>1, GoneMsgRead, GoneNews
  <2> QED  BY <1>0, <2>2
<1>3. CASE m.idx \notin {"status", "disconnected"}
  <2>1. DevicesOf(m) = connectedDevices
    BY <1>3, SMT DEF DevicesOf, DevicesAfter
  <2> QED  BY <1>0, <1>3, <2>1 DEF About
<1> QED  BY <1>1, <1>2, <1>3

\* What the dongle has on a link is what the driver will know when it has read everything; a
\* status under way tells of a link that is new, or of the device that is on it.
LinksTold == \A h \in Handle : Knows(connectedDevices[h], toDriver, h, Len(toDriver), links[h])
StatusFits(devices, s, i) ==
  LET a == Read(s[i])
      d == devices[a.connection]
  IN  /\ a.address # Nobody
      /\ a.flags = 5 => Knows(d, s, a.connection, i - 1, Nobody) /\ After(s, a.connection, i - 1)
      /\ a.flags # 5 => Knows(d, s, a.connection, i - 1, a.address)
StatusesFit == \A i \in DOMAIN toDriver : toDriver[i].idx = "status" => StatusFits(connectedDevices, toDriver, i)
\* A procedure is about the device on its link; a connection gets a link that has none.
ProcedureLinked ==
  /\ procedure.cmd \in LinkCommands => links[procedure.ch] = procedure.device /\ procedure.device # Nobody
  /\ procedure.cmd = "connect_direct" => /\ links[procedure.ch] = Nobody /\ procedure.device # Nobody
                                         /\ After(toDriver, procedure.ch, Len(toDriver))
LinkInv == LinksTold /\ StatusesFit /\ ProcedureLinked

LEMMA LinkInit == Init => LinkInv
<1> SUFFICES ASSUME Init PROVE LinkInv
  OBVIOUS
<1>1. toDriver = <<>> /\ procedure.cmd = "none"
  BY DEF Init, Idle
<1>2. Len(toDriver) = 0 /\ DOMAIN toDriver = {} /\ 1 .. 0 = {}
  BY <1>1
<1>3. \A h \in Handle : connectedDevices[h] = links[h]
  BY DEF Init
<1>4. "none" \notin LinkCommands
  BY DEF LinkCommands
<1> QED  BY <1>1, <1>2, <1>3, <1>4 DEF LinkInv, LinksTold, StatusesFit, ProcedureLinked, Knows

\* News from the dongle, true when it is sent.
LEMMA TellsLinks ==
  ASSUME PathInv, LinkInv, connectedDevices' = connectedDevices,
         NEW m \in Answers, toDriver' = Append(toDriver, m),
         \A h \in Handle : links'[h] = IF About(m, h) THEN NewDevice(m) ELSE links[h],
         m.idx = "status" =>
           LET a == Read(m) IN
           /\ a.address # Nobody /\ a.connection \in Handle
           /\ a.flags = 5 => links[a.connection] = Nobody /\ After(toDriver, a.connection, Len(toDriver))
           /\ a.flags # 5 => links[a.connection] = a.address
  PROVE  LinksTold' /\ StatusesFit'
<1> DEFINE s == toDriver
           t == Append(s, m)
<1>1. s \in Seq(Answers) /\ t \in Seq(Answers) /\ Len(t) = Len(s) + 1 /\ Len(s) \in Nat /\ DOMAIN t = 1 .. Len(s) + 1
      /\ DOMAIN s = 1 .. Len(s) /\ t[Len(s) + 1] = m /\ \A i \in 1 .. Len(s) : t[i] = s[i]
  BY DEF PathInv, TrafficFits
<1>2. LinksTold'
  <2> SUFFICES ASSUME NEW h \in Handle PROVE Knows(connectedDevices[h], t, h, Len(s) + 1, links'[h])
    BY <1>1 DEF LinksTold
  <2>1. Knows(connectedDevices[h], s, h, Len(s), links[h])
    BY DEF LinkInv, LinksTold
  <2> QED  BY <1>1, <2>1, AppendedLast
<1>3. StatusesFit'
  <2> SUFFICES ASSUME NEW i \in DOMAIN t, t[i].idx = "status" PROVE StatusFits(connectedDevices, t, i)
    BY DEF StatusesFit
  <2> DEFINE a == Read(t[i])
             d == connectedDevices[a.connection]
             n == i - 1
  <2>1. n \in 0 .. Len(s)
    BY <1>1
  <2>2. /\ a.address # Nobody
        /\ a.flags = 5 => Knows(d, s, a.connection, n, Nobody) /\ After(s, a.connection, n)
        /\ a.flags # 5 => Knows(d, s, a.connection, n, a.address)
    <3>1. CASE i \in 1 .. Len(s)
      <4>1. StatusFits(connectedDevices, s, i) /\ t[i] = s[i]
        BY <1>1, <3>1 DEF LinkInv, StatusesFit
      <4> QED  BY <4>1 DEF StatusFits
    <3>2. CASE i = Len(s) + 1
      <4>1. t[i] = m /\ n = Len(s)
        BY <1>1, <3>2
      <4>2. \A h \in Handle : Knows(connectedDevices[h], s, h, Len(s), links[h])
        BY DEF LinkInv, LinksTold
      <4> HIDE DEF t, n
      <4> QED  BY <4>1, <4>2
    <3> QED  BY <1>1, <3>1, <3>2
  <2>3. /\ \A x : Knows(d, s, a.connection, n, x) => Knows(d, t, a.connection, n, x)
        /\ After(s, a.connection, n) => After(t, a.connection, n)
    <3> HIDE DEF n, a, d
    <3> QED  BY <1>1, <2>1, Appended
  <2> QED  BY <2>2, <2>3 DEF StatusFits
<1> QED  BY <1>2, <1>3

LEMMA ReceivesLinks ==
  ASSUME PathInv, LinkInv, DriverReceives
  PROVE  LinkInv'
<1> DEFINE s == toDriver
           t == Tail(s)
           m == Head(s)
<1>1. s \in Seq(Answers) /\ s # <<>> /\ toDriver' = t /\ links' = links /\ procedure' = procedure
      /\ connectedDevices \in [Handle -> Bytes] /\ connectedDevices' = DevicesOf(m)
  BY DEF DriverReceives, PathInv, TrafficFits, DevicesFit, dongle, DevicesOf, Read
<1>2. m = s[1] /\ m \in Answers /\ Len(s) \in Nat /\ Len(s) >= 1 /\ Len(s) \in 1 .. Len(s) /\ Len(t) = Len(s) - 1
      /\ DOMAIN t = 1 .. Len(s) - 1 /\ \A i \in 1 .. Len(s) - 1 : t[i] = s[i + 1] /\ i + 1 \in 1 .. Len(s) /\ i \in 1 .. Len(s)
                                                                  /\ (i + 1) - 1 = i
  BY <1>1
<1>3. \A h \in Handle : connectedDevices'[h] = IF About(s[1], h) THEN NewDevice(s[1]) ELSE connectedDevices[h]
  BY <1>1, <1>2, DevicesTold
<1>4. LinksTold'
  <2> SUFFICES ASSUME NEW h \in Handle PROVE Knows(connectedDevices'[h], t, h, Len(t), links[h])
    BY <1>1 DEF LinksTold
  <2>1. Knows(connectedDevices[h], s, h, Len(s), links[h])
    BY DEF LinkInv, LinksTold
  <2> HIDE DEF m
  <2> QED  BY <1>1, <1>2, <1>3, <2>1, KnowsRead, ZenonT(60)
<1>5. StatusesFit'
  <2> SUFFICES ASSUME NEW i \in DOMAIN t, t[i].idx = "status" PROVE StatusFits(connectedDevices', t, i)
    BY <1>1 DEF StatusesFit
  <2> DEFINE a == Read(t[i])
             h == a.connection
             d == connectedDevices[h]
  <2>1. t[i] = s[i + 1] /\ i + 1 \in 1 .. Len(s) /\ i \in 1 .. Len(s) /\ (i + 1) - 1 = i
    BY <1>2
  <2>2. h \in Handle
    <3>1. \E g \in Handle, address \in Bytes, flags \in {5, 9} : t[i] = StatusMsg(g, address, flags)
      BY <1>1, <2>1, NewsIs
    <3> QED  BY <3>1, StatusNews
  <2>3. StatusFits(connectedDevices, s, i + 1)
    BY <1>1, <2>1 DEF LinkInv, StatusesFit
  <2>4. /\ a.address # Nobody
        /\ a.flags = 5 => Knows(d, s, h, i, Nobody) /\ After(s, h, i)
        /\ a.flags # 5 => Knows(d, s, h, i, a.address)
    BY <2>1, <2>3 DEF StatusFits
  <2> HIDE DEF a, d, m
  <2>5. /\ a.address # Nobody
        /\ a.flags = 5 => Knows(connectedDevices'[h], t, h, i - 1, Nobody) /\ After(t, h, i - 1)
        /\ a.flags # 5 => Knows(connectedDevices'[h], t, h, i - 1, a.address)
    <3>1. \A x : Knows(d, s, h, i, x) => Knows(connectedDevices'[h], t, h, i - 1, x)
      BY <1>1, <1>3, <2>1, <2>2, KnowsRead DEF d
    <3>2. After(s, h, i) => After(t, h, i - 1)
      BY <1>1, <2>1, AfterRead
    <3> QED  BY <2>4, <3>1, <3>2
  <2> QED  BY <2>5 DEF StatusFits, a
<1>6. ProcedureLinked'
  <2>1. After(s, procedure.ch, Len(s)) => After(t, procedure.ch, Len(t))
    <3> HIDE DEF m
    <3> QED  BY <1>1, <1>2, AfterRead
  <2> QED  BY <1>1, <2>1 DEF LinkInv, ProcedureLinked
<1> QED  BY <1>4, <1>5, <1>6 DEF LinkInv

\* Nothing of it moves.
LEMMA LinksStand ==
  ASSUME LinkInv, UNCHANGED <<connectedDevices, toDriver, links, procedure>>
  PROVE  LinkInv'
BY DEF LinkInv, LinksTold, StatusesFit, ProcedureLinked

LEMMA NotNews ==
  /\ \A m : m.idx \in Commanded => \A h : ~About(m, h)
  /\ \A h, g, result : ~About(CompletedMsg(h, result), g)
  /\ \A h, g : ~About(ValueMsg(h), g) /\ ~About(GroupFoundMsg(h), g) /\ ~About(InfoFoundMsg(h), g)
  /\ \A g : ~About(FoundMsg, g)
  /\ \A h, result : CompletedMsg(h, result).idx # "status"
  /\ \A h : ValueMsg(h).idx # "status" /\ GroupFoundMsg(h).idx # "status" /\ InfoFoundMsg(h).idx # "status"
  /\ FoundMsg.idx # "status" /\ "status" \notin Commanded
<1>1. {"status", "disconnected"} \cap Commanded = {}
  BY DEF Commanded, Simply, LinkCommands
<1> QED  BY <1>1 DEF About, CompletedMsg, ValueMsg, GroupFoundMsg, InfoFoundMsg, FoundMsg, Message

LEMMA Added ==
  ASSUME PathInv, PathInv', NEW m, toDriver' = Append(toDriver, m)
  PROVE  m \in Answers
<1>1. toDriver \in Seq(Answers) /\ toDriver' \in Seq(Answers)
  BY DEF PathInv, TrafficFits
<1>2. Len(toDriver') = Len(toDriver) + 1 /\ toDriver'[Len(toDriver) + 1] = m /\ Len(toDriver) \in Nat
  BY <1>1
<1> QED  BY <1>1, <1>2

\* Where nothing is said of links, they stay.
LEMMA NoNewsLinks ==
  ASSUME PathInv, PathInv', LinkInv, connectedDevices' = connectedDevices, links' = links,
         NEW m, toDriver' = Append(toDriver, m), m.idx # "status", \A h : ~About(m, h)
  PROVE  /\ LinksTold' /\ StatusesFit'
         /\ \A h : After(toDriver, h, Len(toDriver)) => After(toDriver', h, Len(toDriver'))
<1>1. m \in Answers
  BY Added
<1>2. LinksTold' /\ StatusesFit'
  BY <1>1, TellsLinks
<1>3. toDriver \in Seq(Answers) /\ Len(toDriver') = Len(toDriver) + 1
  BY DEF PathInv, TrafficFits
<1>4. \A h : After(toDriver, h, Len(toDriver)) => After(toDriver', h, Len(toDriver'))
  BY <1>1, <1>3, AppendedLast
<1> QED  BY <1>2, <1>4

\* What a connection is asked for.
LEMMA ConnectAsks ==
  ASSUME PathInv, NEW m, OurMsg(m), m.idx = "connect_direct"
  PROVE  call.op = "connect" /\ request \in Requests /\ Args(m).address = Device /\ Device # Nobody
<1>1. call.op = "connect" /\ m = Sent("connect_direct")
  BY SentIdx DEF OurMsg, SentBy, Sends
<1>2. request \in Requests /\ CallFits
  BY <1>1, NothingIsWellTyped DEF PathInv, StageFits
<1>3. Len(request.path) >= 2 /\ IsValidMAC(request.path[2])
  BY <1>1, <1>2 DEF CallFits, DeviceOps
<1>4. Device = <<request.path[2].n % 256, request.path[2].n \div 256>>
  BY <1>2, <1>3, PathTokens
<1>5. \A x, y : <<x, y>> # <<>>
  OBVIOUS
<1>6. Device # Nobody
  <2> HIDE DEF Device
  <2> QED  BY <1>4, <1>5 DEF Nobody
<1> QED  BY <1>1, <1>2, <1>6, SentCalled

LEMMA ClientLinks ==
  ASSUME PathInv, PathInv', OursInv, LinkInv, ClientExecutes
  PROVE  LinkInv'
<1>1. PICK m \in CommandMessages :
        \E result \in ResultsOf(m.idx, Args(m)) : ClientCall(m, result, Subject(m.idx, Args(m)))
  BY ClientCalls1 DEF PathInv, TrafficFits
<1>2. PICK result \in ResultsOf(m.idx, Args(m)) : ClientCall(m, result, Subject(m.idx, Args(m)))
  BY <1>1
<1> DEFINE h == Subject(m.idx, Args(m))
           rsp == Rsp(m.idx, h, result)
<1>3. UNCHANGED <<gateway, links>> /\ toClient \in Seq(CommandMessages) /\ toDriver \in Seq(Answers)
  BY DEF ClientExecutes, PathInv, TrafficFits
<1>4. /\ m.idx \in Commanded
      /\ m.idx \in LinkCommands /\ result = 0 => links[h] # Nobody
      /\ m.idx = "connect_direct" /\ result = 0 => h \in Free
  BY ResultsAre
<1>5. rsp.idx = m.idx /\ rsp.idx # "status" /\ (\A g : ~About(rsp, g)) /\ toDriver' = Append(toDriver, rsp)
      /\ procedure' = IF result = 0 THEN ProcedureAfter(m.idx, Args(m), h) ELSE procedure
  <2>1. rsp.idx = m.idx /\ rsp.idx # "status" /\ \A g : ~About(rsp, g)
    BY <1>4, ResponsePacked, NotNews
  <2>2. toDriver' = Append(toDriver, rsp) /\ procedure' = IF result = 0 THEN ProcedureAfter(m.idx, Args(m), h) ELSE procedure
    BY <1>2 DEF ClientCall
  <2> QED  BY <2>1, <2>2
<1>6. OurMsg(m)
  <2>1. m = toClient[1] /\ 1 \in DOMAIN toClient
    BY <1>2, <1>3 DEF ClientCall
  <2> QED  BY <2>1 DEF OursInv, AllOurs
<1> HIDE DEF rsp, h
<1>7. /\ LinksTold' /\ StatusesFit'
      /\ \A g : After(toDriver, g, Len(toDriver)) => After(toDriver', g, Len(toDriver'))
  BY <1>3, <1>5, NoNewsLinks DEF gateway
<1>8. ProcedureLinked'
  <2>1. CASE result = 0 /\ m.idx = "connect_direct"
    <3>1. procedure' = [cmd |-> "connect_direct", ch |-> h, device |-> Args(m).address]
      BY <1>5, <2>1, ProcedureAfterIs
    <3>2. After(toDriver', h, Len(toDriver'))
      <4>1. rsp \in Answers /\ Len(toDriver') = Len(toDriver) + 1
        BY <1>3, <1>5, Added
      <4> QED  BY <1>3, <1>5, <2>1, <4>1, AppendedLast
    <3>3. Args(m).address # Nobody
      BY <1>6, <2>1, ConnectAsks
    <3>4. links'[h] = Nobody
      BY <1>3, <1>4, <2>1 DEF Free
    <3> QED  BY <3>1, <3>2, <3>3, <3>4 DEF ProcedureLinked, LinkCommands
  <2>2. CASE result = 0 /\ m.idx \in LinkCommands
    <3>1. procedure' = [cmd |-> m.idx, ch |-> h, device |-> links[h]]
      BY <1>5, <2>2, ProcedureAfterIs
    <3> QED  BY <1>3, <1>4, <2>2, <3>1 DEF ProcedureLinked, LinkCommands
  <2>3. CASE result = 0 /\ m.idx \in {"discover", "end_procedure"}
    <3>1. procedure'.cmd \in {"discover", "none"}
      BY <1>5, <2>3, ProcedureAfterIs DEF Idle
    <3> QED  BY <3>1 DEF ProcedureLinked, LinkCommands
  <2>4. CASE result # 0 \/ m.idx \in {"get_info", "get_connections", "set_scan_parameters"}
    <3>1. procedure' = procedure
      BY <1>5, <2>4, ProcedureAfterIs
    <3> QED  BY <1>3, <1>7, <3>1 DEF LinkInv, ProcedureLinked
  <2> QED  BY <1>4, <2>1, <2>2, <2>3, <2>4 DEF Commanded, Simply
<1> QED  BY <1>7, <1>8 DEF LinkInv

LEMMA IdleLinked == procedure' = Idle => ProcedureLinked'
BY DEF Idle, ProcedureLinked, LinkCommands

LEMMA SucceedsLinks ==
  ASSUME PathInv, PathInv', LinkInv, ProcedureSucceeds
  PROVE  LinkInv'
<1> DEFINE c == procedure.cmd
           h == procedure.ch
           device == procedure.device
           m == Success(c, h, device)
<1>1. /\ c \in Lasting /\ toDriver' = Append(toDriver, m) /\ procedure' = Idle
      /\ links' = IF c = "connect_direct" THEN [links EXCEPT ![h] = device]
                  ELSE IF c = "disconnect" THEN [links EXCEPT ![h] = Nobody] ELSE links
      /\ connectedDevices' = connectedDevices
  BY Succeeds DEF ProcedureSucceeds, gateway
<1>2. h \in Handle /\ links \in [Handle -> Bytes]
  BY <1>1, LastingRuns DEF PathInv, DevicesFit
<1>3. /\ c \in LinkCommands => links[h] = device /\ device # Nobody
      /\ c = "connect_direct" => links[h] = Nobody /\ device # Nobody /\ After(toDriver, h, Len(toDriver))
  BY DEF LinkInv, ProcedureLinked
<1> HIDE DEF m, c, h, device
<1>4. m \in Answers
  BY <1>1, Added
<1>5. LinksTold' /\ StatusesFit'
  <2>1. CASE c = "connect_direct"
    <3>1. m = StatusMsg(h, device, 5)
      BY <2>1, SuccessIs DEF m
    <3>2. /\ m.idx = "status" /\ Read(m).connection = h /\ Read(m).address = device /\ Read(m).flags = 5
          /\ (\A g : About(m, g) <=> g = h) /\ NewDevice(m) = device
      BY <3>1, StatusNews
    <3>3. \A g \in Handle : links'[g] = IF About(m, g) THEN NewDevice(m) ELSE links[g]
      BY <1>1, <1>2, <2>1, <3>2
    <3> QED  BY <1>1, <1>2, <1>3, <1>4, <2>1, <3>2, <3>3, TellsLinks
  <2>2. CASE c = "update"
    <3>1. m = StatusMsg(h, device, 9)
      BY <2>2, SuccessIs DEF m
    <3>2. /\ m.idx = "status" /\ Read(m).connection = h /\ Read(m).address = device /\ Read(m).flags = 9
          /\ (\A g : About(m, g) <=> g = h) /\ NewDevice(m) = device
      BY <3>1, StatusNews
    <3>3. links[h] = device /\ device # Nobody /\ links' = links
      BY <1>1, <1>3, <2>2 DEF LinkCommands
    <3>4. \A g \in Handle : links'[g] = IF About(m, g) THEN NewDevice(m) ELSE links[g]
      BY <3>2, <3>3
    <3> QED  BY <1>1, <1>2, <1>4, <3>2, <3>3, <3>4, TellsLinks
  <2>3. CASE c = "disconnect"
    <3>1. m = GoneMsg(h, 534)
      BY <2>3, SuccessIs DEF m
    <3>2. m.idx = "disconnected" /\ (\A g : About(m, g) <=> g = h) /\ NewDevice(m) = Nobody
      <4>1. PICK n : n = 534
        OBVIOUS
      <4> QED  BY <3>1, <4>1, GoneNews
    <3>3. \A g \in Handle : links'[g] = IF About(m, g) THEN NewDevice(m) ELSE links[g]
      BY <1>1, <1>2, <2>3, <3>2
    <3> QED  BY <1>1, <1>4, <3>2, <3>3, TellsLinks
  <2>4. CASE c = "read_by_handle" \/ c \in Completing
    <3>1. m = ValueMsg(h) \/ m = CompletedMsg(h, 0)
      BY <2>4, SuccessIs DEF m
    <3>2. m.idx # "status" /\ \A g : ~About(m, g)
      BY <3>1, NotNews
    <3>3. links' = links
      BY <1>1, <2>4 DEF Completing
    <3> QED  BY <1>1, <3>2, <3>3, NoNewsLinks
  <2> QED  BY <1>1, <2>1, <2>2, <2>3, <2>4 DEF Lasting, LinkCommands, Completing
<1> QED  BY <1>1, <1>5, IdleLinked DEF LinkInv

LEMMA FailsLinks ==
  ASSUME PathInv, PathInv', LinkInv, ProcedureFails
  PROVE  LinkInv'
<1>1. UNCHANGED <<connectedDevices, links>> /\ procedure' = Idle
  BY DEF ProcedureFails, gateway
<1>2. \E m : toDriver' = Append(toDriver, m) /\ m.idx # "status" /\ \A h : ~About(m, h)
  BY Fails, NotNews
<1> QED  BY <1>1, <1>2, NoNewsLinks, IdleLinked DEF LinkInv

LEMMA FindsLinks ==
  ASSUME PathInv, PathInv', LinkInv, ProcedureFinds
  PROVE  LinkInv'
<1>1. UNCHANGED <<connectedDevices, links, procedure>>
  BY DEF ProcedureFinds, gateway, dongle
<1>2. \E m : toDriver' = Append(toDriver, m) /\ m.idx # "status" /\ \A h : ~About(m, h)
  BY FindsIs, NotNews
<1>3. /\ LinksTold' /\ StatusesFit'
      /\ \A h : After(toDriver, h, Len(toDriver)) => After(toDriver', h, Len(toDriver'))
  BY <1>1, <1>2, NoNewsLinks
<1>4. ProcedureLinked'
  BY <1>1, <1>3 DEF LinkInv, ProcedureLinked
<1> QED  BY <1>3, <1>4 DEF LinkInv

LEMMA LostLinks ==
  ASSUME PathInv, PathInv', LinkInv, LinkLost
  PROVE  LinkInv'
<1>0. connectedDevices' = connectedDevices
  BY DEF LinkLost, gateway
<1>1. PICK h \in Handle \ Free :
            /\ links' = [links EXCEPT ![h] = Nobody]
            /\ procedure' = IF procedure.cmd \in LinkCommands /\ procedure.ch = h THEN Idle ELSE procedure
            /\ toDriver' = Append(toDriver, GoneMsg(h, 520))
  BY Loses
<1> DEFINE m == GoneMsg(h, 520)
<1>2. m.idx = "disconnected" /\ (\A g : About(m, g) <=> g = h) /\ NewDevice(m) = Nobody
  <2>1. PICK n : n = 520
    OBVIOUS
  <2>2. m = GoneMsg(h, n)
    BY <2>1
  <2> HIDE DEF m
  <2> QED  BY <2>2, GoneNews
<1>3. toDriver' = Append(toDriver, m) /\ links \in [Handle -> Bytes] /\ toDriver \in Seq(Answers) /\ links[h] # Nobody
  BY <1>1 DEF PathInv, DevicesFit, TrafficFits, Free
<1> HIDE DEF m
<1>4. m \in Answers
  BY <1>3, Added
<1>5. \A g \in Handle : links'[g] = IF About(m, g) THEN NewDevice(m) ELSE links[g]
  BY <1>1, <1>2, <1>3
<1>6. LinksTold' /\ StatusesFit'
  BY <1>0, <1>2, <1>3, <1>4, <1>5, TellsLinks
<1>7. ProcedureLinked'
  <2>1. CASE procedure' = Idle
    BY <2>1, IdleLinked
  <2>2. CASE procedure' = procedure /\ ~(procedure.cmd \in LinkCommands /\ procedure.ch = h)
    <3> DEFINE g == procedure.ch
    <3>1. procedure.cmd \in Lasting => g \in Handle
      BY LastingRuns
    <3>2. procedure.cmd \in Lasting => g # h
      <4>1. procedure.cmd = "connect_direct" => links[g] = Nobody
        BY DEF LinkInv, ProcedureLinked
      <4> QED  BY <1>3, <2>2, <4>1 DEF Lasting
    <3> HIDE DEF g
    <3>3. procedure.cmd \in Lasting => links'[g] = links[g] /\ ~About(m, g)
      BY <1>1, <1>2, <1>3, <3>1, <3>2
    <3>4. procedure.cmd \in Lasting /\ After(toDriver, g, Len(toDriver)) => After(toDriver', g, Len(toDriver'))
      <4>1. Len(toDriver') = Len(toDriver) + 1
        BY <1>3
      <4> QED  BY <1>3, <1>4, <3>3, <4>1, AppendedLast
    <3> QED  BY <2>2, <3>3, <3>4 DEF LinkInv, ProcedureLinked, Lasting, g
  <2> QED  BY <1>1, <2>1, <2>2
<1> QED  BY <1>6, <1>7 DEF LinkInv

LEMMA LinkNext == PathInv /\ PathInv' /\ OursInv /\ LinkInv /\ [Next]_vars => LinkInv'
<1> SUFFICES ASSUME PathInv, PathInv', OursInv, LinkInv, [Next]_vars PROVE LinkInv'
  OBVIOUS
<1>1. CASE DriverReceives
  BY <1>1, ReceivesLinks
<1>2. CASE ClientExecutes
  BY <1>2, ClientLinks
<1>3. CASE ProcedureSucceeds \/ ProcedureFails \/ ProcedureFinds \/ LinkLost
  BY <1>3, SucceedsLinks, FailsLinks, FindsLinks, LostLinks
<1>4. CASE UNCHANGED vars
  BY <1>4, LinksStand DEF vars, gateway, dongle
<1>5. CASE Arrive \/ FCGIWorker \/ FinishRequest \/ ExecuteWorkRequest \/ SendStep \/ WaitRunsOut \/ ScanEnds
  BY <1>5, LinksStand DEF Arrive, FCGIWorker, FinishRequest, ExecuteWorkRequest, SendStep, WaitRunsOut, ScanEnds, dongle
<1> QED  BY <1>1, <1>2, <1>3, <1>4, <1>5 DEF Next

-----------------------------------------------------------------------------
(* While a command works on a connection, no other device comes to it.     *)

Held(devices, linked, s, proc, h, x) ==
  /\ devices[h] \in {x, Nobody} /\ linked[h] \in {x, Nobody}
  /\ \A i \in DOMAIN s : s[i].idx = "status" /\ Read(s[i]).connection = h => Read(s[i]).address = x
  /\ proc.cmd = "connect_direct" => proc.ch # h
OnDeviceInv == OnConnection(call.op) => Held(connectedDevices, links, toDriver, procedure, call.handle, Device)

\* A command is begun on the connection on which the driver has the device; nothing that it does
\* not know yet brings another one.
LEMMA HeldBegins ==
  ASSUME PathInv, LinkInv, Pending = {}, NEW h \in Handle, NEW x, connectedDevices[h] = x, x # Nobody
  PROVE  Held(connectedDevices, links, toDriver, procedure, h, x)
<1> DEFINE s == toDriver
           n == Len(s)
<1>1. s \in Seq(Answers) /\ n \in Nat /\ DOMAIN s = 1 .. n
  BY DEF PathInv, TrafficFits
<1>2. \A i \in 1 .. n : s[i].idx # "connect_direct"
  BY <1>1, AwaitedAre DEF Pending
<1> HIDE DEF s, n
<1>3. \A k \in 0 .. n : After(s, h, k) => \A j \in 1 .. k : ~About(s[j], h)
  <2> SUFFICES ASSUME NEW k \in 0 .. n, NEW l \in 1 .. k, s[l].idx = "connect_direct" PROVE FALSE
    BY DEF After
  <2>1. l \in 1 .. n
    BY <1>1
  <2> QED  BY <1>2, <2>1
<1>4. \A k \in 0 .. n : ~(After(s, h, k) /\ Knows(x, s, h, k, Nobody))
  <2> SUFFICES ASSUME NEW k \in 0 .. n, After(s, h, k), Knows(x, s, h, k, Nobody) PROVE FALSE
    OBVIOUS
  <2>1. \A j \in 1 .. k : ~About(s[j], h)
    BY <1>3
  <2> QED  BY <2>1 DEF Knows
<1>5. procedure.cmd = "connect_direct" => procedure.ch # h
  <2> SUFFICES ASSUME procedure.cmd = "connect_direct", procedure.ch = h PROVE FALSE
    OBVIOUS
  <2>1. links[h] = Nobody /\ After(s, h, n)
    BY DEF LinkInv, ProcedureLinked, s, n
  <2>2. Knows(x, s, h, n, Nobody)
    BY <2>1 DEF LinkInv, LinksTold, s, n
  <2> QED  BY <1>1, <1>4, <2>1, <2>2
<1> DEFINE Others == {i \in 1 .. n : s[i].idx = "status" /\ Read(s[i]).connection = h /\ Read(s[i]).address # x}
<1>6. Others = {}
  <2> SUFFICES ASSUME Others # {} PROVE FALSE
    OBVIOUS
  <2>1. Others \in SUBSET Nat
    BY <1>1
  <2>2. PICK i \in Others : \A j \in Others : ~(j < i)
    <3> HIDE DEF Others
    <3> QED  BY <2>1, LeastNumber
  <2> DEFINE a == Read(s[i])
  <2>3. i \in 1 .. n /\ s[i].idx = "status" /\ a.connection = h /\ a.address # x
    OBVIOUS
  <2>4. StatusFits(connectedDevices, s, i)
    BY <1>1, <2>3 DEF LinkInv, StatusesFit, s
  <2>5. /\ a.address # Nobody
        /\ a.flags = 5 => Knows(x, s, h, i - 1, Nobody) /\ After(s, h, i - 1)
        /\ a.flags # 5 => Knows(x, s, h, i - 1, a.address)
    BY <2>3, <2>4 DEF StatusFits
  <2>6. i - 1 \in 0 .. n
    BY <1>1, <2>3
  <2>7. Knows(x, s, h, i - 1, a.address)
    BY <1>4, <2>5, <2>6
  <2>8. PICK j \in 1 .. i - 1 : About(s[j], h) /\ a.address = NewDevice(s[j])
    <3> HIDE DEF a, Others
    <3> QED  BY <2>3, <2>7 DEF Knows, a
  <2>9. s[j].idx = "status" /\ Read(s[j]).connection = h /\ Read(s[j]).address # x
    <3> HIDE DEF a, Others
    <3>1. a.address # x
      BY <2>3 DEF a
    <3> QED  BY <2>5, <2>8, <3>1 DEF About, NewDevice
  <2>10. j \in 1 .. n /\ j < i
    BY <1>1, <2>3
  <2>11. j \in Others
    BY <2>9, <2>10
  <2> QED  BY <2>2, <2>10, <2>11
<1>7. links[h] \in {x, Nobody}
  <2>1. Knows(x, s, h, n, links[h])
    BY DEF LinkInv, LinksTold, s, n
  <2>2. ASSUME NEW j \in 1 .. n, About(s[j], h) PROVE NewDevice(s[j]) \in {x, Nobody}
    BY <1>6, <2>2 DEF About, NewDevice
  <2> HIDE DEF Others
  <2> QED  BY <2>1, <2>2 DEF Knows
<1> QED  BY <1>1, <1>5, <1>6, <1>7 DEF Held, s

LEMMA Appends ==
  ASSUME NEW s \in Seq(Answers), NEW m
  PROVE  LET t == Append(s, m) IN
         /\ Len(s) \in Nat /\ DOMAIN t = 1 .. Len(s) + 1 /\ DOMAIN s = 1 .. Len(s)
         /\ t[Len(s) + 1] = m /\ \A i \in 1 .. Len(s) : t[i] = s[i]
<1>1. s \in Seq(Answers \cup {m})
  OBVIOUS
<1> QED  BY <1>1

\* What the dongle tells of other links does no harm.
LEMMA HeldTells ==
  ASSUME NEW h, NEW x, Held(connectedDevices, links, toDriver, procedure, h, x), connectedDevices' = connectedDevices,
         NEW m, toDriver \in Seq(Answers), toDriver' = Append(toDriver, m),
         links'[h] \in {x, Nobody},
         m.idx = "status" /\ Read(m).connection = h => Read(m).address = x,
         procedure'.cmd = "connect_direct" => procedure'.ch # h
  PROVE  Held(connectedDevices', links', toDriver', procedure', h, x)
<1>1. \A i \in DOMAIN toDriver' : toDriver'[i] = m \/ (i \in DOMAIN toDriver /\ toDriver'[i] = toDriver[i])
  <2>1. Len(toDriver) \in Nat /\ DOMAIN toDriver' = 1 .. Len(toDriver) + 1 /\ DOMAIN toDriver = 1 .. Len(toDriver)
        /\ toDriver'[Len(toDriver) + 1] = m /\ \A i \in 1 .. Len(toDriver) : toDriver'[i] = toDriver[i]
    BY Appends
  <2> QED  BY <2>1
<1> QED  BY <1>1 DEF Held

LEMMA HeldReads ==
  ASSUME PathInv, DriverReceives, NEW h \in Handle, NEW x, Held(connectedDevices, links, toDriver, procedure, h, x)
  PROVE  Held(connectedDevices', links', toDriver', procedure', h, x)
<1> DEFINE m == Head(toDriver)
<1>1. toDriver \in Seq(Answers) /\ toDriver # <<>> /\ toDriver' = Tail(toDriver) /\ links' = links /\ procedure' = procedure
      /\ connectedDevices \in [Handle -> Bytes] /\ connectedDevices' = DevicesOf(m)
  BY DEF DriverReceives, PathInv, TrafficFits, DevicesFit, dongle, DevicesOf, Read
<1>2. m \in Answers /\ m = toDriver[1] /\ 1 \in DOMAIN toDriver
      /\ \A i \in DOMAIN toDriver' : i + 1 \in DOMAIN toDriver /\ toDriver'[i] = toDriver[i + 1]
  BY <1>1
<1> HIDE DEF m
<1>3. connectedDevices'[h] \in {x, Nobody}
  <2>1. connectedDevices'[h] = IF About(m, h) THEN NewDevice(m) ELSE connectedDevices[h]
    BY <1>1, <1>2, DevicesTold
  <2>2. About(m, h) => NewDevice(m) \in {x, Nobody}
    BY <1>2 DEF About, NewDevice, Held
  <2> QED  BY <2>1, <2>2 DEF Held
<1> QED  BY <1>1, <1>2, <1>3 DEF Held

LEMMA HeldExecutes ==
  ASSUME PathInv, OursInv, ClientExecutes, OnConnection(call.op), NEW h \in Handle, NEW x,
         Held(connectedDevices, links, toDriver, procedure, h, x)
  PROVE  Held(connectedDevices', links', toDriver', procedure', h, x)
<1>1. PICK m \in CommandMessages :
        \E result \in ResultsOf(m.idx, Args(m)) : ClientCall(m, result, Subject(m.idx, Args(m)))
  BY ClientCalls1 DEF PathInv, TrafficFits
<1>2. PICK result \in ResultsOf(m.idx, Args(m)) : ClientCall(m, result, Subject(m.idx, Args(m)))
  BY <1>1
<1> DEFINE g == Subject(m.idx, Args(m))
           rsp == Rsp(m.idx, g, result)
<1>3. UNCHANGED <<connectedDevices, links>> /\ toClient \in Seq(CommandMessages) /\ toDriver \in Seq(Answers)
  BY DEF ClientExecutes, PathInv, TrafficFits, gateway
<1>4. m.idx \in Commanded
  BY ResultsAre
<1>5. rsp.idx # "status" /\ toDriver' = Append(toDriver, rsp)
      /\ procedure' = IF result = 0 THEN ProcedureAfter(m.idx, Args(m), g) ELSE procedure
  <2>1. rsp.idx # "status"
    BY <1>4, ResponsePacked, NotNews
  <2>2. toDriver' = Append(toDriver, rsp) /\ procedure' = IF result = 0 THEN ProcedureAfter(m.idx, Args(m), g) ELSE procedure
    BY <1>2 DEF ClientCall
  <2> QED  BY <2>1, <2>2
<1>6. m.idx # "connect_direct"
  <2>1. m = toClient[1] /\ 1 \in DOMAIN toClient
    BY <1>2, <1>3 DEF ClientCall
  <2>2. OurMsg(m)
    BY <2>1 DEF OursInv, AllOurs
  <2>3. call.op # "connect"
    BY DEF OnConnection
  <2> QED  BY <2>2, <2>3, ConnectAsks
<1> HIDE DEF rsp, g
<1>7. procedure' = procedure \/ procedure'.cmd # "connect_direct"
  <2>1. CASE result # 0 \/ m.idx \in {"get_info", "get_connections", "set_scan_parameters"}
    BY <1>5, <2>1, ProcedureAfterIs
  <2>2. CASE result = 0 /\ m.idx \in {"discover", "end_procedure"}
    BY <1>5, <2>2, ProcedureAfterIs DEF Idle
  <2>3. CASE result = 0 /\ m.idx \in LinkCommands
    BY <1>5, <2>3, ProcedureAfterIs DEF LinkCommands
  <2> QED  BY <1>4, <1>6, <2>1, <2>2, <2>3 DEF Commanded, Simply
<1>8. links'[h] \in {x, Nobody} /\ (procedure'.cmd = "connect_direct" => procedure'.ch # h)
  BY <1>3, <1>7 DEF Held
<1> QED  BY <1>3, <1>5, <1>8, HeldTells

LEMMA HeldSucceeds ==
  ASSUME PathInv, LinkInv, ProcedureSucceeds, NEW h \in Handle, NEW x,
         Held(connectedDevices, links, toDriver, procedure, h, x)
  PROVE  Held(connectedDevices', links', toDriver', procedure', h, x)
<1> DEFINE c == procedure.cmd
           g == procedure.ch
           device == procedure.device
           m == Success(c, g, device)
<1>1. /\ c \in Lasting /\ toDriver' = Append(toDriver, m) /\ procedure' = Idle
      /\ links' = IF c = "connect_direct" THEN [links EXCEPT ![g] = device]
                  ELSE IF c = "disconnect" THEN [links EXCEPT ![g] = Nobody] ELSE links
      /\ connectedDevices' = connectedDevices
  BY Succeeds DEF ProcedureSucceeds, gateway
<1>2. g \in Handle /\ links \in [Handle -> Bytes] /\ toDriver \in Seq(Answers)
  BY <1>1, LastingRuns DEF PathInv, DevicesFit, TrafficFits
<1>3. c \in LinkCommands => links[g] = device /\ device # Nobody
  BY DEF LinkInv, ProcedureLinked
<1>4. links[h] \in {x, Nobody} /\ (c = "connect_direct" => g # h)
  BY DEF Held
<1> HIDE DEF m, c, g, device
<1>5. links'[h] \in {x, Nobody}
  BY <1>1, <1>2, <1>4
<1>6. m.idx = "status" /\ Read(m).connection = h => Read(m).address = x
  <2>1. CASE c = "connect_direct"
    <3>1. m = StatusMsg(g, device, 5)
      BY <2>1, SuccessIs DEF m
    <3> QED  BY <1>4, <2>1, <3>1, StatusNews
  <2>2. CASE c = "update"
    <3>1. m = StatusMsg(g, device, 9)
      BY <2>2, SuccessIs DEF m
    <3> QED  BY <1>3, <1>4, <2>2, <3>1, StatusNews DEF LinkCommands
  <2>3. CASE c = "disconnect"
    <3>1. m = GoneMsg(g, 534)
      BY <2>3, SuccessIs DEF m
    <3>2. m.idx = "disconnected"
      BY <3>1 DEF GoneMsg, Message
    <3> QED  BY <3>2
  <2>4. CASE c = "read_by_handle" \/ c \in Completing
    <3>1. m = ValueMsg(g) \/ m = CompletedMsg(g, 0)
      BY <2>4, SuccessIs DEF m
    <3> QED  BY <3>1, NotNews
  <2> QED  BY <1>1, <2>1, <2>2, <2>3, <2>4 DEF Lasting, LinkCommands, Completing
<1>7. procedure'.cmd # "connect_direct"
  BY <1>1 DEF Idle
<1> QED  BY <1>1, <1>2, <1>5, <1>6, <1>7, HeldTells

LEMMA HeldElsewhere ==
  ASSUME PathInv, ProcedureFails \/ ProcedureFinds \/ LinkLost, NEW h \in Handle, NEW x,
         Held(connectedDevices, links, toDriver, procedure, h, x)
  PROVE  Held(connectedDevices', links', toDriver', procedure', h, x)
<1>1. connectedDevices' = connectedDevices /\ toDriver \in Seq(Answers) /\ links \in [Handle -> Bytes]
  BY DEF ProcedureFails, ProcedureFinds, LinkLost, gateway, PathInv, TrafficFits, DevicesFit
<1>2. \E m : toDriver' = Append(toDriver, m) /\ m.idx # "status"
  <2>1. CASE ProcedureFails
    BY <2>1, Fails, NotNews
  <2>2. CASE ProcedureFinds
    BY <2>2, FindsIs, NotNews
  <2>3. CASE LinkLost
    <3>1. \A g, reason : GoneMsg(g, reason).idx # "status"
      BY DEF GoneMsg, Message
    <3> QED  BY <2>3, <3>1, Loses
  <2> QED  BY <2>1, <2>2, <2>3
<1>3. links'[h] \in {x, Nobody} /\ (procedure' = procedure \/ procedure' = Idle)
  <2>1. CASE ProcedureFails \/ ProcedureFinds
    BY <2>1 DEF ProcedureFails, ProcedureFinds, Held, dongle
  <2>2. CASE LinkLost
    BY <1>1, <2>2, Loses DEF Held
  <2> QED  BY <2>1, <2>2
<1>4. procedure'.cmd = "connect_direct" => procedure'.ch # h
  BY <1>3 DEF Held, Idle
<1> QED  BY <1>1, <1>2, <1>3, <1>4, HeldTells

LEMMA DeviceNamed ==
  ASSUME PathInv, call.op \in DeviceOps
  PROVE  /\ request \in Requests /\ Device # Nobody /\ Len(request.path) >= 2
         /\ Device = <<request.path[2].n % 256, request.path[2].n \div 256>>
<1>1. call.op \in Ops /\ CallFits
  BY DEF DeviceOps, Ops, PathInv, StageFits
<1>2. request \in Requests
  BY <1>1, NothingIsWellTyped DEF PathInv, StageFits
<1>3. Len(request.path) >= 2 /\ IsValidMAC(request.path[2])
  BY <1>1 DEF CallFits
<1>4. Device = <<request.path[2].n % 256, request.path[2].n \div 256>>
  BY <1>2, <1>3, PathTokens
<1>5. \A x, y : <<x, y>> # <<>>
  OBVIOUS
<1>6. Device # Nobody
  <2> HIDE DEF Device
  <2> QED  BY <1>4, <1>5 DEF Nobody
<1> QED  BY <1>2, <1>3, <1>4, <1>6

LEMMA WorkerOnDevice ==
  ASSUME PathInv, PathInv', OursInv, LinkInv, OnDeviceInv, ExecuteWorkRequest
  PROVE  OnDeviceInv'
<1> SUFFICES ASSUME OnConnection(call'.op)
             PROVE  Held(connectedDevices', links', toDriver', procedure', call'.handle, Device')
  BY DEF OnDeviceInv
<1>1. stage = "worker" /\ call = NoCall /\ UNCHANGED <<request, connectedDevices, links, toDriver, procedure>>
  BY DEF ExecuteWorkRequest, PathInv, StageFits, dongle
<1>2. \/ call' = call
      \/ \E op \in {"info", "discover", "connect"} : Begin(op, 0)
      \/ \E op : \E h \in HandlesOf(Device) : Begin(op, h)
  BY DEF ExecuteWorkRequest, ReadAttribute, OnDevice, OnAttribute, AtOnce
<1>3. ~OnConnection("none") /\ \A op \in {"info", "discover", "connect"} : ~OnConnection(op)
  BY DEF OnConnection
<1>4. PICK h \in HandlesOf(Device) : call'.handle = h
  <2>1. \A op, h : Begin(op, h) => call'.op = op /\ call'.handle = h
    BY DEF Begin
  <2>2. call' # call
    BY <1>1, <1>3, NothingIsWellTyped
  <2> QED  BY <1>2, <1>3, <2>1, <2>2
<1>5. h \in Handle /\ connectedDevices[h] = Device
  BY <1>4 DEF HandlesOf
<1>6. Device' = Device
  BY <1>1 DEF Device
<1>7. Device # Nobody
  <2>1. call'.op \in DeviceOps
    BY DEF OnConnection, DeviceOps
  <2>2. (PathInv /\ call.op \in DeviceOps => Device # Nobody)'
    BY DeviceNamed, PTL
  <2>3. Device' # Nobody
    BY <2>1, <2>2 DEF Nobody
  <2> QED  BY <1>6, <2>3
<1>8. Pending = {}
  BY <1>1 DEF OursInv, Awaiting, Quiet
<1>9. Held(connectedDevices, links, toDriver, procedure, h, Device)
  BY <1>5, <1>7, <1>8, HeldBegins
<1> QED  BY <1>1, <1>4, <1>6, <1>9

\* A command that goes on.
LEMMA GoesOn ==
  ASSUME PathInv, OursInv, SendStep \/ WaitRunsOut \/ ScanEnds \/ DriverReceives
  PROVE  call'.op = call.op /\ call'.handle = call.handle /\ request' = request
<1>1. CASE SendStep \/ ScanEnds
  BY <1>1 DEF SendStep, ScanEnds
<1>2. CASE WaitRunsOut
  BY <1>2, WaitEndsMoves DEF WaitRunsOut, SameRequest
<1>3. CASE DriverReceives
  <2>1. request' = request /\ (call' = call \/ (stage = "wait" /\ WaitEnds(EventOf(Head(toDriver)).code)))
    BY <1>3 DEF DriverReceives, EventOf, Read
  <2> QED  BY <2>1, WaitEndsMoves DEF SameRequest
<1> QED  BY <1>1, <1>2, <1>3

LEMMA OnDeviceNext == PathInv /\ PathInv' /\ OursInv /\ LinkInv /\ OnDeviceInv /\ [Next]_vars => OnDeviceInv'
<1> SUFFICES ASSUME PathInv, PathInv', OursInv, LinkInv, OnDeviceInv, [Next]_vars PROVE OnDeviceInv'
  OBVIOUS
<1>0. ~OnConnection("none") /\ NoCall.op = "none"
  BY NothingIsWellTyped
<1>1. CASE ExecuteWorkRequest
  BY <1>1, WorkerOnDevice
<1>2. CASE FinishRequest
  BY <1>0, <1>2 DEF FinishRequest, OnDeviceInv
<1>3. CASE Arrive \/ FCGIWorker
  <2>1. call = NoCall /\ call' = call
    BY <1>3 DEF Arrive, FCGIWorker, PathInv, StageFits
  <2> QED  BY <1>0, <2>1 DEF OnDeviceInv
<1>4. CASE call'.op = call.op /\ call'.handle = call.handle /\ request' = request
           /\ (SendStep \/ WaitRunsOut \/ ScanEnds \/ DriverReceives \/ ClientExecutes \/ ProcedureSucceeds
               \/ ProcedureFails \/ ProcedureFinds \/ LinkLost \/ UNCHANGED vars)
  <2> SUFFICES ASSUME OnConnection(call.op)
               PROVE  Held(connectedDevices', links', toDriver', procedure', call.handle, Device)
    BY <1>4 DEF OnDeviceInv, Device
  <2>1. Held(connectedDevices, links, toDriver, procedure, call.handle, Device) /\ call.handle \in Handle
    BY DEF OnDeviceInv, PathInv, StageFits, CallFits
  <2>2. CASE SendStep \/ WaitRunsOut \/ ScanEnds \/ UNCHANGED vars
    <3>1. UNCHANGED <<connectedDevices, links, toDriver, procedure>>
      BY <2>2 DEF SendStep, WaitRunsOut, ScanEnds, vars, gateway, dongle
    <3> QED  BY <2>1, <3>1
  <2>3. CASE DriverReceives
    BY <2>1, <2>3, HeldReads
  <2>4. CASE ClientExecutes
    BY <2>1, <2>4, HeldExecutes
  <2>5. CASE ProcedureSucceeds
    BY <2>1, <2>5, HeldSucceeds
  <2>6. CASE ProcedureFails \/ ProcedureFinds \/ LinkLost
    BY <2>1, <2>6, HeldElsewhere
  <2> QED  BY <1>4, <2>2, <2>3, <2>4, <2>5, <2>6
<1>5. CASE ClientExecutes \/ ProcedureSucceeds \/ ProcedureFails \/ ProcedureFinds \/ LinkLost \/ UNCHANGED vars
  <2>1. UNCHANGED gateway
    BY <1>5 DEF ClientExecutes, ProcedureSucceeds, ProcedureFails, ProcedureFinds, LinkLost, vars
  <2> QED  BY <1>4, <1>5, <2>1 DEF gateway
<1>6. CASE SendStep \/ WaitRunsOut \/ ScanEnds \/ DriverReceives
  BY <1>4, <1>6, GoesOn
<1> QED  BY <1>1, <1>2, <1>3, <1>5, <1>6 DEF Next

\* If no wait for a response runs out, the links of the dongle are what the driver's table of
\* devices becomes with the messages that the driver has yet to read, and while a command works
\* on a connection, no device but the one that the URI names comes to its handle, at either end.
THEOREM PathLinks ==
  ASSUME ResponsesInTime
  PROVE  Spec => [](PathInv /\ OursInv /\ LinkInv /\ OnDeviceInv)
<1> DEFINE Inv == PathInv /\ OursInv /\ ToldInv /\ LinkInv /\ OnDeviceInv
<1>1. Init => Inv
  <2>1. Init => OnDeviceInv
    BY NothingIsWellTyped DEF Init, OnDeviceInv
  <2> QED  BY <2>1, PathInit, OursInit, LinkInit
<1>2. Inv /\ [Next]_vars => Inv'
  <2>1. PathInv /\ [Next]_vars => PathInv'
    BY PathNext
  <2> QED  BY <2>1, OursNext, LinkNext, OnDeviceNext
<1> QED  BY <1>1, <1>2, PTL DEF Spec

LEMMA LinkCommandsSent ==
  ASSUME NEW op, NEW c, SentBy(op, c)
  PROVE  /\ c \in LinkCommands => OnConnection(op)
         /\ c = "connect_direct" => op = "connect"
         /\ c = "read_by_handle" => op = "read"
         /\ c = "attribute_write" => op = "write"
<1>1. c \in LinkCommands => OnConnection(op)
  BY DEF SentBy, Sends, LinkCommands, OnConnection
<1>2. (c = "connect_direct" => op = "connect") /\ (c = "read_by_handle" => op = "read") /\ (c = "attribute_write" => op = "write")
  BY DEF SentBy, Sends
<1> QED  BY <1>1, <1>2

\* The bytes that are written.
LEMMA BytesWritten ==
  ASSUME request \in Requests
  PROVE  Len(WriteBytes) <= BGAPI_WRITE_PAYLOAD /\ PairsArrive(WriteBytes)
<1>1. request.value \in Seq(Digits)
  BY RequestsAssumption DEF Digits
<1> DEFINE b == HexStrToHexBuf(request.value)
           w == WriteBytes
<1>2. /\ w \in Bytes /\ Len(w) <= BGAPI_WRITE_PAYLOAD /\ Len(w) <= Len(b) /\ b \in Bytes
      /\ \A i \in 1 .. Len(w) : w[i] = b[i]
  BY <1>1, WriteBytesTyped, HexBytes
<1>3. ToSet(request.value) \subseteq 0 .. 15 /\ Len(request.value) % 2 = 0 =>
        \A i \in 1 .. Len(b) : b[i] = 16 * request.value[2 * i - 1] + request.value[2 * i]
  BY <1>1, HexBytes
<1> HIDE DEF b, w
<1>4. DOMAIN w = 1 .. Len(w) /\ Len(w) \in Nat /\ Len(b) \in Nat
  BY <1>2 DEF Bytes
<1>5. \A i \in 1 .. Len(w) : i \in 1 .. Len(b)
  BY <1>2, <1>4
<1>6. (ToSet(request.value) \subseteq 0 .. 15 /\ Len(request.value) % 2 = 0) =>
        \A i \in DOMAIN w : w[i] = 16 * request.value[2 * i - 1] + request.value[2 * i]
  BY <1>2, <1>3, <1>4, <1>5
<1> QED  BY <1>2, <1>6 DEF w, PairsArrive

\* If no wait for a response runs out, each argument of BGLIB's calls is what the request says:
\* device, handle, parameters and the bytes of a value are packed by the driver and unpacked by
\* the client each into its own field, though the two programs list the fields separately.
THEOREM PathArgumentsArrive ==
  ASSUME ResponsesInTime
  PROVE  Spec => []ArgumentsArrive
<1>1. PathInv /\ OursInv /\ OnDeviceInv => ArgumentsArrive
  <2> SUFFICES ASSUME PathInv, OursInv, OnDeviceInv, NEW n \in DOMAIN asked
               PROVE  Means(asked[n].cmd, asked[n].args)
    BY DEF ArgumentsArrive
  <2> DEFINE c == asked[n].cmd
             a == asked[n].args
             op == call.op
  <2>1. OurCall(asked[n])
    BY DEF OursInv, AllOurs
  <2>2. CASE asked[n] = Call(EndMsg)
    <3>1. c = "end_procedure"
      BY <2>2, SentIdx DEF Call
    <3>2. "end_procedure" \notin LinkCommands
      BY DEF LinkCommands
    <3> HIDE DEF c, a
    <3>3. Means(c, a)
      BY <3>1, <3>2 DEF Means
    <3> QED  BY <3>3 DEF c, a
  <2>3. CASE op \in Ops /\ SentBy(op, c) /\ asked[n] = Call(Sent(c))
    <3>1. a = Args(Sent(c))
      BY <2>3, SentIdx DEF Call, Args
    <3>2. request \in Requests
      BY <2>3, NothingIsWellTyped DEF PathInv, StageFits
    <3> HIDE DEF c, a
    <3>3. c \in LinkCommands => connectedDevices[a.connection] \in {Device, Nobody}
      <4> SUFFICES ASSUME c \in LinkCommands PROVE connectedDevices[a.connection] \in {Device, Nobody}
        OBVIOUS
      <4>1. OnConnection(op)
        BY <2>3, LinkCommandsSent
      <4>2. a.connection = call.handle
        BY <3>1, <3>2, SentCalled
      <4> QED  BY <4>1, <4>2 DEF OnDeviceInv, Held
    <3>4. c = "connect_direct" =>
            /\ \A k \in {1, 2} : a.address[3 - k] = <<request.path[2].n \div 256, request.path[2].n % 256>>[k]
            /\ a.conn_interval_min = Checked.min /\ a.conn_interval_max = Checked.max
            /\ a.timeout = Checked.timeout /\ a.latency = Checked.latency /\ a.addr_type = AddressType
      <4> SUFFICES ASSUME c = "connect_direct"
                   PROVE  /\ \A k \in {1, 2} : a.address[3 - k] = <<request.path[2].n \div 256, request.path[2].n % 256>>[k]
                          /\ a.conn_interval_min = Checked.min /\ a.conn_interval_max = Checked.max
                          /\ a.timeout = Checked.timeout /\ a.latency = Checked.latency /\ a.addr_type = AddressType
        OBVIOUS
      <4>1. Device = <<request.path[2].n % 256, request.path[2].n \div 256>>
        BY <2>3, LinkCommandsSent, DeviceNamed DEF DeviceOps
      <4>2. /\ a.address = Device /\ a.conn_interval_min = Checked.min /\ a.conn_interval_max = Checked.max
            /\ a.timeout = Checked.timeout /\ a.latency = Checked.latency /\ a.addr_type = AddressType
        BY <3>1, <3>2, SentCalled
      <4>3. \A x, y : \A k \in {1, 2} : <<x, y>>[3 - k] = <<y, x>>[k]
        OBVIOUS
      <4> HIDE DEF Device
      <4> QED  BY <4>1, <4>2, <4>3
    <3>5. c = "update" =>
            /\ a.interval_min = Checked.min /\ a.interval_max = Checked.max
            /\ a.timeout = Checked.timeout /\ a.latency = Checked.latency
      BY <3>1, <3>2, SentCalled
    <3>6. c = "read_by_handle" => a.chrhandle = request.path[3].n % 65536
      BY <3>1, <3>2, SentCalled DEF AttributeHandle, Uint16
    <3>7. c = "attribute_write" => a.atthandle = request.path[3].n % 65536 /\ a.data = WriteBytes
      BY <3>1, <3>2, SentCalled DEF AttributeHandle, Uint16
    <3>8. c = "attribute_write" => Len(a.data) <= BGAPI_WRITE_PAYLOAD
      BY <3>2, <3>7, BytesWritten
    <3>9. c = "attribute_write" => PairsArrive(a.data)
      BY <3>2, <3>7, BytesWritten
    <3>10. /\ c = "set_scan_parameters" => /\ a.scan_interval = CheckedScan.interval /\ a.scan_window = CheckedScan.window
                                          /\ a.active = ActiveScan
           /\ c = "discover" => a.mode = DiscoverMode
      BY <3>1, <3>2, SentCalled
    <3>11. Means(c, a)
      <4>1. c = "connect_direct" =>
              /\ \A i \in {1, 2} : a.address[3 - i] = <<request.path[2].n \div 256, request.path[2].n % 256>>[i]
              /\ a.conn_interval_min = Checked.min /\ a.conn_interval_max = Checked.max
              /\ a.timeout = Checked.timeout /\ a.latency = Checked.latency /\ a.addr_type = AddressType
        BY <3>4
      <4> QED  BY <3>3, <3>5, <3>6, <3>7, <3>8, <3>9, <3>10, <4>1 DEF Means, Checked, CheckedScan
    <3> QED  BY <3>11 DEF c, a
  <2> QED  BY <2>1, <2>2, <2>3 DEF OurCall
<1> QED  BY <1>1, PathLinks, PTL

-----------------------------------------------------------------------------
(* What has become of a command.                                           *)

\* The command that a step which sends nothing waits for, and the events that end such a wait.
Did == Script[call.op][call.step - 1].send
Finish(c) ==
  IF c = "connect_direct" THEN {"GAP_CONNECTION_EVT"}
  ELSE IF c = "update" THEN {"CONNECTION_UPDATE_EVT", "CONNECTION_DISCONNECT_EVT"}
  ELSE IF c = "disconnect" THEN {"CONNECTION_DISCONNECT_EVT"}
  ELSE IF c = "read_by_handle" THEN {"ATTCLIENT_ATTRIBUTE_FOUND_EVT"} \cup ProcedureOver
  ELSE ProcedureOver
Ends(m, c, ch) == EventOf(m).evt \in Finish(c) /\ EventOf(m).ch = ch
\* What the message that ends it says is what has happened.
Verdict(m, c, done) ==
  /\ EventOf(m).code # Ok => "error" \in done
  /\ EventOf(m).code = Ok => /\ "error" \notin done
                             /\ c \in done \/ (m.idx = "disconnected" /\ "lost" \in done)
\* A procedure that has been accepted, seen after the first n messages of s: it has not been told to
\* have ended, and has not failed, or the first message that tells its end is true of it.
Going(s, n, c, ch, proc, done) ==
  \/ /\ \A j \in n + 1 .. Len(s) : ~Ends(s[j], c, ch)
     /\ "error" \notin done
     /\ proc.cmd \in LinkCommands => proc.cmd = c /\ proc.ch = ch
  \/ /\ proc.cmd \notin LinkCommands
     /\ \E j \in n + 1 .. Len(s) : /\ Ends(s[j], c, ch) /\ Verdict(s[j], c, done)
                                   /\ \A k \in n + 1 .. j - 1 : ~Ends(s[k], c, ch)
Undisturbed(proc, done) == proc.cmd \notin LinkCommands /\ "error" \notin done
\* A response to c under way is true of what the dongle has made of c.
Replied(s, i, c, ch, proc, done) ==
  /\ EventOf(s[i]).code # Ok => proc.cmd \notin LinkCommands /\ "error" \in done
  /\ EventOf(s[i]).code = Ok /\ c \in Lasting => Going(s, i, c, ch, proc, done)
  /\ EventOf(s[i]).code = Ok /\ c \notin Lasting => Undisturbed(proc, done) /\ c \in done
AtWork == stage \in {"send", "wait"}
Progress ==
  /\ ~AtWork => procedure.cmd \notin LinkCommands /\ (stage # "answered" => "error" \notin performed)
  /\ stage = "scanning" => "discover" \in performed
  /\ AtWork /\ Current.send = "none" => Going(toDriver, 0, Did, WaitChannel, procedure, performed)
  /\ AtWork /\ Current.send # "none" =>
       /\ Pending = {} => Undisturbed(procedure, performed)
       /\ \A i \in Pending : Replied(toDriver, i, Current.send, WaitChannel, procedure, performed)
\* The dongle has accepted the command of the present step.
Accepted == Current.send = "none" \/ \E i \in Pending : EventOf(toDriver[i]).code = Ok
Broken == links[call.handle] = Nobody
LossKnown ==
  AtWork /\ OnConnection(call.op) =>
    /\ ~Broken => /\ connectedDevices[call.handle] # Nobody
                  /\ \A i \in DOMAIN toDriver : ~(toDriver[i].idx = "disconnected" /\ Read(toDriver[i]).connection = call.handle)
    /\ Broken /\ (call.step > 1 \/ Accepted) => "lost" \in performed \/ call.op = "disconnect"
StepsDone ==
  AtWork =>
    /\ call.op = "info" /\ call.step > 1 => "get_info" \in performed
    /\ call.op \in {"read", "readall"} /\ call.step > 2 =>
         Script[call.op][1].send \in performed \/ (Broken /\ ~Accepted)

TruthInv == Progress /\ LossKnown /\ StepsDone /\ StatusTruthful

\* What the dongle tells of its own follows from what it does.
Follows(m, proc, done, proc2, done2) ==
  /\ done \subseteq done2
  /\ "error" \in done2 => "error" \in done \/ (proc.cmd \in LinkCommands /\ Ends(m, proc.cmd, proc.ch))
  /\ proc2.cmd \in LinkCommands => proc2 = proc /\ ~Ends(m, proc.cmd, proc.ch)
  /\ \A c, ch : Ends(m, c, ch) /\ (proc.cmd \in LinkCommands => c = proc.cmd /\ ch = proc.ch) /\ "error" \notin done =>
       Verdict(m, c, done2)

LEMMA GoingTells ==
  ASSUME NEW s \in Seq(Answers), NEW m, NEW n \in 0 .. Len(s), NEW c, NEW ch, NEW proc, NEW done, NEW proc2, NEW done2,
         Going(s, n, c, ch, proc, done), Follows(m, proc, done, proc2, done2)
  PROVE  Going(Append(s, m), n, c, ch, proc2, done2)
<1> DEFINE t == Append(s, m)
           last == Len(s) + 1
<1>0. /\ Len(s) \in Nat /\ Len(t) = last /\ t[last] = m /\ last \in n + 1 .. Len(t)
      /\ \A i \in n + 1 .. Len(s) : t[i] = s[i] /\ i \in n + 1 .. Len(t)
      /\ \A i \in n + 1 .. Len(t) : i = last \/ i \in n + 1 .. Len(s)
      /\ \A i \in n + 1 .. last - 1 : i \in n + 1 .. Len(s)
      /\ \A i \in n + 1 .. Len(s) : \A k \in n + 1 .. i - 1 : k \in n + 1 .. Len(s)
  OBVIOUS
<1> HIDE DEF t, last
<1>1. CASE /\ \A j \in n + 1 .. Len(s) : ~Ends(s[j], c, ch)
           /\ "error" \notin done
           /\ proc.cmd \in LinkCommands => proc.cmd = c /\ proc.ch = ch
  <2>1. CASE Ends(m, c, ch)
    <3>1. Verdict(m, c, done2) /\ proc2.cmd \notin LinkCommands
      BY <1>1, <2>1 DEF Follows
    <3>2. \A k \in n + 1 .. last - 1 : ~Ends(t[k], c, ch)
      BY <1>0, <1>1
    <3>3. \E j \in n + 1 .. Len(t) : /\ Ends(t[j], c, ch) /\ Verdict(t[j], c, done2)
                                     /\ \A k \in n + 1 .. j - 1 : ~Ends(t[k], c, ch)
      BY <1>0, <2>1, <3>1, <3>2
    <3> QED  BY <3>1, <3>3 DEF Going, t
  <2>2. CASE ~Ends(m, c, ch)
    <3>1. \A j \in n + 1 .. Len(t) : ~Ends(t[j], c, ch)
      BY <1>0, <1>1, <2>2
    <3>2. "error" \notin done2 /\ (proc2.cmd \in LinkCommands => proc2.cmd = c /\ proc2.ch = ch)
      BY <1>1, <2>2 DEF Follows
    <3> QED  BY <3>1, <3>2 DEF Going, t
  <2> QED  BY <2>1, <2>2
<1>2. CASE /\ proc.cmd \notin LinkCommands
           /\ \E j \in n + 1 .. Len(s) : /\ Ends(s[j], c, ch) /\ Verdict(s[j], c, done)
                                         /\ \A k \in n + 1 .. j - 1 : ~Ends(s[k], c, ch)
  <2>1. PICK j \in n + 1 .. Len(s) : /\ Ends(s[j], c, ch) /\ Verdict(s[j], c, done)
                                     /\ \A k \in n + 1 .. j - 1 : ~Ends(s[k], c, ch)
    BY <1>2
  <2>2. Verdict(t[j], c, done2)
    BY <1>0, <1>2, <2>1 DEF Verdict, Follows
  <2>3. Ends(t[j], c, ch) /\ \A k \in n + 1 .. j - 1 : ~Ends(t[k], c, ch)
    BY <1>0, <2>1
  <2>4. proc2.cmd \notin LinkCommands
    BY <1>2 DEF Follows
  <2> QED  BY <1>0, <2>2, <2>3, <2>4 DEF Going, t
<1> QED  BY <1>1, <1>2 DEF Going

LEMMA GoingReads ==
  ASSUME NEW s \in Seq(Answers), s # <<>>, NEW n \in 0 .. Len(s), NEW c, NEW ch, NEW proc, NEW done,
         Going(s, n, c, ch, proc, done)
  PROVE  /\ n > 0 => Going(Tail(s), n - 1, c, ch, proc, done)
         /\ n = 0 /\ ~Ends(Head(s), c, ch) => Going(Tail(s), 0, c, ch, proc, done)
         /\ n = 0 /\ Ends(Head(s), c, ch) => proc.cmd \notin LinkCommands /\ Verdict(Head(s), c, done)
<1> DEFINE t == Tail(s)
           m == Head(s)
           o == IF n > 0 THEN n - 1 ELSE 0
<1>0. /\ Len(s) \in Nat /\ Len(s) >= 1 /\ Len(t) = Len(s) - 1 /\ m = s[1] /\ o \in Nat /\ o + 1 >= n
      /\ \A i \in o + 1 .. Len(t) : t[i] = s[i + 1] /\ i + 1 \in n + 1 .. Len(s)
      /\ \A i \in n + 1 .. Len(s) : i # 1 => i - 1 \in o + 1 .. Len(t) /\ t[i - 1] = s[i]
      /\ n > 0 => 1 \notin n + 1 .. Len(s)
      /\ n = 0 => 1 \in n + 1 .. Len(s) /\ \A i \in n + 1 .. Len(s) : i # 1 => 1 \in n + 1 .. i - 1
  OBVIOUS
<1>1. \A i \in n + 1 .. Len(s) : i # 1 => \A k \in o + 1 .. (i - 1) - 1 : t[k] = s[k + 1] /\ k + 1 \in n + 1 .. i - 1
  OBVIOUS
<1> HIDE DEF t, m, o
<1>2. ASSUME n > 0 \/ ~Ends(m, c, ch) PROVE Going(t, o, c, ch, proc, done)
  <2>1. CASE /\ \A j \in n + 1 .. Len(s) : ~Ends(s[j], c, ch)
             /\ "error" \notin done
             /\ proc.cmd \in LinkCommands => proc.cmd = c /\ proc.ch = ch
    <3>1. \A j \in o + 1 .. Len(t) : ~Ends(t[j], c, ch)
      BY <1>0, <2>1
    <3> QED  BY <2>1, <3>1 DEF Going
  <2>2. CASE /\ proc.cmd \notin LinkCommands
             /\ \E j \in n + 1 .. Len(s) : /\ Ends(s[j], c, ch) /\ Verdict(s[j], c, done)
                                           /\ \A k \in n + 1 .. j - 1 : ~Ends(s[k], c, ch)
    <3>1. PICK j \in n + 1 .. Len(s) : /\ Ends(s[j], c, ch) /\ Verdict(s[j], c, done)
                                       /\ \A k \in n + 1 .. j - 1 : ~Ends(s[k], c, ch)
      BY <2>2
    <3>2. j # 1
      BY <1>0, <1>2, <3>1
    <3>3. j - 1 \in o + 1 .. Len(t) /\ Ends(t[j - 1], c, ch) /\ Verdict(t[j - 1], c, done)
      BY <1>0, <3>1, <3>2
    <3>4. \A k \in o + 1 .. (j - 1) - 1 : ~Ends(t[k], c, ch)
      BY <1>1, <3>1, <3>2
    <3> QED  BY <2>2, <3>3, <3>4 DEF Going
  <2> QED  BY <2>1, <2>2 DEF Going
<1>3. ASSUME n = 0, Ends(m, c, ch) PROVE proc.cmd \notin LinkCommands /\ Verdict(m, c, done)
  BY <1>0, <1>3 DEF Going
<1>4. (n > 0 => o = n - 1) /\ (n = 0 => o = 0) /\ (n = 0 \/ n > 0)
  BY DEF o
<1> QED  BY <1>2, <1>3, <1>4 DEF t, m

LEMMA FinishIs ==
  /\ \A c : "GAP_CONNECTION_EVT" \in Finish(c) <=> c = "connect_direct"
  /\ \A c : {"none", "GAP_SET_SCANPARAMETER_RSP_EVT", "GAP_ENDPROCEDURE_RSP_EVT"} \cap Finish(c) = {}
  /\ \A c \in LinkCommands \ {"update", "disconnect"} : "GATT_PROCEDURE_COMPLETE_EVT" \in Finish(c)
  /\ \A c \in LinkCommands : "CONNECTION_DISCONNECT_EVT" \in Finish(c)
BY SMT DEF Finish, ProcedureOver, LinkCommands

LEMMA StepCount ==
  /\ \A op \in {"connect", "update", "disconnect", "write", "info"} : Len(Script[op]) = 2
  /\ \A op \in {"read", "readall"} : Len(Script[op]) = 4
  /\ \A op \in {"discover"} : Len(Script[op]) = 1
<1>1. /\ Len(Script["connect"]) = 2 /\ Len(Script["update"]) = 2 /\ Len(Script["disconnect"]) = 2
      /\ Len(Script["read"]) = 4 /\ Len(Script["write"]) = 2 /\ Len(Script["readall"]) = 4
      /\ Len(Script["discover"]) = 1 /\ Len(Script["info"]) = 2
  BY ScriptLengths
<1> DEFINE L(op) == Len(Script[op])
<1>2. L("connect") = 2 /\ L("update") = 2 /\ L("disconnect") = 2 /\ L("read") = 4 /\ L("write") = 2 /\ L("readall") = 4
      /\ L("discover") = 1 /\ L("info") = 2
  BY <1>1
<1> HIDE DEF L
<1>3. /\ \A op \in {"connect", "update", "disconnect", "write", "info"} : L(op) = 2
      /\ \A op \in {"read", "readall"} : L(op) = 4
      /\ \A op \in {"discover"} : L(op) = 1
  BY <1>2
<1> QED  BY <1>3 DEF L

\* What a step waits for, and which one follows it.
LEMMA StepFinishes ==
  ASSUME CallFits, call.op \in Ops
  PROVE  /\ Current.send = "none" => /\ call.step > 1 /\ Did \in Lasting /\ Current.on = Finish(Did)
                                     /\ Did # "connect_direct" => OnConnection(call.op)
                                     /\ Did = "disconnect" => call.op = "disconnect"
                                     /\ Did = "connect_direct" <=> call.op = "connect"
         /\ Current.send = "disconnect" => call.op = "disconnect"
         /\ LastStep /\ Current.send = "none" =>
              \/ call.op \in {"connect", "update", "disconnect", "write"} /\ Commands(call.op) = {Did}
              \/ /\ call.op \in {"read", "readall"} /\ call.step > 2
                 /\ Commands(call.op) = {Script[call.op][1].send, Did}
         /\ LastStep /\ Current.send # "none" =>
              \/ call.op = "discover" /\ Commands(call.op) = {"discover"} /\ Current.send = "discover"
              \/ /\ call.op = "info" /\ Commands(call.op) = {"get_info", "get_connections"} /\ Current.send = "get_connections"
                 /\ call.step > 1
<1> DEFINE s == Current
<1>0. call.step \in 1 .. Len(Script[call.op]) /\ s = Script[call.op][call.step] /\ call.step \in Nat
  BY SMTT(60) DEF CallFits, Current
<1>1. LET op == call.op  step == call.step IN
         \/ op = "connect" /\ step = 1 /\ s.send = "connect_direct" /\ s.on = {"GAP_CONNECTION_RSP_EVT"}
         \/ op = "connect" /\ step = 2 /\ s.send = "none" /\ s.on = {"GAP_CONNECTION_EVT"}
         \/ op = "update" /\ step = 1 /\ s.send = "update" /\ s.on = {"CONNECTION_UPDATE_RSP_EVT"}
         \/ op = "update" /\ step = 2 /\ s.send = "none" /\ s.on = {"CONNECTION_UPDATE_EVT", "CONNECTION_DISCONNECT_EVT"}
         \/ op = "disconnect" /\ step = 1 /\ s.send = "disconnect" /\ s.on = {"CONNECTION_DISCONNECT_RSP_EVT"}
         \/ op = "disconnect" /\ step = 2 /\ s.send = "none" /\ s.on = {"CONNECTION_DISCONNECT_EVT"}
         \/ op = "read" /\ step = 1 /\ s.send = "find_information" /\ s.on = {"ATTCLIENT_FINDINFO_RSP_EVT"}
         \/ op = "read" /\ step = 2 /\ s.send = "none" /\ s.on = ProcedureOver
         \/ op = "read" /\ step = 3 /\ s.send = "read_by_handle" /\ s.on = {"ATTCLIENT_READ_RSP_EVT"}
         \/ op = "read" /\ step = 4 /\ s.send = "none" /\ s.on = {"ATTCLIENT_ATTRIBUTE_FOUND_EVT"} \cup ProcedureOver
         \/ op = "write" /\ step = 1 /\ s.send = "attribute_write" /\ s.on = {"ATTCLIENT_WRITE_RSP_EVT"}
         \/ op = "write" /\ step = 2 /\ s.send = "none" /\ s.on = ProcedureOver
         \/ op = "readall" /\ step = 1 /\ s.send = "read_by_group_type" /\ s.on = {"ATTCLIENT_READGROUP_RSP_EVT"}
         \/ op = "readall" /\ step = 2 /\ s.send = "none" /\ s.on = ProcedureOver
         \/ op = "readall" /\ step = 3 /\ s.send = "find_information" /\ s.on = {"ATTCLIENT_FINDINFO_RSP_EVT"}
         \/ op = "readall" /\ step = 4 /\ s.send = "none" /\ s.on = ProcedureOver
         \/ op = "discover" /\ step = 1 /\ s.send = "discover" /\ s.on = {"GAP_DISCOVER_RSP_EVT"}
         \/ op = "info" /\ step = 1 /\ s.send = "get_info" /\ s.on = {"SYS_GET_INFO_RSP_EVT"}
         \/ op = "info" /\ step = 2 /\ s.send = "get_connections" /\ s.on = {"SYS_GET_MAXCON_RSP_EVT"}
  BY <1>0, ScriptEntries, SMTT(60)
<1> HIDE DEF s
<1>2. /\ Script["connect"][1].send = "connect_direct" /\ Script["update"][1].send = "update"
      /\ Script["disconnect"][1].send = "disconnect" /\ Script["read"][1].send = "find_information"
      /\ Script["read"][3].send = "read_by_handle" /\ Script["write"][1].send = "attribute_write"
      /\ Script["readall"][1].send = "read_by_group_type" /\ Script["readall"][3].send = "find_information"
  BY Scripted DEF Step
<1>3. s.send = "none" => /\ call.step > 1 /\ Did \in Lasting /\ s.on = Finish(Did)
                         /\ Did # "connect_direct" => OnConnection(call.op)
                         /\ Did = "disconnect" => call.op = "disconnect"
                         /\ Did = "connect_direct" <=> call.op = "connect"
  <2>1. SUFFICES ASSUME s.send = "none"
                 PROVE  /\ call.step > 1 /\ Did \in Lasting /\ s.on = Finish(Did)
                        /\ Did # "connect_direct" => OnConnection(call.op)
                        /\ Did = "disconnect" => call.op = "disconnect"
                        /\ Did = "connect_direct" <=> call.op = "connect"
    OBVIOUS
  <2>2. \/ call.op = "connect" /\ call.step = 2 /\ Did = "connect_direct" /\ s.on = {"GAP_CONNECTION_EVT"}
        \/ call.op = "update" /\ call.step = 2 /\ Did = "update" /\ s.on = {"CONNECTION_UPDATE_EVT", "CONNECTION_DISCONNECT_EVT"}
        \/ call.op = "disconnect" /\ call.step = 2 /\ Did = "disconnect" /\ s.on = {"CONNECTION_DISCONNECT_EVT"}
        \/ call.op = "read" /\ call.step = 2 /\ Did = "find_information" /\ s.on = ProcedureOver
        \/ call.op = "read" /\ call.step = 4 /\ Did = "read_by_handle"
           /\ s.on = {"ATTCLIENT_ATTRIBUTE_FOUND_EVT"} \cup ProcedureOver
        \/ call.op = "write" /\ call.step = 2 /\ Did = "attribute_write" /\ s.on = ProcedureOver
        \/ call.op = "readall" /\ call.step = 2 /\ Did = "read_by_group_type" /\ s.on = ProcedureOver
        \/ call.op = "readall" /\ call.step = 4 /\ Did = "find_information" /\ s.on = ProcedureOver
    BY <1>1, <1>2, <2>1 DEF Did
  <2>3. /\ Finish("connect_direct") = {"GAP_CONNECTION_EVT"}
        /\ Finish("update") = {"CONNECTION_UPDATE_EVT", "CONNECTION_DISCONNECT_EVT"}
        /\ Finish("disconnect") = {"CONNECTION_DISCONNECT_EVT"}
        /\ Finish("read_by_handle") = {"ATTCLIENT_ATTRIBUTE_FOUND_EVT"} \cup ProcedureOver
        /\ \A c \in {"find_information", "attribute_write", "read_by_group_type"} : Finish(c) = ProcedureOver
    BY DEF Finish
  <2>4. s.on = Finish(Did)
    BY <2>2, <2>3
  <2>5. Did \in Lasting /\ (Did # "connect_direct" => OnConnection(call.op))
    BY <2>2, SMT DEF Lasting, LinkCommands, OnConnection
  <2>6. call.step > 1 /\ (Did = "disconnect" => call.op = "disconnect") /\ (Did = "connect_direct" <=> call.op = "connect")
    BY <2>2, SMT
  <2> QED  BY <2>4, <2>5, <2>6
<1>4. s.send = "disconnect" => call.op = "disconnect"
  BY <1>1
<1>5. /\ Commands("connect") = {"connect_direct"} /\ Commands("update") = {"update"}
      /\ Commands("disconnect") = {"disconnect"} /\ Commands("write") = {"attribute_write"}
      /\ Commands("read") = {"find_information", "read_by_handle"}
      /\ Commands("readall") = {"read_by_group_type", "find_information"}
      /\ Commands("discover") = {"discover"} /\ Commands("info") = {"get_info", "get_connections"}
  <2>1. \A a : DOMAIN <<a>> = {1}
    OBVIOUS
  <2>2. \A a, b : DOMAIN <<a, b>> = {1, 2}
    OBVIOUS
  <2>3. \A a, b, c, d : DOMAIN <<a, b, c, d>> = {1, 2, 3, 4}
    OBVIOUS
  <2>4. Commands("connect") = {"connect_direct"} /\ Commands("update") = {"update"}
    BY <2>2, Scripted DEF Commands, Step
  <2>5. Commands("disconnect") = {"disconnect"} /\ Commands("write") = {"attribute_write"}
    BY <2>2, Scripted DEF Commands, Step
  <2>6. Commands("read") = {"find_information", "read_by_handle"}
    BY <2>3, Scripted DEF Commands, Step
  <2>7. Commands("readall") = {"read_by_group_type", "find_information"}
    BY <2>3, Scripted DEF Commands, Step
  <2>8. Commands("discover") = {"discover"} /\ Commands("info") = {"get_info", "get_connections"}
    BY <2>1, <2>2, Scripted DEF Commands, Step
  <2> QED  BY <2>4, <2>5, <2>6, <2>7, <2>8
<1>6. LastStep => call.step = Len(Script[call.op])
  BY DEF LastStep
<1>7. LastStep /\ s.send = "none" =>
              \/ call.op \in {"connect", "update", "disconnect", "write"} /\ Commands(call.op) = {Did}
              \/ /\ call.op \in {"read", "readall"} /\ call.step > 2
                 /\ Commands(call.op) = {Script[call.op][1].send, Did}
  BY <1>1, <1>2, <1>5, <1>6, ScriptLengths, SMTT(60) DEF Did
<1>8. LastStep /\ s.send # "none" =>
              \/ call.op = "discover" /\ Commands(call.op) = {"discover"} /\ s.send = "discover"
              \/ /\ call.op = "info" /\ Commands(call.op) = {"get_info", "get_connections"} /\ s.send = "get_connections"
                 /\ call.step > 1
  <2>1. SUFFICES ASSUME LastStep, s.send # "none"
                 PROVE  (call.op = "discover" /\ s.send = "discover")
                        \/ (call.op = "info" /\ s.send = "get_connections" /\ call.step > 1)
    BY <1>5
  <2>2. call.op \in {"connect", "update", "disconnect", "write", "info"} => call.step = 2
    BY <1>6, <2>1, StepCount
  <2>3. call.op \in {"read", "readall"} => call.step = 4
    BY <1>6, <2>1, StepCount
  <2> QED  BY <1>1, <2>1, <2>2, <2>3
<1> QED  BY <1>3, <1>4, <1>7, <1>8 DEF s

LEMMA StepGoesOn ==
  ASSUME CallFits, call.op \in Ops, ~LastStep
  PROVE  LET next == Script[call.op][call.step + 1] IN
         /\ call.step + 1 \in 1 .. Len(Script[call.op])
         /\ Current.send \in Lasting => next.send = "none"
         /\ Current.send = "none" => next.send \in LinkCommands /\ call.op \in {"read", "readall"} /\ call.step = 2
                                     /\ Did = Script[call.op][1].send
         /\ Current.send \notin Lasting \cup {"none"} => /\ call.op = "info" /\ Current.send = "get_info"
                                                         /\ next.send = "get_connections"
         /\ call.op \in {"read", "readall"} /\ call.step > 2 => Current.send # "none"
<1> DEFINE s == Current
           n == Script[call.op][call.step + 1]
<1>0. call.step \in 1 .. Len(Script[call.op]) /\ s = Script[call.op][call.step] /\ Len(Script[call.op]) \in Nat
      /\ call.step \in Nat /\ call.step # Len(Script[call.op])
  BY ScriptLengths DEF CallFits, Current, LastStep
<1>1. call.step + 1 \in 1 .. Len(Script[call.op])
  BY <1>0
<1>2. LET op == call.op  step == call.step IN
         \/ op = "connect" /\ step = 1 /\ s.send = "connect_direct" /\ n.send = "none"
         \/ op = "update" /\ step = 1 /\ s.send = "update" /\ n.send = "none"
         \/ op = "disconnect" /\ step = 1 /\ s.send = "disconnect" /\ n.send = "none"
         \/ op = "read" /\ step = 1 /\ s.send = "find_information" /\ n.send = "none"
         \/ op = "read" /\ step = 2 /\ s.send = "none" /\ n.send = "read_by_handle"
         \/ op = "read" /\ step = 3 /\ s.send = "read_by_handle" /\ n.send = "none"
         \/ op = "write" /\ step = 1 /\ s.send = "attribute_write" /\ n.send = "none"
         \/ op = "readall" /\ step = 1 /\ s.send = "read_by_group_type" /\ n.send = "none"
         \/ op = "readall" /\ step = 2 /\ s.send = "none" /\ n.send = "find_information"
         \/ op = "readall" /\ step = 3 /\ s.send = "find_information" /\ n.send = "none"
         \/ op = "info" /\ step = 1 /\ s.send = "get_info" /\ n.send = "get_connections"
  <2>1. call.op \in Ops /\ call.step \in 1 .. Len(Script[call.op]) /\ call.step # Len(Script[call.op])
    BY <1>0
  <2>3. \/ call.op \in {"connect", "update", "disconnect", "write", "info"} /\ call.step = 1
        \/ call.op \in {"read", "readall"} /\ call.step \in {1, 2, 3}
    <3> DEFINE len == Len(Script[call.op])
    <3>0. call.step \in 1 .. len /\ call.step # len
      BY <2>1
    <3>1. \/ call.op \in {"connect", "update", "disconnect", "write", "info"} /\ len = 2
          \/ call.op \in {"read", "readall"} /\ len = 4
          \/ len = 1
      BY StepCount DEF Ops
    <3> HIDE DEF len
    <3> QED  BY <1>0, <3>0, <3>1
  <2>4. /\ Script["connect"][1].send = "connect_direct" /\ Script["connect"][1 + 1].send = "none"
        /\ Script["update"][1].send = "update" /\ Script["update"][1 + 1].send = "none"
        /\ Script["disconnect"][1].send = "disconnect" /\ Script["disconnect"][1 + 1].send = "none"
        /\ Script["write"][1].send = "attribute_write" /\ Script["write"][1 + 1].send = "none"
        /\ Script["info"][1].send = "get_info" /\ Script["info"][1 + 1].send = "get_connections"
    BY Scripted DEF Step
  <2>5. /\ Script["read"][1].send = "find_information" /\ Script["read"][1 + 1].send = "none" /\ Script["read"][2].send = "none"
        /\ Script["read"][2 + 1].send = "read_by_handle" /\ Script["read"][3].send = "read_by_handle"
        /\ Script["read"][3 + 1].send = "none"
    BY Scripted DEF Step
  <2>6. /\ Script["readall"][1].send = "read_by_group_type" /\ Script["readall"][1 + 1].send = "none"
        /\ Script["readall"][2].send = "none" /\ Script["readall"][2 + 1].send = "find_information"
        /\ Script["readall"][3].send = "find_information" /\ Script["readall"][3 + 1].send = "none"
    BY Scripted DEF Step
  <2> QED  BY <1>0, <2>3, <2>4, <2>5, <2>6, ZenonT(60)
<1>3. call.step = 2 => Did = Script[call.op][1].send
  BY DEF Did
<1> HIDE DEF s, n
<1>4. /\ s.send \in Lasting => n.send = "none"
      /\ s.send = "none" => n.send \in LinkCommands /\ call.op \in {"read", "readall"} /\ call.step = 2
      /\ s.send \notin Lasting \cup {"none"} => call.op = "info" /\ s.send = "get_info" /\ n.send = "get_connections"
      /\ call.op \in {"read", "readall"} /\ call.step > 2 => s.send # "none"
  BY <1>2, SMT DEF Lasting, LinkCommands
<1> QED  BY <1>1, <1>3, <1>4 DEF s, n

-----------------------------------------------------------------------------
(* The dongle goes on.                                                     *)

LEMMA EventFieldsAre == \A evt, ch, code : LET e == Event(evt, ch, code) IN e.evt = evt /\ e.ch = ch /\ e.code = code
BY DEF Event

LEMMA SucceedsFollows ==
  ASSUME ProcedureSucceeds
  PROVE  Follows(Success(procedure.cmd, procedure.ch, procedure.device), procedure, performed, procedure', performed')
<1> DEFINE c == procedure.cmd
           h == procedure.ch
           m == Success(c, h, procedure.device)
<1>1. c \in Lasting /\ performed' = performed \cup {c} /\ procedure'.cmd \notin LinkCommands
  BY Succeeds DEF Idle, LinkCommands
<1>2. c # "error" /\ c \in performed' /\ performed \subseteq performed'
  BY <1>1 DEF Lasting, LinkCommands
<1>3. EventOf(m).code = 0 /\ (c = "connect_direct" => EventOf(m).evt = "GAP_CONNECTION_EVT")
  <2>1. CASE c = "connect_direct"
    <3>1. EventOf(m) = Event("GAP_CONNECTION_EVT", 0, 0)
      BY <2>1, SuccessIs, StatusMsgRead
    <3> QED  BY <3>1, EventFieldsAre
  <2>2. CASE c = "update"
    <3>1. EventOf(m) = Event("CONNECTION_UPDATE_EVT", h, 0)
      BY <2>2, SuccessIs, StatusMsgRead
    <3> QED  BY <2>2, <3>1, EventFieldsAre
  <2>3. CASE c = "disconnect"
    <3>1. EventOf(m) = Event("CONNECTION_DISCONNECT_EVT", h, 0)
      BY <2>3, SuccessIs, GoneMsgRead
    <3> QED  BY <2>3, <3>1, EventFieldsAre
  <2>4. CASE c = "read_by_handle"
    <3>1. EventOf(m) = Event("ATTCLIENT_ATTRIBUTE_FOUND_EVT", h, 0)
      BY <2>4, SuccessIs, ValueMsgRead
    <3> QED  BY <2>4, <3>1, EventFieldsAre
  <2>5. CASE c \in Completing
    <3>1. EventOf(m) = Event("GATT_PROCEDURE_COMPLETE_EVT", h, 0)
      BY <2>5, SuccessIs, CompletedMsgRead
    <3>2. c # "connect_direct"
      BY <2>5 DEF Completing
    <3> QED  BY <3>1, <3>2, EventFieldsAre
  <2> QED  BY <1>1, <2>1, <2>2, <2>3, <2>4, <2>5 DEF Lasting, LinkCommands, Completing
<1> HIDE DEF m, c
<1>4. ASSUME NEW d, NEW ch, Ends(m, d, ch), c \in LinkCommands => d = c /\ ch = h, "error" \notin performed
      PROVE  Verdict(m, d, performed')
  <2>1. d = c
    <3>1. CASE c = "connect_direct"
      BY <1>3, <1>4, <3>1, FinishIs DEF Ends
    <3> QED  BY <1>1, <1>4, <3>1 DEF Lasting
  <2>2. "error" \notin performed'
    BY <1>1, <1>2, <1>4
  <2> QED  BY <1>2, <1>3, <2>1, <2>2 DEF Verdict, Ok
<1>5. "error" \in performed' => "error" \in performed
  BY <1>1, <1>2
<1> QED  BY <1>1, <1>2, <1>4, <1>5 DEF Follows, m, c

LEMMA FailsFollows ==
  ASSUME ProcedureFails
  PROVE  Follows(CompletedMsg(procedure.ch, 1025), procedure, performed, procedure', performed')
<1> DEFINE h == procedure.ch
           m == CompletedMsg(h, 1025)
<1>1. procedure.cmd \in LinkCommands \ {"update", "disconnect"} /\ performed' = performed \cup {"error"}
      /\ procedure'.cmd \notin LinkCommands
  BY Fails DEF ProcedureFails, Idle, LinkCommands
<1>2. EventOf(m).evt = "GATT_PROCEDURE_COMPLETE_EVT" /\ EventOf(m).ch = h /\ EventOf(m).code = 1025
  BY CompletedMsgRead, EventFieldsAre
<1> HIDE DEF m
<1>3. Ends(m, procedure.cmd, procedure.ch)
  BY <1>1, <1>2, FinishIs DEF Ends
<1>4. \A c : Verdict(m, c, performed')
  <2>1. PICK n : n = 1025
    OBVIOUS
  <2>2. n # 0
    BY <2>1
  <2> QED  BY <1>1, <1>2, <2>1, <2>2 DEF Verdict, Ok
<1> QED  BY <1>1, <1>3, <1>4 DEF Follows, m

\* A message that ends nothing.
LEMMA NothingFollows ==
  ASSUME NEW m, EventOf(m).evt \in {"none", "GAP_SET_SCANPARAMETER_RSP_EVT", "GAP_ENDPROCEDURE_RSP_EVT"},
         NEW proc, NEW done, NEW proc2, NEW done2, done \subseteq done2, "error" \in done2 => "error" \in done,
         proc2.cmd \in LinkCommands => proc2 = proc
  PROVE  Follows(m, proc, done, proc2, done2)
<1>1. \A c, ch : ~Ends(m, c, ch)
  BY FinishIs DEF Ends
<1> QED  BY <1>1 DEF Follows

LEMMA LostFollows ==
  ASSUME LinkLost, NEW h, procedure' = IF procedure.cmd \in LinkCommands /\ procedure.ch = h THEN Idle ELSE procedure
  PROVE  Follows(GoneMsg(h, 520), procedure, performed, procedure', performed')
<1> DEFINE m == GoneMsg(h, 520)
<1>1. performed' = performed \cup {"lost"}
  BY DEF LinkLost
<1>2. /\ EventOf(m).evt = "CONNECTION_DISCONNECT_EVT" /\ EventOf(m).ch = h /\ EventOf(m).code = 0
      /\ m.idx = "disconnected"
  BY GoneMsgRead, EventFieldsAre
<1> HIDE DEF m
<1>3. procedure'.cmd \in LinkCommands => procedure' = procedure /\ procedure.ch # h
  BY DEF Idle, LinkCommands
<1>4. \A c, ch : Ends(m, c, ch) => ch = h
  BY <1>2 DEF Ends
<1>5. "error" \notin performed => \A c : Verdict(m, c, performed')
  BY <1>1, <1>2 DEF Verdict, Ok
<1>6. performed \subseteq performed' /\ ("error" \in performed' => "error" \in performed)
  BY <1>1
<1> QED  BY <1>3, <1>4, <1>5, <1>6 DEF Follows, m

\* While the gateway stands still, a command is where it was.
LEMMA CommandStands ==
  ASSUME UNCHANGED gateway
  PROVE  /\ UNCHANGED <<stage, call, answer, request, connectedDevices>> /\ Current' = Current /\ Did' = Did
         /\ WaitChannel' = WaitChannel /\ AtWork' = AtWork
BY DEF gateway, Current, Did, WaitChannel, AtWork

LEMMA RepliedTells ==
  ASSUME NEW s \in Seq(Answers), NEW m, NEW i \in 1 .. Len(s), NEW c, NEW ch, NEW proc, NEW done, NEW proc2, NEW done2,
         Replied(s, i, c, ch, proc, done), Follows(m, proc, done, proc2, done2)
  PROVE  Replied(Append(s, m), i, c, ch, proc2, done2)
<1>1. Append(s, m)[i] = s[i] /\ i \in 0 .. Len(s)
  BY Appends
<1>2. proc.cmd \notin LinkCommands => /\ proc2.cmd \notin LinkCommands
                                      /\ "error" \in done2 <=> "error" \in done
  BY DEF Follows
<1>3. done \subseteq done2
  BY DEF Follows
<1>4. Going(s, i, c, ch, proc, done) => Going(Append(s, m), i, c, ch, proc2, done2)
  BY <1>1, GoingTells
<1> QED  BY <1>1, <1>2, <1>3, <1>4 DEF Replied, Undisturbed

LEMMA TellsProgress ==
  ASSUME PathInv, Progress, UNCHANGED gateway, NEW m, toDriver' = Append(toDriver, m), m.idx \notin Awaited,
         Follows(m, procedure, performed, procedure', performed')
  PROVE  Progress'
<1>1. toDriver \in Seq(Answers) /\ 0 \in 0 .. Len(toDriver) /\ DOMAIN toDriver = 1 .. Len(toDriver)
  BY DEF PathInv, TrafficFits
<1>2. /\ UNCHANGED <<stage, call>> /\ Current' = Current /\ Did' = Did /\ WaitChannel' = WaitChannel /\ AtWork' = AtWork
  BY CommandStands
<1>3. Pending' = Pending /\ Pending \subseteq 1 .. Len(toDriver)
  BY <1>1, PendingAppended DEF Pending
<1>4. procedure.cmd \notin LinkCommands => /\ procedure'.cmd \notin LinkCommands
                                           /\ "error" \in performed' <=> "error" \in performed
  BY DEF Follows
<1>5. performed \subseteq performed'
  BY DEF Follows
<1>6. AtWork /\ Current.send = "none" => Going(toDriver', 0, Did, WaitChannel, procedure', performed')
  <2>1. AtWork /\ Current.send = "none" => Going(toDriver, 0, Did, WaitChannel, procedure, performed)
    BY DEF Progress
  <2>2. Going(toDriver, 0, Did, WaitChannel, procedure, performed) =>
          Going(Append(toDriver, m), 0, Did, WaitChannel, procedure', performed')
    BY <1>1, GoingTells
  <2> QED  BY <2>1, <2>2
<1>7. AtWork /\ Current.send # "none" =>
        /\ Pending = {} => Undisturbed(procedure', performed')
        /\ \A i \in Pending : Replied(toDriver', i, Current.send, WaitChannel, procedure', performed')
  <2>1. AtWork /\ Current.send # "none" /\ Pending = {} => Undisturbed(procedure', performed')
    BY <1>4 DEF Progress, Undisturbed
  <2>2. ASSUME AtWork, Current.send # "none", NEW i \in Pending
        PROVE  Replied(toDriver', i, Current.send, WaitChannel, procedure', performed')
    <3>1. i \in 1 .. Len(toDriver) /\ Replied(toDriver, i, Current.send, WaitChannel, procedure, performed)
      BY <1>3, <2>2 DEF Progress
    <3> QED  BY <1>1, <3>1, RepliedTells
  <2> QED  BY <2>1, <2>2
<1>8. ~AtWork => procedure'.cmd \notin LinkCommands /\ (stage # "answered" => "error" \notin performed')
  BY <1>4 DEF Progress
<1>9. stage = "scanning" => "discover" \in performed'
  BY <1>5 DEF Progress
<1> QED  BY <1>2, <1>3, <1>6, <1>7, <1>8, <1>9 DEF Progress

LEMMA CodeOfResponse ==
  ASSUME NEW m \in CommandMessages, NEW result \in ResultsOf(m.idx, Args(m)), NEW h
  PROVE  /\ EventOf(Rsp(m.idx, h, result)).code = result
         /\ m.idx \in Unawaited =>
              EventOf(Rsp(m.idx, h, result)).evt \in {"GAP_SET_SCANPARAMETER_RSP_EVT", "GAP_ENDPROCEDURE_RSP_EVT"}
<1> DEFINE c == m.idx
<1>1. c \in Commanded /\ (c \in {"get_info", "get_connections"} => result = 0)
  BY ResultsAre
<1> HIDE DEF c
<1>2. CASE c \in Simply
  <2>1. EventOf(Rsp(c, h, result)) = Event(SimpleEvent[c], 0, result)
    <3>1. Rsp(c, h, result) = SimpleRsp(c, result)
      BY <1>2, RspIs
    <3>2. EventOf(SimpleRsp(c, result)) = Event(SimpleEvent[c], 0, result)
      BY <1>2, SimpleRspRead
    <3> QED  BY <3>1, <3>2
  <2>2. /\ SimpleEvent["set_scan_parameters"] = "GAP_SET_SCANPARAMETER_RSP_EVT"
        /\ SimpleEvent["end_procedure"] = "GAP_ENDPROCEDURE_RSP_EVT"
    BY DEF SimpleEvent
  <2> QED  BY <2>1, <2>2, EventFieldsAre DEF c, Unawaited
<1>3. CASE c \in LinkCommands
  <2>1. EventOf(Rsp(c, h, result)) = Event(SimpleConnectionEvent[c], h, result)
    <3>1. Rsp(c, h, result) = LinkRsp(c, h, result)
      BY <1>3, RspIs
    <3>2. EventOf(LinkRsp(c, h, result)) = Event(SimpleConnectionEvent[c], h, result)
      BY <1>3, LinkRspRead
    <3> QED  BY <3>1, <3>2
  <2>2. c \notin Unawaited
    BY <1>3 DEF LinkCommands, Unawaited
  <2> QED  BY <2>1, <2>2, EventFieldsAre DEF c
<1>4. CASE c = "connect_direct"
  <2>1. EventOf(Rsp(c, h, result)) = Event("GAP_CONNECTION_RSP_EVT", 0, result)
    BY <1>4, RspIs, ConnectRspRead
  <2> QED  BY <1>4, <2>1, EventFieldsAre DEF c, Unawaited
<1>5. CASE c \in {"get_info", "get_connections"}
  <2>1. EventOf(Rsp(c, h, result)).code = 0
    BY <1>5, RspIs, InfoRspsRead, EventFieldsAre
  <2> QED  BY <1>1, <1>5, <2>1 DEF c, Unawaited
<1> QED  BY <1>1, <1>2, <1>3, <1>4, <1>5 DEF Commanded

\* A command that the client carries out: one that nobody waits for, or that of the present step.
LEMMA WhatIsExecuted ==
  ASSUME PathInv, OursInv, NEW m, NEW result, NEW h, ClientCall(m, result, h)
  PROVE  /\ m \in CommandMessages /\ m.idx \in Commanded
         /\ \/ m.idx \in Unawaited
            \/ /\ m.idx \notin Unawaited /\ m.idx \in Awaited /\ AtWork /\ Current.send = m.idx /\ Pending = {}
               /\ call.op \in Ops /\ SentBy(call.op, m.idx) /\ m = Sent(m.idx) /\ request \in Requests
<1>1. toClient \in Seq(CommandMessages) /\ toClient # <<>> /\ m = toClient[1] /\ 1 \in DOMAIN toClient
  BY DEF PathInv, TrafficFits, ClientCall
<1>2. m \in CommandMessages
  BY <1>1
<1>3. result \in ResultsOf(m.idx, Args(m))
  BY DEF ClientCall
<1>4. m.idx \in Commanded
  BY <1>2, <1>3, ResultsAre
<1>5. ASSUME m.idx \notin Unawaited
      PROVE  /\ AtWork /\ Current.send = m.idx /\ Pending = {}
             /\ call.op \in Ops /\ SentBy(call.op, m.idx) /\ m = Sent(m.idx) /\ request \in Requests
  <2>1. m # EndMsg
    BY <1>5, SentIdx DEF Unawaited
  <2>2. Awaiting /\ OneWait
    BY <1>1, <2>1 DEF OursInv, Quiet
  <2>3. m.idx = Current.send /\ Pending = {}
    BY <1>1, <1>5, <2>2 DEF OneWait
  <2>4. call.op \in Ops /\ SentBy(call.op, m.idx) /\ m = Sent(m.idx)
    BY <1>1, <2>1 DEF OursInv, AllOurs, OurMsg
  <2>5. stage = "wait" /\ AtWork /\ request \in Requests
    BY <2>2 DEF Awaiting, AtWork, PathInv, StageFits
  <2> QED  BY <2>3, <2>4, <2>5
<1> QED  BY <1>2, <1>4, <1>5 DEF Awaited

\* The handle in a command is that of the connection.
LEMMA CommandChannel ==
  ASSUME request \in Requests, NEW c \in LinkCommands, SentBy(call.op, c)
  PROVE  OnConnection(call.op) /\ Args(Sent(c)).connection = WaitChannel /\ WaitChannel = call.handle
BY LinkCommandsSent, SentCalled DEF WaitChannel

LEMMA ClientProgress ==
  ASSUME PathInv, OursInv, Progress, ClientExecutes
  PROVE  Progress'
<1>1. PICK m \in CommandMessages :
        \E result \in ResultsOf(m.idx, Args(m)) : ClientCall(m, result, Subject(m.idx, Args(m)))
  BY ClientCalls1 DEF PathInv, TrafficFits
<1>2. PICK result \in ResultsOf(m.idx, Args(m)) : ClientCall(m, result, Subject(m.idx, Args(m)))
  BY <1>1
<1> DEFINE h == Subject(m.idx, Args(m))
           c == m.idx
           rsp == Rsp(c, h, result)
<1>3. /\ UNCHANGED gateway /\ toDriver \in Seq(Answers) /\ toDriver' = Append(toDriver, rsp)
      /\ procedure' = IF result = 0 THEN ProcedureAfter(c, Args(m), h) ELSE procedure
      /\ performed' = IF result = 0 /\ c \notin Lasting THEN performed \cup {c}
                      ELSE IF result # 0 /\ c \notin Unawaited THEN performed \cup {"error"} ELSE performed
  BY <1>2 DEF ClientCall, ClientExecutes, PathInv, TrafficFits
<1>4. EventOf(rsp).code = result
      /\ (c \in Unawaited => EventOf(rsp).evt \in {"GAP_SET_SCANPARAMETER_RSP_EVT", "GAP_ENDPROCEDURE_RSP_EVT"})
  BY CodeOfResponse
<1>5. c \in Commanded /\ rsp.idx = c /\ result \in Results
  BY <1>2, ResultsAre, ResponsePacked
<1>6. /\ UNCHANGED <<stage, call, request>> /\ Current' = Current /\ Did' = Did /\ WaitChannel' = WaitChannel /\ AtWork' = AtWork
  BY <1>3, CommandStands
<1>7. CASE c \in Unawaited
  <2>1. performed \subseteq performed' /\ ("error" \in performed' => "error" \in performed)
    BY <1>3, <1>7 DEF Unawaited
  <2>2. procedure'.cmd \in LinkCommands => procedure' = procedure
    BY <1>3, <1>7, ProcedureAfterIs DEF Unawaited, Idle, LinkCommands
  <2>3. Follows(rsp, procedure, performed, procedure', performed')
    BY <1>4, <1>7, <2>1, <2>2, NothingFollows
  <2>4. rsp.idx \notin Awaited
    BY <1>5, <1>7 DEF Awaited
  <2> QED  BY <1>3, <2>3, <2>4, TellsProgress
<1>8. CASE c \notin Unawaited
  <2>1. /\ AtWork /\ Current.send = c /\ Pending = {} /\ c \in Awaited
        /\ call.op \in Ops /\ SentBy(call.op, c) /\ m = Sent(c) /\ request \in Requests
    BY <1>2, <1>8, WhatIsExecuted
  <2>2. c # "none" /\ c # "error"
    BY <2>1, AwaitedAre DEF LinkCommands
  <2>3. procedure.cmd \notin LinkCommands /\ "error" \notin performed
    BY <2>1, <2>2 DEF Progress, Undisturbed
  <2>4. \A i \in Pending' : i = Len(toDriver) + 1 /\ toDriver'[i] = rsp
    BY <1>3, <2>1, PendingAppended
  <2>5. Len(toDriver) + 1 \in Pending'
    <3>1. Len(toDriver) + 1 \in DOMAIN toDriver' /\ toDriver'[Len(toDriver) + 1] = rsp
      BY <1>3, Appends
    <3> QED  BY <1>5, <2>1, <3>1 DEF Pending
  <2> DEFINE n == Len(toDriver) + 1
  <2>6. toDriver'[n] = rsp /\ n \in Nat /\ Len(toDriver') = n
    BY <1>3, <2>4, <2>5
  <2> HIDE DEF c, h, rsp, n
  <2>7. result # 0 => procedure'.cmd \notin LinkCommands /\ "error" \in performed'
    BY <1>3, <1>8, <2>3
  <2>8. ASSUME result = 0, c \in Lasting PROVE Going(toDriver', n, c, WaitChannel, procedure', performed')
    <3>1. "error" \notin performed'
      BY <1>3, <2>3, <2>8
    <3>2. procedure'.cmd \in LinkCommands => procedure'.cmd = c /\ procedure'.ch = WaitChannel
      <4>1. CASE c = "connect_direct"
        <5>1. procedure'.cmd = "connect_direct"
          BY <1>3, <2>8, <4>1, ProcedureAfterIs
        <5> QED  BY <5>1 DEF LinkCommands
      <4>2. CASE c \in LinkCommands
        <5>1. procedure' = [cmd |-> c, ch |-> h, device |-> links[h]]
          BY <1>3, <2>8, <4>2, ProcedureAfterIs
        <5>2. h = Args(m).connection
          BY <4>2, ResultsAre DEF c, h
        <5>3. Args(m).connection = WaitChannel
          BY <2>1, <4>2, CommandChannel
        <5> QED  BY <5>1, <5>2, <5>3
      <4> QED  BY <2>8, <4>1, <4>2 DEF Lasting
    <3>3. \A j \in n + 1 .. Len(toDriver') : FALSE
      BY <2>6
    <3> QED  BY <3>1, <3>2, <3>3 DEF Going
  <2>9. ASSUME result = 0, c \notin Lasting PROVE Undisturbed(procedure', performed') /\ c \in performed'
    <3>1. performed' = performed \cup {c}
      BY <1>3, <2>9
    <3>2. c \in {"discover", "get_info", "get_connections"}
      BY <2>1, <2>9, AwaitedAre DEF Lasting
    <3>3. procedure'.cmd \notin LinkCommands
      <4>1. CASE c = "discover"
        <5>1. procedure'.cmd = "discover"
          BY <1>3, <2>9, <4>1, ProcedureAfterIs
        <5> QED  BY <5>1 DEF LinkCommands
      <4>2. CASE c \in {"get_info", "get_connections"}
        <5>1. procedure' = procedure
          BY <1>3, <2>9, <4>2, ProcedureAfterIs
        <5> QED  BY <2>3, <5>1
      <4> QED  BY <3>2, <4>1, <4>2
    <3> QED  BY <2>2, <2>3, <3>1, <3>3 DEF Undisturbed
  <2>10. EventOf(toDriver'[n]).code = result
    BY <1>4, <2>6 DEF rsp, c, h
  <2>11. Replied(toDriver', n, c, WaitChannel, procedure', performed')
    BY <2>7, <2>8, <2>9, <2>10 DEF Replied, Ok
  <2>12. AtWork' /\ Current'.send = c /\ c # "none"
    BY <1>6, <2>1, <2>2
  <2>13. /\ Pending' = {} => Undisturbed(procedure', performed')
         /\ \A i \in Pending' : Replied(toDriver', i, Current'.send, WaitChannel', procedure', performed')
    BY <1>6, <2>4, <2>5, <2>11, <2>12 DEF n
  <2>14. stage' # "scanning"
    BY <1>6, <2>1 DEF AtWork
  <2> QED  BY <2>12, <2>13, <2>14 DEF Progress
<1> QED  BY <1>7, <1>8

LEMMA NoStatus == answer'.status = 0 => StatusTruthful'
BY DEF StatusTruthful

LEMMA StatusStays ==
  ASSUME StatusTruthful, UNCHANGED <<request, answer, call>>, performed \subseteq performed',
         "error" \in performed' => "error" \in performed, Left({"end_procedure"})' => Left({"end_procedure"})
  PROVE  StatusTruthful'
<1>1. /\ answer.status \in {200, 201} /\ call.op # "none" =>
           /\ \/ Commands(call.op) \subseteq performed
              \/ call.op \in {"write", "disconnect"} /\ "lost" \in performed
           /\ "error" \notin performed
      /\ answer.status \in {200, 201} /\ call.op = "none" => IsGlobal(request) \/ NoneNeeded
      /\ answer.status = 201 => "connect_direct" \in performed
      /\ answer.status = 502 => performed \cap {"error", "lost", "timeout"} # {}
      /\ answer.status = 404 => ~Left({"end_procedure"}) \/ "lost" \in performed
      /\ answer.status \in {400, 405, 406} => ~Left({"end_procedure"})
  BY DEF StatusTruthful
<1>2. /\ Commands(call'.op) = Commands(call.op) /\ answer'.status = answer.status /\ call'.op = call.op
      /\ IsGlobal(request') = IsGlobal(request) /\ NoneNeeded' = NoneNeeded
  BY DEF NoneNeeded, DiscoverTime, LastUpdate
<1> QED  BY <1>1, <1>2 DEF StatusTruthful

\* A message of the dongle's own, while the gateway stands still.
LEMMA TellsLoss ==
  ASSUME PathInv, LossKnown, StepsDone, UNCHANGED gateway, NEW m, toDriver' = Append(toDriver, m), m.idx \notin Awaited,
         performed \subseteq performed',
         AtWork /\ OnConnection(call.op) =>
           /\ links'[call.handle] # Nobody => /\ links[call.handle] # Nobody
                                              /\ ~(m.idx = "disconnected" /\ Read(m).connection = call.handle)
           /\ links'[call.handle] = Nobody => \/ links[call.handle] = Nobody
                                              \/ "lost" \in performed' \/ call.op = "disconnect"
  PROVE  LossKnown' /\ StepsDone'
<1>1. toDriver \in Seq(Answers)
  BY DEF PathInv, TrafficFits
<1>2. /\ UNCHANGED <<stage, call, connectedDevices>> /\ Current' = Current /\ AtWork' = AtWork
  BY CommandStands
<1>3. Pending' = Pending /\ \A i \in Pending : toDriver'[i] = toDriver[i]
  <2>1. Pending' = Pending /\ Pending \subseteq DOMAIN toDriver
    BY <1>1, PendingAppended DEF Pending
  <2> QED  BY <1>1, <2>1, Appends
<1>4. Accepted' <=> Accepted
  BY <1>2, <1>3 DEF Accepted
<1>5. \A i \in DOMAIN toDriver' : toDriver'[i] = m \/ (i \in DOMAIN toDriver /\ toDriver'[i] = toDriver[i])
  <2>1. /\ DOMAIN toDriver' = 1 .. Len(toDriver) + 1 /\ DOMAIN toDriver = 1 .. Len(toDriver) /\ Len(toDriver) \in Nat
        /\ toDriver'[Len(toDriver) + 1] = m /\ \A i \in 1 .. Len(toDriver) : toDriver'[i] = toDriver[i]
    BY <1>1, Appends
  <2> QED  BY <2>1
<1>6. ASSUME AtWork, OnConnection(call.op) PROVE
        /\ Broken => Broken'
        /\ ~Broken' => /\ connectedDevices'[call.handle] # Nobody
                       /\ \A i \in DOMAIN toDriver' : ~(toDriver'[i].idx = "disconnected" /\ Read(toDriver'[i]).connection = call.handle)
        /\ Broken' /\ (call.step > 1 \/ Accepted) => "lost" \in performed' \/ call.op = "disconnect"
  <2>1. Broken => Broken'
    BY <1>2, <1>6 DEF Broken
  <2>2. ASSUME ~Broken' PROVE \A i \in DOMAIN toDriver' : ~(toDriver'[i].idx = "disconnected" /\ Read(toDriver'[i]).connection = call.handle)
    <3>1. \A i \in DOMAIN toDriver : ~(toDriver[i].idx = "disconnected" /\ Read(toDriver[i]).connection = call.handle)
      BY <1>6, <2>1, <2>2 DEF LossKnown
    <3>2. ~(m.idx = "disconnected" /\ Read(m).connection = call.handle)
      BY <1>2, <1>6, <2>2 DEF Broken
    <3> QED  BY <1>5, <3>1, <3>2
  <2>3. ~Broken' => connectedDevices'[call.handle] # Nobody
    BY <1>2, <1>6, <2>1 DEF LossKnown
  <2>4. Broken' /\ (call.step > 1 \/ Accepted) => "lost" \in performed' \/ call.op = "disconnect"
    BY <1>2, <1>6 DEF LossKnown, Broken
  <2> QED  BY <2>1, <2>2, <2>3, <2>4
<1>7. LossKnown'
  BY <1>2, <1>4, <1>6 DEF LossKnown
<1>8. AtWork /\ call.op \in {"read", "readall"} => OnConnection(call.op)
  BY DEF OnConnection
<1>9. StepsDone'
  <2>1. Script[call'.op][1].send = Script[call.op][1].send
    BY <1>2
  <2> QED  BY <1>2, <1>4, <1>6, <1>8, <2>1 DEF StepsDone
<1> QED  BY <1>7, <1>9

\* What has become of a request is not changed by what follows.
LEMMA TellsStatus ==
  ASSUME PathInv, Progress, StatusTruthful, UNCHANGED <<gateway, asked, toClient>>,
         NEW m, Follows(m, procedure, performed, procedure', performed')
  PROVE  StatusTruthful'
<1>1. UNCHANGED <<stage, request, answer, call>>
  BY CommandStands DEF gateway
<1>2. CASE stage = "answered"
  <2>1. ~AtWork
    BY <1>2 DEF AtWork
  <2>2. performed \subseteq performed' /\ ("error" \in performed' => "error" \in performed)
    BY <2>1 DEF Progress, Follows
  <2>3. Left({"end_procedure"})' => Left({"end_procedure"})
    BY DEF Left
  <2> QED  BY <1>1, <2>2, <2>3, StatusStays
<1>3. CASE stage # "answered"
  BY <1>1, <1>3, NoStatus DEF PathInv, AnswerFits, NoAnswer
<1> QED  BY <1>2, <1>3

\* A connection that is worked on is the link of one device; only a procedure on it is.
LEMMA LinkWorked ==
  ASSUME PathInv, OnDeviceInv, OnConnection(call.op)
  PROVE  call.handle \in Handle /\ call.handle \in DOMAIN links /\ (procedure.cmd = "connect_direct" => procedure.ch # call.handle)
BY DEF PathInv, StageFits, CallFits, DevicesFit, OnDeviceInv, Held

LEMMA SucceedsTruth ==
  ASSUME PathInv, TruthInv, OnDeviceInv, ProcedureSucceeds
  PROVE  TruthInv'
<1> DEFINE c == procedure.cmd
           m == Success(c, procedure.ch, procedure.device)
<1>1. /\ c \in Lasting /\ toDriver' = Append(toDriver, m) /\ performed' = performed \cup {c}
      /\ links' = IF c = "connect_direct" THEN [links EXCEPT ![procedure.ch] = procedure.device]
                  ELSE IF c = "disconnect" THEN [links EXCEPT ![procedure.ch] = Nobody] ELSE links
  BY Succeeds
<1>2. UNCHANGED <<gateway, asked, toClient>>
  BY DEF ProcedureSucceeds
<1>3. m.idx \notin Awaited
  BY <1>1, SuccessIs, TellsIdx DEF Lasting, LinkCommands, Completing
<1>4. Follows(m, procedure, performed, procedure', performed')
  BY SucceedsFollows
<1>5. Progress'
  BY <1>1, <1>2, <1>3, <1>4, TellsProgress DEF TruthInv
<1>6. StatusTruthful'
  BY <1>2, <1>4, TellsStatus DEF TruthInv
<1>7. c # "disconnect" => m.idx # "disconnected"
  <2>1. c = "connect_direct" => m.idx = "status"
    BY SuccessIs, StatusNews
  <2>2. c = "update" => m.idx = "status"
    BY SuccessIs, StatusNews
  <2>3. c = "read_by_handle" => m.idx = "attribute_value"
    BY SuccessIs, ValueMsgRead
  <2>4. c \in Completing => m.idx = "procedure_completed"
    BY SuccessIs, CompletedMsgRead, SMTT(60)
  <2> QED  BY <1>1, <2>1, <2>2, <2>3, <2>4 DEF Lasting, LinkCommands, Completing
<1>8. c = "disconnect" => Read(m).connection = procedure.ch
  BY SuccessIs, GoneNews
<1> HIDE DEF m, c
<1>9. ASSUME AtWork, OnConnection(call.op), c = "disconnect" PROVE call.op = "disconnect"
  <2>1. CallFits /\ call.op \in Ops
    BY <1>9 DEF PathInv, StageFits, AtWork
  <2>2. procedure.cmd \in LinkCommands
    BY <1>9 DEF c, LinkCommands
  <2>3. CASE Current.send = "none"
    <3>1. Going(toDriver, 0, Did, WaitChannel, procedure, performed)
      BY <1>9, <2>3 DEF TruthInv, Progress
    <3>2. procedure.cmd = Did
      BY <2>2, <3>1 DEF Going
    <3> QED  BY <1>9, <2>1, <2>3, <3>2, StepFinishes DEF c
  <2>4. CASE Current.send # "none"
    <3>1. PICK i \in Pending : Replied(toDriver, i, Current.send, WaitChannel, procedure, performed)
      BY <1>9, <2>2, <2>4 DEF TruthInv, Progress, Undisturbed
    <3>2. Going(toDriver, i, Current.send, WaitChannel, procedure, performed)
      BY <2>2, <3>1 DEF Replied, Undisturbed
    <3>3. procedure.cmd = Current.send
      BY <2>2, <3>2 DEF Going
    <3> QED  BY <1>9, <2>1, <3>3, StepFinishes DEF c
  <2> QED  BY <2>3, <2>4
<1>10. ASSUME AtWork, OnConnection(call.op) PROVE
           /\ links'[call.handle] # Nobody => /\ links[call.handle] # Nobody
                                              /\ ~(m.idx = "disconnected" /\ Read(m).connection = call.handle)
           /\ links'[call.handle] = Nobody => \/ links[call.handle] = Nobody
                                              \/ "lost" \in performed' \/ call.op = "disconnect"
  <2>1. call.handle \in DOMAIN links /\ (c = "connect_direct" => procedure.ch # call.handle)
    BY <1>10, LinkWorked DEF c
  <2>2. CASE c = "disconnect"
    <3>1. procedure.ch = call.handle => links'[call.handle] = Nobody
      BY <1>1, <2>1, <2>2
    <3>2. procedure.ch # call.handle => links'[call.handle] = links[call.handle]
      BY <1>1, <2>1, <2>2
    <3>3. call.op = "disconnect"
      BY <1>9, <1>10, <2>2
    <3>4. Read(m).connection = procedure.ch
      BY <1>8, <2>2
    <3> QED  BY <3>1, <3>2, <3>3, <3>4
  <2>3. CASE c # "disconnect"
    <3>1. links'[call.handle] = links[call.handle]
      BY <1>1, <2>1, <2>3
    <3> QED  BY <1>7, <2>3, <3>1
  <2> QED  BY <2>2, <2>3
<1>11. LossKnown' /\ StepsDone'
  BY <1>1, <1>2, <1>3, <1>10, TellsLoss DEF TruthInv
<1> QED  BY <1>5, <1>6, <1>11 DEF TruthInv

LEMMA FailsTruth ==
  ASSUME PathInv, TruthInv, ProcedureFails
  PROVE  TruthInv'
<1> DEFINE m == CompletedMsg(procedure.ch, 1025)
<1>1. toDriver' = Append(toDriver, m) /\ performed \subseteq performed' /\ UNCHANGED <<gateway, asked, toClient, links>>
  BY Fails DEF ProcedureFails
<1>2. m.idx \notin Awaited /\ m.idx = "procedure_completed"
  BY TellsIdx, CompletedMsgRead
<1>3. Follows(m, procedure, performed, procedure', performed')
  BY FailsFollows
<1> HIDE DEF m
<1>4. Progress'
  BY <1>1, <1>2, <1>3, TellsProgress DEF TruthInv
<1>5. StatusTruthful'
  BY <1>1, <1>3, TellsStatus DEF TruthInv
<1>6. LossKnown' /\ StepsDone'
  BY <1>1, <1>2, TellsLoss DEF TruthInv
<1> QED  BY <1>4, <1>5, <1>6 DEF TruthInv

LEMMA FindsTruth ==
  ASSUME PathInv, TruthInv, ProcedureFinds
  PROVE  TruthInv'
<1>1. \E m : /\ toDriver' = Append(toDriver, m) /\ m.idx \notin Awaited /\ EventOf(m) = NoEvent
             /\ m.idx \in {"group_found", "information_found", "scan_response"}
  <2>1. PICK h : \/ procedure.cmd \in LinkCommands /\ h = procedure.ch /\ toDriver' = Append(toDriver, GroupFoundMsg(h))
                 \/ procedure.cmd \in LinkCommands /\ h = procedure.ch /\ toDriver' = Append(toDriver, InfoFoundMsg(h))
                 \/ toDriver' = Append(toDriver, FoundMsg)
    BY FindsIs DEF LinkCommands
  <2>2. procedure.cmd \in LinkCommands => procedure.ch \in Handle
    BY LastingRuns DEF Lasting
  <2>3. CASE procedure.cmd \in LinkCommands /\ h = procedure.ch /\ toDriver' = Append(toDriver, GroupFoundMsg(h))
    <3>1. GroupFoundMsg(h) \in Findings
      BY <2>2, <2>3 DEF Findings
    <3> QED  BY <2>3, <3>1, FindingsRead, TellsIdx
  <2>4. CASE procedure.cmd \in LinkCommands /\ h = procedure.ch /\ toDriver' = Append(toDriver, InfoFoundMsg(h))
    <3>1. InfoFoundMsg(h) \in Findings
      BY <2>2, <2>4 DEF Findings
    <3> QED  BY <2>4, <3>1, FindingsRead, TellsIdx
  <2>5. CASE toDriver' = Append(toDriver, FoundMsg)
    <3>1. FoundMsg \in Findings
      BY DEF Findings
    <3> QED  BY <2>5, <3>1, FindingsRead, TellsIdx
  <2> QED  BY <2>1, <2>3, <2>4, <2>5
<1>2. PICK m : /\ toDriver' = Append(toDriver, m) /\ m.idx \notin Awaited /\ EventOf(m) = NoEvent
               /\ m.idx \in {"group_found", "information_found", "scan_response"}
  BY <1>1
<1>3. UNCHANGED <<gateway, asked, toClient, links, procedure, performed>>
  BY DEF ProcedureFinds, dongle
<1>4. EventOf(m).evt = "none"
  BY <1>2, EventFieldsAre DEF NoEvent
<1>5. Follows(m, procedure, performed, procedure', performed')
  BY <1>3, <1>4, NothingFollows
<1>6. Progress'
  BY <1>2, <1>3, <1>5, TellsProgress DEF TruthInv
<1>7. StatusTruthful'
  BY <1>3, <1>5, TellsStatus DEF TruthInv
<1>8. LossKnown' /\ StepsDone'
  BY <1>2, <1>3, TellsLoss DEF TruthInv
<1> QED  BY <1>6, <1>7, <1>8 DEF TruthInv

LEMMA LostTruth ==
  ASSUME PathInv, TruthInv, OnDeviceInv, LinkLost
  PROVE  TruthInv'
<1>1. PICK h \in Handle \ Free :
            /\ links' = [links EXCEPT ![h] = Nobody]
            /\ procedure' = IF procedure.cmd \in LinkCommands /\ procedure.ch = h THEN Idle ELSE procedure
            /\ toDriver' = Append(toDriver, GoneMsg(h, 520))
  BY Loses
<1> DEFINE m == GoneMsg(h, 520)
<1>2. performed' = performed \cup {"lost"} /\ UNCHANGED <<gateway, asked, toClient>>
  BY DEF LinkLost
<1>3. m.idx \notin Awaited /\ Read(m).connection = h
  BY TellsIdx, GoneNews
<1>4. Follows(m, procedure, performed, procedure', performed')
  BY <1>1, LostFollows
<1>5. toDriver' = Append(toDriver, m)
  BY <1>1
<1> HIDE DEF m
<1>6. Progress'
  BY <1>2, <1>3, <1>4, <1>5, TellsProgress DEF TruthInv
<1>7. StatusTruthful'
  BY <1>2, <1>4, TellsStatus DEF TruthInv
<1>8. ASSUME AtWork, OnConnection(call.op) PROVE
           /\ links'[call.handle] # Nobody => /\ links[call.handle] # Nobody
                                              /\ ~(m.idx = "disconnected" /\ Read(m).connection = call.handle)
           /\ links'[call.handle] = Nobody => \/ links[call.handle] = Nobody
                                              \/ "lost" \in performed' \/ call.op = "disconnect"
  <2>1. call.handle \in DOMAIN links
    BY <1>8, LinkWorked
  <2>2. h = call.handle => links'[call.handle] = Nobody
    BY <1>1, <2>1
  <2>3. h # call.handle => links'[call.handle] = links[call.handle]
    BY <1>1, <2>1
  <2> QED  BY <1>2, <1>3, <2>2, <2>3
<1>9. LossKnown' /\ StepsDone'
  BY <1>2, <1>3, <1>5, <1>8, TellsLoss DEF TruthInv
<1> QED  BY <1>6, <1>7, <1>9 DEF TruthInv

\* A command that the dongle accepts finds a device on its connection.
LEMMA ClientLoss ==
  ASSUME PathInv, OursInv, LossKnown, StepsDone, ClientExecutes
  PROVE  LossKnown' /\ StepsDone'
<1>1. PICK m \in CommandMessages :
        \E result \in ResultsOf(m.idx, Args(m)) : ClientCall(m, result, Subject(m.idx, Args(m)))
  BY ClientCalls1 DEF PathInv, TrafficFits
<1>2. PICK result \in ResultsOf(m.idx, Args(m)) : ClientCall(m, result, Subject(m.idx, Args(m)))
  BY <1>1
<1> DEFINE h == Subject(m.idx, Args(m))
           c == m.idx
           rsp == Rsp(c, h, result)
<1>3. /\ UNCHANGED gateway /\ links' = links /\ toDriver \in Seq(Answers) /\ toDriver' = Append(toDriver, rsp)
      /\ performed \subseteq performed'
  BY <1>2 DEF ClientCall, ClientExecutes, PathInv, TrafficFits
<1>4. EventOf(rsp).code = result
  BY CodeOfResponse
<1>5. c \in Commanded /\ rsp.idx = c /\ result \in Results
  BY <1>2, ResultsAre, ResponsePacked
<1>6. \A g : ~About(rsp, g)
  BY <1>5, NotNews
<1>7. /\ UNCHANGED <<stage, call, connectedDevices>> /\ Current' = Current /\ AtWork' = AtWork
  BY <1>3, CommandStands
<1>8. CASE c \in Unawaited
  <2>1. rsp.idx \notin Awaited
    BY <1>5, <1>8 DEF Awaited
  <2>2. ~(rsp.idx = "disconnected" /\ Read(rsp).connection = call.handle)
    BY <1>6 DEF About
  <2> HIDE DEF rsp
  <2> QED  BY <1>3, <2>1, <2>2, TellsLoss
<1>9. CASE c \notin Unawaited
  <2>1. /\ AtWork /\ Current.send = c /\ Pending = {} /\ c \in Awaited
        /\ call.op \in Ops /\ SentBy(call.op, c) /\ m = Sent(c) /\ request \in Requests
    BY <1>2, <1>9, WhatIsExecuted
  <2>2. c # "none"
    BY <2>1, AwaitedAre DEF LinkCommands
  <2>3. \A i \in Pending' : toDriver'[i] = rsp
    BY <1>3, <2>1, PendingAppended
  <2>4. Accepted' => result = Ok
    BY <1>4, <1>7, <2>1, <2>2, <2>3 DEF Accepted
  <2>5. OnConnection(call.op) => c \in LinkCommands
    BY <2>1 DEF OnConnection, SentBy, Sends, LinkCommands
  <2>6. OnConnection(call.op) => Args(m).connection = call.handle
    BY <2>1, <2>5, CommandChannel
  <2>7. OnConnection(call.op) /\ result = Ok => ~Broken
    BY <2>5, <2>6, ResultsAre DEF Broken, Ok
  <2>8. Broken' <=> Broken
    BY <1>3, <1>7 DEF Broken
  <2>9. \A i \in DOMAIN toDriver' : toDriver'[i] = rsp \/ (i \in DOMAIN toDriver /\ toDriver'[i] = toDriver[i])
    <3>1. /\ DOMAIN toDriver' = 1 .. Len(toDriver) + 1 /\ DOMAIN toDriver = 1 .. Len(toDriver) /\ Len(toDriver) \in Nat
          /\ toDriver'[Len(toDriver) + 1] = rsp /\ \A i \in 1 .. Len(toDriver) : toDriver'[i] = toDriver[i]
      BY <1>3, Appends
    <3> HIDE DEF rsp
    <3> QED  BY <3>1
  <2>10. ~(rsp.idx = "disconnected" /\ Read(rsp).connection = call.handle)
    BY <1>6 DEF About
  <2> HIDE DEF rsp, c, h
  <2>11. ASSUME AtWork, OnConnection(call.op) PROVE
           /\ ~Broken => /\ connectedDevices[call.handle] # Nobody
                         /\ \A i \in DOMAIN toDriver' : ~(toDriver'[i].idx = "disconnected" /\ Read(toDriver'[i]).connection = call.handle)
           /\ Broken /\ (call.step > 1 \/ Accepted') => "lost" \in performed' \/ call.op = "disconnect"
    <3>1. ASSUME ~Broken PROVE \A i \in DOMAIN toDriver' : ~(toDriver'[i].idx = "disconnected" /\ Read(toDriver'[i]).connection = call.handle)
      <4>1. \A i \in DOMAIN toDriver : ~(toDriver[i].idx = "disconnected" /\ Read(toDriver[i]).connection = call.handle)
        BY <2>11, <3>1 DEF LossKnown
      <4> QED  BY <2>9, <2>10, <4>1
    <3>2. ~Broken => connectedDevices[call.handle] # Nobody
      BY <2>11 DEF LossKnown
    <3>3. Broken /\ (call.step > 1 \/ Accepted') => "lost" \in performed' \/ call.op = "disconnect"
      BY <1>3, <2>4, <2>7, <2>11 DEF LossKnown
    <3> QED  BY <3>1, <3>2, <3>3
  <2>12. LossKnown'
    BY <1>7, <2>8, <2>11 DEF LossKnown
  <2>13. call.op \in {"read", "readall"} => OnConnection(call.op)
    BY DEF OnConnection
  <2>14. StepsDone'
    <3>1. Script[call'.op][1].send = Script[call.op][1].send
      BY <1>7
    <3> QED  BY <1>3, <1>7, <2>4, <2>7, <2>8, <2>13, <3>1 DEF StepsDone
  <2> QED  BY <2>12, <2>14
<1> QED  BY <1>8, <1>9

\* The client's call to end a procedure says nothing of a request that has been answered.
LEMMA ClientStatus ==
  ASSUME PathInv, OursInv, StatusTruthful, ClientExecutes
  PROVE  StatusTruthful'
<1>1. PICK m \in CommandMessages :
        \E result \in ResultsOf(m.idx, Args(m)) : ClientCall(m, result, Subject(m.idx, Args(m)))
  BY ClientCalls1 DEF PathInv, TrafficFits
<1>2. PICK result \in ResultsOf(m.idx, Args(m)) : ClientCall(m, result, Subject(m.idx, Args(m)))
  BY <1>1
<1>3. UNCHANGED gateway /\ UNCHANGED <<stage, request, answer, call>>
  BY CommandStands DEF ClientExecutes, gateway
<1>4. CASE stage = "answered"
  <2>1. Quiet
    BY <1>4 DEF OursInv, Awaiting
  <2>2. /\ toClient # <<>> /\ m = Head(toClient) /\ toClient' = Tail(toClient) /\ asked' = Append(asked, Call(m))
        /\ performed' = IF result = 0 /\ m.idx \notin Lasting THEN performed \cup {m.idx}
                        ELSE IF result # 0 /\ m.idx \notin Unawaited THEN performed \cup {"error"} ELSE performed
    BY <1>2 DEF ClientCall
  <2>3. toClient \in Seq(CommandMessages) /\ asked \in Seq(Calls)
    BY DEF PathInv, TrafficFits
  <2>4. m = EndMsg /\ m.idx = "end_procedure"
    <3>1. 1 \in DOMAIN toClient /\ Head(toClient) = toClient[1]
      BY <2>2, <2>3
    <3> QED  BY <2>1, <2>2, <3>1, SentIdx DEF Quiet
  <2>5. performed \subseteq performed' /\ ("error" \in performed' => "error" \in performed)
    BY <2>2, <2>4 DEF Unawaited
  <2>6. Call(m).cmd = "end_procedure"
    BY <2>4 DEF Call
  <2>7. Left({"end_procedure"})' => Left({"end_procedure"})
    <3>1. \A i \in DOMAIN asked' : asked'[i].cmd = "end_procedure" \/ (i \in DOMAIN asked /\ asked'[i] = asked[i])
      <4>1. /\ DOMAIN asked' = 1 .. Len(asked) + 1 /\ DOMAIN asked = 1 .. Len(asked) /\ Len(asked) \in Nat
            /\ asked'[Len(asked) + 1] = Call(m) /\ \A i \in 1 .. Len(asked) : asked'[i] = asked[i]
        BY <2>2, <2>3, Appends
      <4> QED  BY <2>6, <4>1
    <3>2. \A i \in DOMAIN toClient' : i + 1 \in DOMAIN toClient /\ toClient'[i] = toClient[i + 1]
      BY <2>2, <2>3
    <3> QED  BY <3>1, <3>2 DEF Left
  <2> QED  BY <1>3, <2>5, <2>7, StatusStays
<1>5. CASE stage # "answered"
  BY <1>3, <1>5, NoStatus DEF PathInv, AnswerFits, NoAnswer
<1> QED  BY <1>4, <1>5

LEMMA DongleTruth ==
  ASSUME PathInv, OursInv, OnDeviceInv, TruthInv,
         ClientExecutes \/ ProcedureSucceeds \/ ProcedureFails \/ ProcedureFinds \/ LinkLost
  PROVE  TruthInv'
BY ClientProgress, ClientLoss, ClientStatus, SucceedsTruth, FailsTruth, FindsTruth, LostTruth DEF TruthInv

-----------------------------------------------------------------------------
(* The gateway goes on.                                                    *)

LEMMA StagesApart ==
  /\ stage \in {"idle", "arrived", "worker", "scanning", "answered"} => ~AtWork
  /\ stage \in {"send", "wait"} => AtWork
BY DEF AtWork

\* Between the commands there is no procedure on a link.
LEMMA AtRest ==
  ASSUME ~AtWork', procedure'.cmd \notin LinkCommands, stage' # "answered" => "error" \notin performed',
         stage' = "scanning" => "discover" \in performed'
  PROVE  Progress' /\ LossKnown' /\ StepsDone'
BY DEF Progress, LossKnown, StepsDone

\* A request that has not been worked on has asked nothing of a device.
LEMMA NothingLeft ==
  ASSUME OursInv, Quiet, call.op \notin Ops
  PROVE  ~Left({"end_procedure"})
<1>1. \A i \in DOMAIN asked : asked[i] = Call(EndMsg)
  BY DEF OursInv, AllOurs, OurCall
<1>2. Call(EndMsg).cmd = "end_procedure" /\ EndMsg.idx = "end_procedure"
  BY SentIdx DEF Call
<1> QED  BY <1>1, <1>2 DEF Quiet, Left

\* An answer that says no more than that the request was refused, or had nothing to do.
LEMMA RefusalTrue ==
  ASSUME OursInv, Quiet, call.op \notin Ops, call'.op = "none", UNCHANGED <<asked, toClient>>,
         answer'.status \in {200, 400, 404, 405, 406}, answer'.status = 200 => (IsGlobal(request) \/ NoneNeeded)'
  PROVE  StatusTruthful'
<1>1. ~Left({"end_procedure"})'
  BY NothingLeft DEF Left
<1> QED  BY <1>1 DEF StatusTruthful

LEMMA TruthInit == Init => TruthInv
<1> SUFFICES ASSUME Init PROVE TruthInv
  OBVIOUS
<1>1. stage = "idle" /\ performed = {} /\ procedure = Idle /\ answer.status = 0
  BY DEF Init, NoAnswer
<1>2. ~AtWork /\ procedure.cmd \notin LinkCommands
  BY <1>1 DEF AtWork, Idle, LinkCommands
<1>3. Progress /\ LossKnown /\ StepsDone
  BY <1>1, <1>2 DEF Progress, LossKnown, StepsDone
<1>4. StatusTruthful
  BY <1>1 DEF StatusTruthful
<1> QED  BY <1>3, <1>4 DEF TruthInv

LEMMA ArriveTruth ==
  ASSUME PathInv, TruthInv, Arrive
  PROVE  TruthInv'
<1>1. stage = "idle" /\ stage' = "arrived" /\ UNCHANGED <<procedure, performed, answer>>
  BY DEF Arrive, dongle
<1>2. ~AtWork /\ ~AtWork' /\ answer'.status = 0
  BY <1>1 DEF AtWork, PathInv, AnswerFits, NoAnswer
<1>3. procedure.cmd \notin LinkCommands /\ "error" \notin performed
  BY <1>1, <1>2 DEF TruthInv, Progress
<1>4. Progress' /\ LossKnown' /\ StepsDone'
  BY <1>1, <1>2, <1>3, AtRest
<1> QED  BY <1>2, <1>4, NoStatus DEF TruthInv

LEMMA FinishTruth ==
  ASSUME PathInv, TruthInv, FinishRequest
  PROVE  TruthInv'
<1>1. stage = "answered" /\ stage' = "idle" /\ UNCHANGED procedure /\ performed' = {} /\ answer'.status = 0
  BY DEF FinishRequest, dongle, NoAnswer
<1>2. ~AtWork /\ ~AtWork'
  BY <1>1 DEF AtWork
<1>3. procedure.cmd \notin LinkCommands
  BY <1>2 DEF TruthInv, Progress
<1>4. Progress' /\ LossKnown' /\ StepsDone'
  BY <1>1, <1>2, <1>3, AtRest
<1> QED  BY <1>1, <1>4, NoStatus DEF TruthInv

LEMMA GlobalStatusIs == IsGlobal(request) => GlobalStatus \in {200, 400, 405, 406}
<1> SUFFICES ASSUME IsGlobal(request) PROVE GlobalStatus \in {200, 400, 405, 406}
  OBVIOUS
<1> DEFINE o == ProcessHTTPRequest(request)
<1>1. o.command \in {"GW_OVERVIEW", "OPTIONS", "ERROR"}
  <2>1. Len(request.path) = 0
    BY DEF IsGlobal
  <2> QED  BY <2>1, Orders
<1>2. CASE o.command = "GW_OVERVIEW"
  BY <1>2 DEF GlobalStatus
<1>3. CASE o.command = "OPTIONS"
  BY <1>3, Orders DEF GlobalStatus
<1>4. CASE o.command = "ERROR"
  BY <1>4, Orders DEF GlobalStatus
<1> QED  BY <1>1, <1>2, <1>3, <1>4

LEMMA FCGIWorkerTruth ==
  ASSUME PathInv, OursInv, TruthInv, FCGIWorker
  PROVE  TruthInv'
<1>1. /\ stage = "arrived" /\ call' = call /\ call.op = "none" /\ call.op \notin Ops
      /\ UNCHANGED <<request, procedure, performed, asked, toClient>> /\ answer.status = 0
  BY NothingIsWellTyped DEF FCGIWorker, dongle, PathInv, StageFits, AnswerFits, NoAnswer
<1>2. /\ stage' \in {"answered", "worker"}
      /\ stage' = "worker" => answer'.status = 0
      /\ stage' = "answered" => /\ answer'.status \in {200, 400, 404, 405, 406}
                                /\ answer'.status = 200 => IsGlobal(request)
  <2>1. CASE IsGlobal(request) /\ Answered(GlobalStatus, Mime, FALSE)
    BY <2>1, GlobalStatusIs DEF Answered
  <2>2. CASE Answered(400, "text/html", FALSE)
    BY <2>2 DEF Answered
  <2>3. CASE Answered(404, "text/html", FALSE)
    BY <2>3 DEF Answered
  <2>4. CASE stage' = "worker" /\ UNCHANGED answer
    BY <1>1, <2>4
  <2> QED  BY <2>1, <2>2, <2>3, <2>4, ZenonT(60) DEF FCGIWorker
<1>3. ~AtWork /\ ~AtWork' /\ ~Awaiting
  BY <1>1, <1>2 DEF AtWork, Awaiting
<1>4. procedure.cmd \notin LinkCommands /\ "error" \notin performed
  BY <1>1, <1>3 DEF TruthInv, Progress
<1>5. Progress' /\ LossKnown' /\ StepsDone'
  BY <1>1, <1>2, <1>3, <1>4, AtRest
<1>6. StatusTruthful'
  <2>1. CASE stage' = "worker"
    BY <1>2, <2>1, NoStatus
  <2>2. CASE stage' = "answered"
    <3>1. IsGlobal(request') = IsGlobal(request)
      BY <1>1
    <3> QED  BY <1>1, <1>2, <1>3, <2>2, <3>1, RefusalTrue DEF OursInv
  <2> QED  BY <1>2, <2>1, <2>2
<1> QED  BY <1>5, <1>6 DEF TruthInv

\* A scan that ends has begun.
LEMMA ScanEndsTruth ==
  ASSUME PathInv, TruthInv, ScanEnds
  PROVE  TruthInv'
<1>1. /\ stage = "scanning" /\ call' = call /\ call.op = "discover" /\ UNCHANGED <<procedure, performed>>
      /\ Return("discover", Ok, 0)
  BY DEF ScanEnds, dongle, PathInv, StageFits
<1>2. stage' = "answered" /\ answer'.status = Status("discover", Ok, 0)
  BY <1>1 DEF Return, Answered
<1>3. answer'.status = 200
  BY <1>2, StatusIs
<1>4. ~AtWork /\ ~AtWork' /\ stage # "answered"
  BY <1>1, <1>2 DEF AtWork
<1>5. procedure.cmd \notin LinkCommands /\ "error" \notin performed /\ "discover" \in performed
  BY <1>1, <1>4 DEF TruthInv, Progress
<1>6. Progress' /\ LossKnown' /\ StepsDone'
  BY <1>1, <1>2, <1>4, <1>5, AtRest
<1>7. Commands("discover") \subseteq {"discover"}
  BY Scripted DEF Commands, Step
<1>8. StatusTruthful'
  BY <1>1, <1>3, <1>5, <1>7 DEF StatusTruthful
<1> QED  BY <1>6, <1>8 DEF TruthInv

\* What the worker does with a request: it answers at once, or begins a command.
WorkerAnswers ==
  /\ stage' = "answered" /\ call' = call
  /\ answer'.status \in {200, 400, 404, 405, 406} /\ (answer'.status = 200 => NoneNeeded)
WorkerBegins ==
  /\ stage' = "send" /\ answer' = answer /\ call'.step = 1 /\ call'.op \in Ops
  /\ OnConnection(call'.op) => call'.handle \in HandlesOf(Device)
LEMMA BeginBegins ==
  ASSUME NEW op \in Ops, NEW h, Begin(op, h), OnConnection(op) => h \in HandlesOf(Device)
  PROVE  WorkerBegins
BY DEF WorkerBegins, Begin

LEMMA AtOnceAnswers ==
  ASSUME NEW status \in {200, 400, 404, 405, 406}, AtOnce(status), status = 200 => NoneNeeded
  PROVE  WorkerAnswers
BY DEF WorkerAnswers, AtOnce, Answered

LEMMA OnDeviceDoes ==
  ASSUME NEW op \in {"readall", "update", "disconnect", "read", "write"}, NEW code, OnDevice(op, code),
         op = "update" => HandlesOf(Device) # {}, op = "disconnect" => code = Ok /\ NoneNeeded
  PROVE  WorkerAnswers \/ WorkerBegins
<1>1. op \in Ops
  BY DEF Ops
<1>2. CASE \E h \in HandlesOf(Device) : Begin(op, h)
  BY <1>1, <1>2, BeginBegins
<1>3. CASE HandlesOf(Device) = {} /\ Return(op, code, NoHandle) /\ UNCHANGED call
  <2>1. Status(op, code, NoHandle) \in {200, 404} /\ (Status(op, code, NoHandle) = 200 => NoneNeeded)
    <3>1. CASE op \in {"read", "readall", "write"}
      BY <3>1, StatusIs
    <3>2. CASE op = "disconnect"
      BY <3>2, StatusIs
    <3> QED  BY <1>3, <3>1, <3>2
  <2> QED  BY <1>3, <2>1 DEF WorkerAnswers, Return, Answered
<1> QED  BY <1>2, <1>3 DEF OnDevice

LEMMA WorkerDoes ==
  ASSUME PathInv, ExecuteWorkRequest
  PROVE  WorkerAnswers \/ WorkerBegins
<1> DEFINE o == ProcessHTTPRequest(request)
<1>1. CASE o.command \in {"ERROR", "OPTIONS"} /\ AtOnce(o.code)
  <2>1. o.code \in {200, 400, 404, 405, 406} /\ (o.code = 200 => o.command = "OPTIONS")
    BY <1>1, Orders
  <2>2. o.code = 200 => NoneNeeded
    BY <2>1 DEF NoneNeeded
  <2> HIDE DEF o
  <2> QED  BY <1>1, <2>1, <2>2, AtOnceAnswers
<1>2. ASSUME NEW op \in {"info", "discover", "connect"}, Begin(op, 0) PROVE WorkerBegins
  <2>1. op \in Ops /\ ~OnConnection(op)
    BY DEF Ops, OnConnection
  <2> QED  BY <1>2, <2>1, BeginBegins
<1>3. AtOnce(200) /\ NoneNeeded => WorkerAnswers
  BY AtOnceAnswers
<1>4. ASSUME NEW op \in {"read", "write"}, NEW code, OnAttribute(op, code) PROVE WorkerAnswers \/ WorkerBegins
  <2>1. AtOnce(400) => WorkerAnswers
    BY AtOnceAnswers
  <2> QED  BY <1>4, <2>1, OnDeviceDoes DEF OnAttribute
<1>5. /\ OnDevice("readall", Ok) => WorkerAnswers \/ WorkerBegins
      /\ OnDevice("update", Ok) /\ HandlesOf(Device) # {} => WorkerAnswers \/ WorkerBegins
      /\ OnDevice("disconnect", Ok) /\ NoneNeeded => WorkerAnswers \/ WorkerBegins
  BY OnDeviceDoes
<1>6. o.command = "READ_HANDLE" /\ ReadAttribute => WorkerAnswers \/ WorkerBegins
  <2> SUFFICES ASSUME o.command = "READ_HANDLE", NEW age \in Seconds,
                      (FromCache(age) /\ AtOnce(200)) \/ OnAttribute("read", Ok)
               PROVE  WorkerAnswers \/ WorkerBegins
    BY DEF ReadAttribute
  <2>1. FromCache(age) => LastUpdate > 0
    <3>1. request \in Requests
      BY DEF ExecuteWorkRequest, PathInv, StageFits
    <3>2. LastUpdate \in Nat
      BY <3>1, ParameterIsNumber DEF LastUpdate
    <3> QED  BY <3>2 DEF FromCache, Seconds
  <2>2. FromCache(age) => NoneNeeded
    BY <2>1 DEF NoneNeeded
  <2> QED  BY <1>3, <1>4, <2>2
<1>7. /\ o.command \in {"CONNECTED", "DISCONNECT"} => NoneNeeded
      /\ o.command = "DISCOVERED" /\ DiscoverTime = 0 => NoneNeeded
  BY DEF NoneNeeded
<1> HIDE DEF o
<1> QED  BY <1>1, <1>2, <1>3, <1>4, <1>5, <1>6, <1>7 DEF ExecuteWorkRequest, o

\* A link that is there when the driver knows of no response under way has not been lost since.
LEMMA NoLossUnderWay ==
  ASSUME PathInv, LinkInv, Pending = {}, NEW h \in Handle, links[h] # Nobody
  PROVE  \A k \in DOMAIN toDriver : ~(toDriver[k].idx = "disconnected" /\ Read(toDriver[k]).connection = h)
<1> DEFINE s == toDriver
           n == Len(s)
           x == links[h]
           d == connectedDevices[h]
<1>1. s \in Seq(Answers) /\ n \in Nat /\ DOMAIN s = 1 .. n
  BY DEF PathInv, TrafficFits
<1>2. \A i \in 1 .. n : s[i].idx # "connect_direct"
  BY <1>1, AwaitedAre DEF Pending
<1>3. Knows(d, s, h, n, x)
  BY DEF LinkInv, LinksTold
<1>4. \A i \in 1 .. n : s[i].idx = "status" => StatusFits(connectedDevices, s, i)
  BY <1>1 DEF LinkInv, StatusesFit
<1> HIDE DEF s, n, d
<1>5. \A k \in 0 .. n : After(s, h, k) => \A j \in 1 .. k : ~About(s[j], h)
  <2> SUFFICES ASSUME NEW k \in 0 .. n, NEW l \in 1 .. k, s[l].idx = "connect_direct" PROVE FALSE
    BY DEF After
  <2>1. l \in 1 .. n
    BY <1>1
  <2> QED  BY <1>2, <2>1
<1> SUFFICES ASSUME NEW k \in 1 .. n, s[k].idx = "disconnected", Read(s[k]).connection = h PROVE FALSE
  BY <1>1 DEF s
<1>6. About(s[k], h) /\ NewDevice(s[k]) = Nobody
  BY DEF About, NewDevice
<1> DEFINE Later == {i \in 1 .. n : k < i /\ s[i].idx = "status" /\ Read(s[i]).connection = h}
\* After it, what the last news before a place tells of a device is a status.
<1>7. ASSUME NEW e \in 1 .. n + 1, k < e, NEW y, y # Nobody, Knows(d, s, h, e - 1, y)
      PROVE  \E j \in Later : j < e
  <2>1. k \in 1 .. e - 1
    BY <1>1, <1>7
  <2>2. PICK j \in 1 .. e - 1 : About(s[j], h) /\ y = NewDevice(s[j]) /\ \A l \in j + 1 .. e - 1 : ~About(s[l], h)
    BY <1>6, <1>7, <2>1 DEF Knows
  <2>3. ~(k \in j + 1 .. e - 1)
    BY <1>6, <2>2
  <2>4. k # j
    BY <1>6, <1>7, <2>2
  <2>5. k < j /\ j < e /\ j \in 1 .. n
    BY <1>1, <2>1, <2>2, <2>3, <2>4
  <2>6. s[j].idx = "status" /\ Read(s[j]).connection = h
    BY <1>7, <2>2 DEF About, NewDevice
  <2> QED  BY <2>5, <2>6
<1>8. Later # {}
  <2>1. n + 1 \in 1 .. n + 1 /\ k < n + 1 /\ (n + 1) - 1 = n
    BY <1>1
  <2> HIDE DEF Later
  <2> QED  BY <1>3, <1>7, <2>1
<1>9. PICK i \in Later : \A j \in Later : ~(j < i)
  <2>1. Later \in SUBSET Nat
    BY <1>1
  <2> HIDE DEF Later
  <2> QED  BY <1>8, <2>1, LeastNumber
<1>10. i \in 1 .. n /\ k < i /\ s[i].idx = "status" /\ Read(s[i]).connection = h
  BY <1>9
<1>11. /\ Read(s[i]).address # Nobody
       /\ Read(s[i]).flags = 5 => After(s, h, i - 1)
       /\ Read(s[i]).flags # 5 => Knows(d, s, h, i - 1, Read(s[i]).address)
  <2>1. StatusFits(connectedDevices, s, i)
    BY <1>4, <1>10
  <2> QED  BY <1>10, <2>1 DEF StatusFits, d
<1>12. i \in 1 .. n + 1 /\ i - 1 \in 0 .. n /\ k \in 1 .. i - 1
  BY <1>1, <1>10
<1>13. ~After(s, h, i - 1)
  BY <1>5, <1>6, <1>12
<1>14. Knows(d, s, h, i - 1, Read(s[i]).address)
  BY <1>11, <1>13
<1> HIDE DEF Later
<1> QED  BY <1>7, <1>9, <1>10, <1>11, <1>12, <1>14

LEMMA FirstSends == \A op \in Ops : Script[op][1].send # "none"
BY Scripted DEF Step, Ops

LEMMA WorkerTruth ==
  ASSUME PathInv, PathInv', OursInv, LinkInv, TruthInv, ExecuteWorkRequest
  PROVE  TruthInv'
<1>1. /\ stage = "worker" /\ call.op = "none" /\ call.op \notin Ops /\ answer.status = 0
      /\ UNCHANGED <<connectedDevices, toDriver, toClient, links, procedure, performed, asked, request>>
  BY NothingIsWellTyped DEF ExecuteWorkRequest, dongle, PathInv, StageFits, AnswerFits, NoAnswer
<1>2. ~AtWork /\ ~Awaiting
  BY <1>1 DEF AtWork, Awaiting
<1>3. procedure.cmd \notin LinkCommands /\ "error" \notin performed
  BY <1>1, <1>2 DEF TruthInv, Progress
<1>4. Quiet /\ Pending = {}
  BY <1>2 DEF OursInv, Quiet
<1>5. CASE WorkerAnswers
  <2>1. /\ stage' = "answered" /\ call' = call /\ answer'.status \in {200, 400, 404, 405, 406}
        /\ answer'.status = 200 => NoneNeeded'
    BY <1>1, <1>5 DEF WorkerAnswers, NoneNeeded, DiscoverTime, LastUpdate
  <2>2. ~AtWork'
    BY <2>1 DEF AtWork
  <2>3. Progress' /\ LossKnown' /\ StepsDone'
    BY <1>1, <1>3, <2>1, <2>2, AtRest
  <2>4. StatusTruthful'
    BY <1>1, <1>4, <2>1, RefusalTrue
  <2> QED  BY <2>3, <2>4 DEF TruthInv
<1>6. CASE WorkerBegins
  <2>1. /\ stage' = "send" /\ answer'.status = 0 /\ call'.step = 1 /\ call'.op \in Ops
        /\ OnConnection(call'.op) => call'.handle \in HandlesOf(Device)
    BY <1>1, <1>6 DEF WorkerBegins
  <2>2. AtWork' /\ Pending' = {} /\ stage' # "scanning"
    BY <1>1, <1>4, <2>1 DEF AtWork, Pending
  <2>3. Current'.send # "none"
    BY <2>1, FirstSends DEF Current
  <2>4. Progress'
    BY <1>1, <1>3, <2>2, <2>3 DEF Progress, Undisturbed
  <2>5. ~Accepted'
    BY <2>2, <2>3 DEF Accepted
  <2>6. LossKnown'
    <3> SUFFICES ASSUME OnConnection(call'.op), ~Broken'
                 PROVE  /\ connectedDevices[call'.handle] # Nobody
                        /\ \A i \in DOMAIN toDriver : ~(toDriver[i].idx = "disconnected" /\ Read(toDriver[i]).connection = call'.handle)
      BY <1>1, <2>1, <2>5 DEF LossKnown
    <3>1. call'.handle \in Handle /\ connectedDevices[call'.handle] = Device
      BY <2>1 DEF HandlesOf
    <3>2. links[call'.handle] # Nobody
      BY <1>1 DEF Broken
    <3>3. Device # Nobody
      <4>1. call'.op \in DeviceOps
        BY DEF OnConnection, DeviceOps
      <4>2. (PathInv /\ call.op \in DeviceOps => Device # Nobody)'
        BY DeviceNamed, PTL
      <4>3. Device' # Nobody
        BY <4>1, <4>2 DEF Nobody
      <4> QED  BY <1>1, <4>3 DEF Device
    <3> QED  BY <1>4, <3>1, <3>2, <3>3, NoLossUnderWay
  <2>7. StepsDone'
    <3>1. ~(call'.step > 1) /\ ~(call'.step > 2)
      BY <2>1
    <3> QED  BY <3>1 DEF StepsDone
  <2>8. StatusTruthful'
    BY <2>1, NoStatus
  <2> QED  BY <2>4, <2>6, <2>7, <2>8 DEF TruthInv
<1> QED  BY <1>5, <1>6, WorkerDoes

\* Only a new connection can take longer than its wait.  The completion of any other procedure that
\* comes after its wait was given up passes for that of a later command.
OthersInTime == MayTimeOut \subseteq {"GAP_CONNECTION_EVT"}

LEMMA AnswersGone ==
  ASSUME ~AtWork', procedure'.cmd \notin LinkCommands, stage' = "answered",
         \/ answer'.status = 502 /\ performed' \cap {"error", "lost", "timeout"} # {}
         \/ answer'.status = 404 /\ "lost" \in performed'
  PROVE  TruthInv'
<1>1. Progress' /\ LossKnown' /\ StepsDone'
  BY AtRest
<1>2. StatusTruthful'
  BY DEF StatusTruthful
<1> QED  BY <1>1, <1>2 DEF TruthInv

LEMMA HandleGiven ==
  ASSUME PathInv, call.op \in {"read", "readall", "write"}
  PROVE  call.handle # NoHandle /\ ResultHandle # NoHandle
<1>1. call.handle \in Handle /\ call.op # "connect"
  BY DEF PathInv, StageFits, CallFits, OnConnection
<1>2. call.handle # NoHandle
  BY <1>1, HandleAssumption DEF NoHandle
<1> QED  BY <1>1, <1>2 DEF ResultHandle

LEMMA SendStepTruth ==
  ASSUME PathInv, OursInv, TruthInv, SendStep
  PROVE  TruthInv'
<1>1. /\ stage = "send" /\ AtWork /\ UNCHANGED <<request, call, connectedDevices, toDriver, links, procedure, performed>>
      /\ CallFits /\ call.op \in Ops /\ answer.status = 0 /\ Pending = {}
  BY DEF SendStep, dongle, AtWork, PathInv, StageFits, AnswerFits, NoAnswer, OursInv, Awaiting, Quiet
<1>2. CASE stage' = "wait" /\ UNCHANGED answer
  <2>1. AtWork' /\ Current' = Current /\ Did' = Did /\ WaitChannel' = WaitChannel /\ Pending' = Pending
    BY <1>1, <1>2 DEF AtWork, Current, Did, WaitChannel, Pending
  <2>2. (Accepted' <=> Accepted) /\ (Broken' <=> Broken)
    BY <1>1, <2>1 DEF Accepted, Broken
  <2>3. Progress'
    BY <1>1, <1>2, <2>1 DEF TruthInv, Progress
  <2>4. LossKnown'
    BY <1>1, <2>1, <2>2 DEF TruthInv, LossKnown
  <2>5. StepsDone'
    <3>1. Script[call'.op][1].send = Script[call.op][1].send
      BY <1>1
    <3> QED  BY <1>1, <2>1, <2>2, <3>1 DEF TruthInv, StepsDone
  <2>6. StatusTruthful'
    BY <1>1, <1>2, NoStatus
  <2> QED  BY <2>3, <2>4, <2>5, <2>6 DEF TruthInv
<1>3. CASE ReadRefused /\ Return(call.op, Exception, call.handle)
  <2>1. Current.send = "read_by_handle" /\ connectedDevices[call.handle] = Nobody
    BY <1>3 DEF ReadRefused
  <2>2. call.op = "read" /\ call.step > 1
    BY <1>1, <2>1, ScriptEntries DEF CallFits, Current
  <2>3. "lost" \in performed
    BY <1>1, <2>1, <2>2 DEF TruthInv, LossKnown, OnConnection
  <2>4. procedure.cmd \notin LinkCommands
    BY <1>1, <2>1 DEF TruthInv, Progress, Undisturbed
  <2>5. stage' = "answered" /\ answer'.status = Status(call.op, Exception, call.handle)
    BY <1>3 DEF Return, Answered
  <2>6. answer'.status = 502
    BY <2>2, <2>5, StatusIs, HandleGiven DEF Exception, Ok
  <2>7. ~AtWork'
    BY <2>5 DEF AtWork
  <2> QED  BY <1>1, <2>3, <2>4, <2>5, <2>6, <2>7, AnswersGone
<1> QED  BY <1>2, <1>3 DEF SendStep

LEMMA WaitRunsOutTruth ==
  ASSUME OthersInTime, PathInv, TruthInv, WaitRunsOut
  PROVE  TruthInv'
<1>1. /\ stage = "wait" /\ AtWork /\ Current.on \subseteq {"GAP_CONNECTION_EVT"} /\ WaitEnds(TimedOut)
      /\ UNCHANGED procedure /\ performed' = performed \cup {"timeout"}
      /\ CallFits /\ call.op \in Ops
  BY DEF WaitRunsOut, OthersInTime, dongle, AtWork, PathInv, StageFits
<1>2. call.op = "connect" /\ Current.send = "none"
  <2>1. \/ call.op = "connect" /\ Current.send = "none"
        \/ \E e \in Current.on : e # "GAP_CONNECTION_EVT"
    <3> DEFINE s == Script[call.op][call.step]
    <3>1. \/ call.op = "connect" /\ s.send = "none"
          \/ "GAP_CONNECTION_RSP_EVT" \in s.on
          \/ "CONNECTION_UPDATE_RSP_EVT" \in s.on
          \/ "CONNECTION_DISCONNECT_RSP_EVT" \in s.on
          \/ "CONNECTION_DISCONNECT_EVT" \in s.on
          \/ "ATTCLIENT_FINDINFO_RSP_EVT" \in s.on
          \/ "GATT_PROCEDURE_COMPLETE_EVT" \in s.on
          \/ "ATTCLIENT_READ_RSP_EVT" \in s.on
          \/ "ATTCLIENT_WRITE_RSP_EVT" \in s.on
          \/ "ATTCLIENT_READGROUP_RSP_EVT" \in s.on
          \/ "GAP_DISCOVER_RSP_EVT" \in s.on
          \/ "SYS_GET_INFO_RSP_EVT" \in s.on
          \/ "SYS_GET_MAXCON_RSP_EVT" \in s.on
      BY <1>1, ScriptEntries, SMTT(60) DEF CallFits, ProcedureOver
    <3> HIDE DEF s
    <3>2. \/ call.op = "connect" /\ s.send = "none"
          \/ \E e \in s.on : e # "GAP_CONNECTION_EVT"
      BY <3>1
    <3> QED  BY <3>2 DEF s, Current
  <2> QED  BY <1>1, <2>1
<1>3. Did = "connect_direct"
  BY <1>1, <1>2, StepFinishes
<1>4. procedure.cmd \notin LinkCommands
  <2>1. Going(toDriver, 0, Did, WaitChannel, procedure, performed)
    BY <1>1, <1>2 DEF TruthInv, Progress
  <2>2. "connect_direct" \notin LinkCommands
    BY DEF LinkCommands
  <2> QED  BY <1>3, <2>1, <2>2 DEF Going
<1>5. Return(call.op, TimedOut, ResultHandle)
  BY <1>1 DEF WaitEnds, TimedOut, Ok
<1>6. stage' = "answered" /\ answer'.status = 502
  BY <1>2, <1>5, StatusIs DEF Return, Answered, TimedOut, Ok
<1>7. ~AtWork'
  BY <1>6 DEF AtWork
<1> QED  BY <1>1, <1>4, <1>6, <1>7, AnswersGone

-----------------------------------------------------------------------------
(* The driver receives.                                                    *)
LEMMA Received ==
  ASSUME PathInv, DriverReceives
  PROVE  LET m == Head(toDriver) IN
         /\ toDriver \in Seq(Answers) /\ toDriver # <<>> /\ toDriver' = Tail(toDriver) /\ m \in Answers
         /\ 1 \in DOMAIN toDriver /\ m = toDriver[1]
         /\ \A i \in DOMAIN toDriver' : i \in Nat /\ i + 1 \in DOMAIN toDriver /\ toDriver'[i] = toDriver[i + 1]
         /\ \A i \in DOMAIN toDriver : i \in Nat /\ (i # 1 => i - 1 \in DOMAIN toDriver' /\ (i - 1) + 1 = i)
         /\ connectedDevices' = DevicesOf(m)
         /\ UNCHANGED <<request, links, procedure, asked, performed>> /\ stage # "send"
         /\ IF stage = "wait" /\ EventOf(m).evt \in Current.on /\ EventOf(m).ch = WaitChannel
              THEN WaitEnds(EventOf(m).code) ELSE UNCHANGED <<stage, call, answer, toClient>>
<1>1. toDriver \in Seq(Answers) /\ toDriver # <<>> /\ toDriver' = Tail(toDriver)
  BY DEF DriverReceives, PathInv, TrafficFits
<1>2. /\ Head(toDriver) \in Answers /\ 1 \in DOMAIN toDriver /\ Head(toDriver) = toDriver[1]
      /\ \A i \in DOMAIN toDriver' : i \in Nat /\ i + 1 \in DOMAIN toDriver /\ toDriver'[i] = toDriver[i + 1]
      /\ \A i \in DOMAIN toDriver : i \in Nat /\ (i # 1 => i - 1 \in DOMAIN toDriver' /\ (i - 1) + 1 = i)
  BY <1>1
<1> QED  BY <1>1, <1>2 DEF DriverReceives, DevicesOf, EventOf, Read, dongle

\* A link that is not broken stays known.
LEMMA ReadsUnbroken ==
  ASSUME PathInv, LinkInv, LossKnown, DriverReceives, AtWork, OnConnection(call.op), ~Broken
  PROVE  /\ connectedDevices'[call.handle] # Nobody
         /\ \A i \in DOMAIN toDriver' : ~(toDriver'[i].idx = "disconnected" /\ Read(toDriver'[i]).connection = call.handle)
<1> DEFINE m == Head(toDriver)
           h == call.handle
<1>1. /\ m \in Answers /\ 1 \in DOMAIN toDriver /\ m = toDriver[1] /\ connectedDevices' = DevicesOf(m)
      /\ \A i \in DOMAIN toDriver' : i \in Nat /\ i + 1 \in DOMAIN toDriver /\ toDriver'[i] = toDriver[i + 1]
  BY Received
<1>2. /\ connectedDevices[h] # Nobody
      /\ \A i \in DOMAIN toDriver : ~(toDriver[i].idx = "disconnected" /\ Read(toDriver[i]).connection = h)
  BY DEF LossKnown
<1> HIDE DEF m
<1>3. h \in Handle /\ connectedDevices \in [Handle -> Bytes]
  BY DEF PathInv, StageFits, CallFits, DevicesFit
<1>4. connectedDevices'[h] = IF About(m, h) THEN NewDevice(m) ELSE connectedDevices[h]
  BY <1>1, <1>3, DevicesTold
<1>5. About(m, h) => m.idx = "status" /\ Read(m).address # Nobody
  <2> SUFFICES ASSUME About(m, h) PROVE m.idx = "status" /\ Read(m).address # Nobody
    OBVIOUS
  <2>1. m.idx = "status"
    BY <1>1, <1>2 DEF About
  <2>2. StatusFits(connectedDevices, toDriver, 1)
    BY <1>1, <2>1 DEF LinkInv, StatusesFit
  <2> QED  BY <1>1, <2>1, <2>2 DEF StatusFits
<1>6. connectedDevices'[h] # Nobody
  BY <1>2, <1>4, <1>5 DEF NewDevice
<1> QED  BY <1>1, <1>2, <1>6

\* The news that a link is gone.
LEMMA ReadsGone ==
  ASSUME PathInv, LossKnown, DriverReceives, AtWork, OnConnection(call.op),
         Head(toDriver).idx = "disconnected", EventOf(Head(toDriver)).ch = WaitChannel
  PROVE  Broken /\ connectedDevices'[call.handle] = Nobody
<1> DEFINE m == Head(toDriver)
           h == call.handle
<1>1. /\ m \in Answers /\ 1 \in DOMAIN toDriver /\ m = toDriver[1] /\ connectedDevices' = DevicesOf(m)
  BY Received
<1>2. m.idx = "disconnected" /\ EventOf(m).ch = h
  BY DEF WaitChannel
<1> HIDE DEF m
<1>3. PICK g \in Handle, reason \in {520, 534} : m = GoneMsg(g, reason)
  BY <1>1, <1>2, NewsIs
<1>4. Read(m).connection = g /\ EventOf(m) = Event("CONNECTION_DISCONNECT_EVT", g, 0) /\ NewDevice(m) = Nobody
  BY <1>3, GoneMsgRead, GoneNews
<1>5. Read(m).connection = h /\ About(m, h)
  BY <1>2, <1>4, EventFieldsAre DEF About
<1>6. h \in Handle /\ connectedDevices \in [Handle -> Bytes]
  BY DEF PathInv, StageFits, CallFits, DevicesFit
<1>7. connectedDevices'[h] = Nobody
  BY <1>1, <1>4, <1>5, <1>6, DevicesTold
<1>8. Broken
  BY <1>1, <1>2, <1>5 DEF LossKnown
<1> QED  BY <1>7, <1>8

\* What is known of a command when its wait ends.
Over(m) ==
  /\ Pending' = {}
  /\ EventOf(m).code # Ok => procedure.cmd \notin LinkCommands /\ "error" \in performed
  /\ EventOf(m).code = Ok =>
       /\ Current.send = "none" => procedure.cmd \notin LinkCommands /\ Ends(m, Did, WaitChannel) /\ Verdict(m, Did, performed)
       /\ Current.send # "none" => Accepted
       /\ Current.send \in Lasting => Going(toDriver', 0, Current.send, WaitChannel, procedure, performed)
       /\ Current.send \notin Lasting \cup {"none"} => Undisturbed(procedure, performed) /\ Current.send \in performed

LEMMA WaitOver ==
  ASSUME PathInv, OursInv, Progress, DriverReceives, NEW m, m = Head(toDriver),
         stage = "wait", EventOf(m).evt \in Current.on, EventOf(m).ch = WaitChannel
  PROVE  Over(m)
<1>1. /\ toDriver \in Seq(Answers) /\ toDriver # <<>> /\ toDriver' = Tail(toDriver) /\ m \in Answers
      /\ 1 \in DOMAIN toDriver /\ m = toDriver[1]
  BY Received
<1>2. /\ \A i \in Pending' : i + 1 \in Pending /\ toDriver'[i] = toDriver[i + 1] /\ i \in Nat /\ i >= 1
      /\ 1 \in Pending <=> m.idx \in Awaited
  BY <1>1, PendingRead
<1>3. AtWork /\ CallFits /\ call.op \in Ops /\ 0 \in 0 .. Len(toDriver) /\ 1 \in 0 .. Len(toDriver)
  BY <1>1 DEF AtWork, PathInv, StageFits
<1>4. "none" \notin Lasting
  BY DEF Lasting, LinkCommands
<1>5. CASE Current.send = "none"
  <2>1. Going(toDriver, 0, Did, WaitChannel, procedure, performed)
    BY <1>3, <1>5 DEF Progress
  <2>2. Ends(m, Did, WaitChannel)
    BY <1>3, <1>5, StepFinishes DEF Ends
  <2>3. procedure.cmd \notin LinkCommands /\ Verdict(m, Did, performed)
    BY <1>1, <1>3, <2>1, <2>2, GoingReads
  <2>4. Pending' = {}
    BY <1>2, <1>5 DEF OursInv, Awaiting, Quiet
  <2> QED  BY <1>4, <1>5, <2>2, <2>3, <2>4 DEF Over, Verdict
<1>6. CASE Current.send # "none"
  <2>1. Awaiting /\ OneWait
    BY <1>6 DEF Awaiting, OursInv
  <2>2. m.idx \in Awaited
    BY <1>1, <1>3, <1>6, OtherEvent, AwaitedNotOther
  <2>3. 1 \in Pending
    BY <1>2, <2>2
  <2>4. Pending' = {}
    <3> SUFFICES ASSUME NEW i \in Pending' PROVE FALSE
      OBVIOUS
    <3>1. i + 1 \in Pending /\ i \in Nat /\ i >= 1
      BY <1>2
    <3>2. i + 1 = 1
      BY <2>1, <2>3, <3>1 DEF OneWait
    <3> QED  BY <3>1, <3>2
  <2>5. Replied(toDriver, 1, Current.send, WaitChannel, procedure, performed)
    BY <1>3, <1>6, <2>3 DEF Progress
  <2>6. EventOf(toDriver[1]) = EventOf(m)
    BY <1>1
  <2>7. ASSUME Going(toDriver, 1, Current.send, WaitChannel, procedure, performed)
        PROVE  Going(toDriver', 0, Current.send, WaitChannel, procedure, performed)
    BY <1>1, <1>3, <2>7, GoingReads
  <2>8. EventOf(m).code = Ok => Accepted
    BY <2>3, <2>6 DEF Accepted
  <2> QED  BY <1>6, <2>4, <2>5, <2>6, <2>7, <2>8 DEF Over, Replied
<1> QED  BY <1>5, <1>6

-----------------------------------------------------------------------------
\* A message that ends no wait.
LEMMA GoesOnTruth ==
  ASSUME PathInv, OursInv, LinkInv, TruthInv, DriverReceives, UNCHANGED <<stage, call, answer, toClient>>,
         ~(stage = "wait" /\ EventOf(Head(toDriver)).evt \in Current.on /\ EventOf(Head(toDriver)).ch = WaitChannel)
  PROVE  TruthInv'
<1> DEFINE m == Head(toDriver)
<1>1. /\ toDriver \in Seq(Answers) /\ toDriver # <<>> /\ toDriver' = Tail(toDriver) /\ m \in Answers
      /\ 1 \in DOMAIN toDriver /\ m = toDriver[1]
      /\ \A i \in DOMAIN toDriver' : i \in Nat /\ i + 1 \in DOMAIN toDriver /\ toDriver'[i] = toDriver[i + 1]
      /\ \A i \in DOMAIN toDriver : i \in Nat /\ (i # 1 => i - 1 \in DOMAIN toDriver' /\ (i - 1) + 1 = i)
      /\ UNCHANGED <<links, procedure, asked, performed>> /\ stage # "send"
  BY Received
<1>2. /\ \A i \in Pending' : i + 1 \in Pending /\ toDriver'[i] = toDriver[i + 1] /\ i \in Nat /\ i >= 1
      /\ 1 \in Pending <=> m.idx \in Awaited
  BY <1>1, PendingRead
<1>3. AtWork' = AtWork /\ Current' = Current /\ Did' = Did /\ WaitChannel' = WaitChannel
  BY DEF AtWork, Current, Did, WaitChannel
<1>4. StatusTruthful'
  <2>1. Left({"end_procedure"})' => Left({"end_procedure"})
    BY <1>1 DEF Left
  <2>2. request' = request
    BY DEF DriverReceives
  <2> QED  BY <1>1, <2>1, <2>2, StatusStays DEF TruthInv
<1>5. CASE ~AtWork
  <2>1. Progress' /\ LossKnown' /\ StepsDone'
    BY <1>1, <1>3, <1>5, AtRest DEF TruthInv, Progress
  <2> QED  BY <1>4, <2>1 DEF TruthInv
<1>6. CASE AtWork
  <2>1. /\ stage = "wait" /\ CallFits /\ call.op \in Ops /\ 0 \in 0 .. Len(toDriver)
        /\ ~(EventOf(m).evt \in Current.on /\ EventOf(m).ch = WaitChannel)
    BY <1>1, <1>6 DEF AtWork, PathInv, StageFits
  <2> HIDE DEF m
  <2>2. Current.send = "none" => Going(toDriver', 0, Did, WaitChannel, procedure, performed)
    <3> SUFFICES ASSUME Current.send = "none" PROVE Going(toDriver', 0, Did, WaitChannel, procedure, performed)
      OBVIOUS
    <3>1. ~Ends(m, Did, WaitChannel)
      BY <2>1, StepFinishes DEF Ends
    <3>2. Going(toDriver, 0, Did, WaitChannel, procedure, performed)
      BY <1>6 DEF TruthInv, Progress
    <3> QED  BY <1>1, <2>1, <3>1, <3>2, GoingReads DEF m
  <2>3. Current.send # "none" => m.idx \notin Awaited
    <3> SUFFICES ASSUME Current.send # "none", m.idx \in Awaited PROVE FALSE
      OBVIOUS
    <3>1. OneWait /\ 1 \in Pending
      BY <1>2, <2>1 DEF OursInv, Awaiting
    <3>2. Matches(m, Current.send)
      BY <1>1, <3>1 DEF OneWait
    <3> QED  BY <1>1, <2>1, <3>2, AwaitedEvent
  <2>4. Current.send # "none" =>
          /\ Pending' = {} => Undisturbed(procedure, performed)
          /\ \A i \in Pending' : Replied(toDriver', i, Current.send, WaitChannel, procedure, performed)
    <3> SUFFICES ASSUME Current.send # "none"
                 PROVE  /\ Pending' = {} => Undisturbed(procedure, performed)
                        /\ \A i \in Pending' : Replied(toDriver', i, Current.send, WaitChannel, procedure, performed)
      OBVIOUS
    <3>1. 1 \notin Pending
      BY <1>2, <2>3
    <3>2. ASSUME Pending' = {} PROVE Pending = {}
      <4> SUFFICES ASSUME NEW i \in Pending PROVE FALSE
        OBVIOUS
      <4>1. i \in DOMAIN toDriver /\ i # 1 /\ toDriver[i].idx \in Awaited
        BY <3>1 DEF Pending
      <4>2. i - 1 \in DOMAIN toDriver' /\ toDriver'[i - 1] = toDriver[i]
        BY <1>1, <4>1
      <4>3. i - 1 \in Pending'
        BY <4>1, <4>2 DEF Pending
      <4> QED  BY <3>2, <4>3
    <3>3. ASSUME NEW i \in Pending' PROVE Replied(toDriver', i, Current.send, WaitChannel, procedure, performed)
      <4>1. i + 1 \in Pending /\ toDriver'[i] = toDriver[i + 1] /\ i + 1 \in 0 .. Len(toDriver) /\ i + 1 > 0 /\ (i + 1) - 1 = i
        BY <1>1, <1>2 DEF Pending
      <4>2. Replied(toDriver, i + 1, Current.send, WaitChannel, procedure, performed)
        BY <1>6, <4>1 DEF TruthInv, Progress
      <4>3. Going(toDriver, i + 1, Current.send, WaitChannel, procedure, performed)
              => Going(toDriver', i, Current.send, WaitChannel, procedure, performed)
        <5> DEFINE n == i + 1
        <5>1. n \in 0 .. Len(toDriver) /\ n > 0 /\ n - 1 = i
          BY <4>1
        <5> HIDE DEF n
        <5>2. Going(toDriver, n, Current.send, WaitChannel, procedure, performed)
                => Going(toDriver', i, Current.send, WaitChannel, procedure, performed)
          BY <1>1, <5>1, GoingReads
        <5> QED  BY <5>2 DEF n
      <4> QED  BY <4>1, <4>2, <4>3 DEF Replied
    <3>4. Pending = {} => Undisturbed(procedure, performed)
      BY <1>6 DEF TruthInv, Progress
    <3> QED  BY <3>2, <3>3, <3>4
  <2>5. Progress'
    <3>1. AtWork' /\ Current'.send = Current.send /\ stage' # "scanning" /\ UNCHANGED <<procedure, performed>>
      BY <1>1, <1>3, <1>6, <2>1
    <3> QED  BY <1>3, <2>2, <2>4, <3>1 DEF Progress
  <2>6. Broken' <=> Broken
    BY <1>1 DEF Broken
  <2>7. Accepted' => Accepted
    <3>1. \A i \in Pending' : i + 1 \in Pending /\ EventOf(toDriver'[i]) = EventOf(toDriver[i + 1])
      BY <1>2
    <3> QED  BY <1>3, <3>1 DEF Accepted
  <2>8. LossKnown'
    <3>1. UNCHANGED <<call, performed>>
      BY <1>1
    <3>2. LossKnown
      BY DEF TruthInv
    <3>3. OnConnection(call.op) /\ ~Broken =>
            /\ connectedDevices'[call.handle] # Nobody
            /\ \A i \in DOMAIN toDriver' : ~(toDriver'[i].idx = "disconnected" /\ Read(toDriver'[i]).connection = call.handle)
      BY <1>6, <3>2, ReadsUnbroken
    <3>4. OnConnection(call.op) /\ Broken /\ (call.step > 1 \/ Accepted) => "lost" \in performed \/ call.op = "disconnect"
      BY <1>6, <3>2 DEF LossKnown
    <3> QED  BY <2>6, <2>7, <3>1, <3>3, <3>4 DEF LossKnown
  <2>9. StepsDone'
    <3>1. Script[call'.op][1].send = Script[call.op][1].send
      OBVIOUS
    <3> QED  BY <1>1, <1>6, <2>6, <2>7, <3>1 DEF TruthInv, StepsDone
  <2> QED  BY <1>4, <2>5, <2>8, <2>9 DEF TruthInv
<1> QED  BY <1>5, <1>6

\* A wait that ends with a failure.
LEMMA FailedTruth ==
  ASSUME PathInv, stage = "wait", UNCHANGED <<procedure, performed>>, NEW m, Over(m), EventOf(m).code # Ok, WaitEnds(EventOf(m).code)
  PROVE  TruthInv'
<1>1. procedure.cmd \notin LinkCommands /\ "error" \in performed
  BY DEF Over
<1>2. Return(call.op, EventOf(m).code, ResultHandle)
  BY DEF WaitEnds
<1>3. stage' = "answered" /\ answer'.status = 502
  BY <1>2, StatusIs, HandleGiven DEF Return, Answered
<1>4. ~AtWork'
  BY <1>3 DEF AtWork
<1> QED  BY <1>1, <1>3, <1>4, AnswersGone

\* A wait after which the command goes on.
LEMMA NextStepTruth ==
  ASSUME PathInv, LinkInv, TruthInv, DriverReceives, NEW m, m = Head(toDriver), stage = "wait", Over(m),
         EventOf(m).code = Ok, EventOf(m).ch = WaitChannel, ~LastStep,
         stage' = "send", call' = [call EXCEPT !.step = @ + 1], UNCHANGED answer
  PROVE  TruthInv'
<1>1. AtWork /\ AtWork' /\ CallFits /\ call.op \in Ops /\ answer.status = 0 /\ stage' # "scanning" /\ stage' # "answered"
  BY DEF AtWork, PathInv, StageFits, AnswerFits, NoAnswer
<1>2. /\ call'.op = call.op /\ call'.handle = call.handle /\ call'.step = call.step + 1 /\ call.step \in Nat
      /\ call'.step - 1 = call.step
  BY <1>1 DEF CallFits
<1> DEFINE next == Script[call.op][call.step + 1]
<1>3. Current' = next /\ Did' = Current.send /\ WaitChannel' = WaitChannel
  BY <1>2 DEF Current, Did, WaitChannel
<1>4. /\ Current.send \in Lasting => next.send = "none"
      /\ Current.send = "none" => next.send \in LinkCommands /\ call.op \in {"read", "readall"} /\ call.step = 2
                                  /\ Did = Script[call.op][1].send
      /\ Current.send \notin Lasting \cup {"none"} => /\ call.op = "info" /\ Current.send = "get_info"
                                                      /\ next.send = "get_connections"
  BY <1>1, StepGoesOn
<1>5. UNCHANGED <<links, procedure, performed>>
  BY Received
<1>6. Pending' = {}
  BY DEF Over
<1>7. "none" \notin LinkCommands /\ "none" \notin Lasting
  BY DEF LinkCommands, Lasting
<1> HIDE DEF next
<1>8. Accepted' => next.send = "none"
  BY <1>3, <1>6 DEF Accepted
<1>9. Current.send # "none" => Accepted
  BY DEF Over
<1>10. Progress'
  <2>1. CASE Current.send = "none"
    <3>1. Undisturbed(procedure, performed) /\ Current'.send # "none"
      BY <1>3, <1>4, <1>7, <2>1 DEF Over, Verdict, Undisturbed
    <3> QED  BY <1>1, <1>5, <1>6, <3>1 DEF Progress
  <2>2. CASE Current.send \in Lasting
    <3>1. Going(toDriver', 0, Did', WaitChannel', procedure', performed') /\ Current'.send = "none"
      BY <1>3, <1>4, <1>5, <2>2 DEF Over
    <3> QED  BY <1>1, <3>1 DEF Progress
  <2>3. CASE Current.send \notin Lasting \cup {"none"}
    <3>1. Undisturbed(procedure, performed) /\ Current'.send # "none"
      BY <1>3, <1>4, <2>3 DEF Over
    <3> QED  BY <1>1, <1>5, <1>6, <3>1 DEF Progress
  <2> QED  BY <2>1, <2>2, <2>3
<1>11. Broken' <=> Broken
  BY <1>2, <1>5 DEF Broken
<1>12. LossKnown'
  <2> SUFFICES ASSUME OnConnection(call.op)
               PROVE  /\ ~Broken => /\ connectedDevices'[call.handle] # Nobody
                                    /\ \A i \in DOMAIN toDriver' : ~(toDriver'[i].idx = "disconnected" /\ Read(toDriver'[i]).connection = call.handle)
                      /\ Broken => "lost" \in performed \/ call.op = "disconnect"
    BY <1>2, <1>5, <1>11 DEF LossKnown
  <2>1. ~Broken => /\ connectedDevices'[call.handle] # Nobody
                   /\ \A i \in DOMAIN toDriver' : ~(toDriver'[i].idx = "disconnected" /\ Read(toDriver'[i]).connection = call.handle)
    BY <1>1, ReadsUnbroken, SMTT(60) DEF TruthInv
  <2>2. call.step > 1 \/ Accepted
    BY <1>4, <1>9
  <2>3. Broken => "lost" \in performed \/ call.op = "disconnect"
    BY <1>1, <2>2 DEF TruthInv, LossKnown
  <2> QED  BY <2>1, <2>3
<1>13. StepsDone'
  <2>1. Script[call'.op][1].send = Script[call.op][1].send
    BY <1>2
  <2>2. ASSUME call.op = "info" PROVE "get_info" \in performed
    <3>1. Current.send \in {"get_info", "get_connections"}
      BY <1>1, <2>2, ScriptEntries DEF CallFits, Current
    <3>2. Current.send \notin Lasting \cup {"none"}
      BY <3>1 DEF Lasting, LinkCommands
    <3> QED  BY <1>4, <3>2 DEF Over
  <2>3. ASSUME call.op \in {"read", "readall"}, call'.step > 2
        PROVE  Script[call.op][1].send \in performed \/ (Broken /\ ~Accepted')
    <3>1. CASE Current.send = "none"
      <4>1. Did = Script[call.op][1].send /\ Verdict(m, Did, performed)
        BY <1>4, <3>1 DEF Over
      <4>2. CASE Did \in performed
        BY <4>1, <4>2
      <4>3. CASE m.idx = "disconnected"
        <5>1. OnConnection(call.op)
          BY <2>3 DEF OnConnection
        <5>2. Broken
          BY <1>1, <4>3, <5>1, ReadsGone DEF TruthInv
        <5>3. ~Accepted'
          BY <1>4, <1>7, <1>8, <3>1
        <5> QED  BY <5>2, <5>3
      <4> QED  BY <4>1, <4>2, <4>3 DEF Verdict
    <3>2. CASE Current.send # "none"
      <4>1. call.step # 2
        BY <1>1, <2>3, <3>2, ScriptEntries DEF CallFits, Current
      <4>2. call.step > 2
        BY <1>2, <2>3, <4>1
      <4> QED  BY <1>1, <1>9, <2>3, <3>2, <4>2, SMTT(60) DEF TruthInv, StepsDone
    <3> QED  BY <3>1, <3>2
  <2> QED  BY <1>2, <1>5, <1>11, <2>1, <2>2, <2>3 DEF StepsDone
<1>14. StatusTruthful'
  BY <1>1, NoStatus
<1> QED  BY <1>10, <1>12, <1>13, <1>14 DEF TruthInv

\* A scan that has begun.
LEMMA ScanTruth ==
  ASSUME PathInv, UNCHANGED <<procedure, performed, answer>>, NEW m, stage = "wait", Over(m), EventOf(m).code = Ok,
         LastStep, call.op = "discover", stage' = "scanning"
  PROVE  TruthInv'
<1>1. CallFits /\ call.op \in Ops /\ answer.status = 0
  BY DEF PathInv, StageFits, AnswerFits, NoAnswer
<1>2. Current.send = "discover"
  BY <1>1, ScriptEntries DEF CallFits, Current
<1>3. "discover" \notin Lasting \cup {"none"}
  BY DEF Lasting, LinkCommands
<1>4. Undisturbed(procedure, performed) /\ "discover" \in performed
  BY <1>2, <1>3 DEF Over
<1>5. ~AtWork'
  BY DEF AtWork
<1>6. Progress' /\ LossKnown' /\ StepsDone'
  BY <1>4, <1>5, AtRest DEF Undisturbed
<1> QED  BY <1>1, <1>6, NoStatus DEF TruthInv

\* The device's data is gone with its link.
LEMMA DataLostTruth ==
  ASSUME PathInv, LinkInv, TruthInv, DriverReceives, NEW m, stage = "wait", Over(m), EventOf(m).code = Ok,
         LastStep, DataLost, Return(call.op, Gone, NoHandle)
  PROVE  TruthInv'
<1>1. /\ AtWork /\ CallFits /\ call.op \in Ops /\ OnConnection(call.op) /\ call.op \in {"update", "read", "readall"}
  BY DEF AtWork, PathInv, StageFits, DataLost, OnConnection
<1>2. Current.send = "none"
  <2>1. Current.send # "none" => call.op \in {"discover", "info"}
    BY <1>1, StepFinishes
  <2> QED  BY <1>1, <2>1
<1>3. call.step > 1
  BY <1>1, <1>2, StepFinishes
<1>4. Broken
  BY <1>1, ReadsUnbroken DEF DataLost, TruthInv
<1>5. "lost" \in performed
  BY <1>1, <1>3, <1>4 DEF TruthInv, LossKnown
<1>6. procedure.cmd \notin LinkCommands
  BY <1>2 DEF Over
<1>7. UNCHANGED <<procedure, performed>>
  BY Received
<1>8. stage' = "answered" /\ answer'.status \in {404, 502}
  <2>1. Status(call.op, Gone, NoHandle) \in {404, 502}
    BY <1>1, StatusIs DEF Gone, Ok
  <2> QED  BY <2>1 DEF Return, Answered
<1>9. ~AtWork'
  BY <1>8 DEF AtWork
<1> QED  BY <1>5, <1>6, <1>7, <1>8, <1>9, AnswersGone

\* The last wait of a command is over, and nothing is lost that matters.
LEMMA SuccessTruth ==
  ASSUME PathInv, LinkInv, TruthInv, DriverReceives, NEW m, m = Head(toDriver), stage = "wait", Over(m),
         EventOf(m).code = Ok, EventOf(m).ch = WaitChannel, call' = call,
         LastStep, call.op # "discover", ~DataLost, Return(call.op, Ok, ResultHandle)
  PROVE  TruthInv'
<1>1. AtWork /\ CallFits /\ call.op \in Ops
  BY DEF AtWork, PathInv, StageFits
<1>2. UNCHANGED <<procedure, performed>>
  BY Received
<1>3. stage' = "answered" /\ answer'.status = IF call.op = "connect" THEN 201 ELSE 200
  BY StatusIs, HandleGiven DEF Return, Answered
<1>4. ~AtWork'
  BY <1>3 DEF AtWork
\* The dongle has done the command of the last step, or its link has been lost.
<1>5. CASE Current.send = "none"
  <2>1. procedure.cmd \notin LinkCommands /\ Ends(m, Did, WaitChannel) /\ Verdict(m, Did, performed)
    BY <1>5 DEF Over
  <2>2. "error" \notin performed /\ (Did \in performed \/ (m.idx = "disconnected" /\ "lost" \in performed))
    BY <2>1 DEF Verdict
  <2>3. \/ call.op \in {"connect", "update", "disconnect", "write"} /\ Commands(call.op) = {Did}
        \/ /\ call.op \in {"read", "readall"} /\ call.step > 2
           /\ Commands(call.op) = {Script[call.op][1].send, Did}
    BY <1>1, <1>5, StepFinishes
  <2>4. Did = "connect_direct" <=> call.op = "connect"
    BY <1>1, <1>5, StepFinishes
  <2>5. ASSUME m.idx = "disconnected" PROVE call.op \in {"write", "disconnect"}
    <3>1. call.op # "connect"
      <4> SUFFICES ASSUME call.op = "connect" PROVE FALSE
        OBVIOUS
      <4>1. EventOf(m).evt = "GAP_CONNECTION_EVT"
        BY <2>1, <2>4 DEF Ends, Finish
      <4>2. PICK g \in Handle, reason \in {520, 534} : m = GoneMsg(g, reason)
        BY <2>5, NewsIs, Received
      <4>3. EventOf(m) = Event("CONNECTION_DISCONNECT_EVT", g, 0)
        BY <4>2, GoneMsgRead
      <4> QED  BY <4>1, <4>3, EventFieldsAre
    <3>2. OnConnection(call.op)
      BY <2>3, <3>1 DEF OnConnection
    <3>3. connectedDevices'[call.handle] = Nobody
      BY <1>1, <2>5, <3>2, ReadsGone DEF TruthInv
    <3>4. call.op \notin {"update", "read", "readall"}
      BY <3>3 DEF DataLost
    <3> QED  BY <2>3, <3>1, <3>4
  <2>6. call.op \in {"read", "readall"} => Script[call.op][1].send \in performed
    BY <1>1, <1>5, <2>3 DEF TruthInv, StepsDone, Accepted
  <2>7. \/ Commands(call.op) \subseteq performed
        \/ call.op \in {"write", "disconnect"} /\ "lost" \in performed
    BY <2>2, <2>3, <2>5, <2>6
  <2>8. call.op = "connect" => "connect_direct" \in performed
    BY <2>2, <2>4, <2>5
  <2>9. Commands(call'.op) = Commands(call.op)
    OBVIOUS
  <2>10. StatusTruthful'
    <3>1. call'.op # "none"
      BY <1>3, <2>3
    <3> QED  BY <1>2, <1>3, <2>2, <2>7, <2>8, <2>9, <3>1 DEF StatusTruthful
  <2>11. Progress' /\ LossKnown' /\ StepsDone'
    BY <1>2, <1>3, <1>4, <2>1, AtRest
  <2> QED  BY <2>10, <2>11 DEF TruthInv
<1>6. CASE Current.send # "none"
  <2>1. /\ call.op = "info" /\ Commands(call.op) = {"get_info", "get_connections"} /\ Current.send = "get_connections"
        /\ call.step > 1
    BY <1>1, <1>6, StepFinishes
  <2>2. Current.send \notin Lasting \cup {"none"}
    BY <2>1 DEF Lasting, LinkCommands
  <2>3. Undisturbed(procedure, performed) /\ Current.send \in performed
    BY <2>2 DEF Over
  <2>4. "get_info" \in performed
    BY <1>1, <2>1 DEF TruthInv, StepsDone
  <2>5. Commands(call'.op) = Commands(call.op)
    OBVIOUS
  <2>6. StatusTruthful'
    BY <1>2, <1>3, <2>1, <2>3, <2>4, <2>5 DEF StatusTruthful, Undisturbed
  <2>7. Progress' /\ LossKnown' /\ StepsDone'
    BY <1>2, <1>3, <1>4, <2>3, AtRest DEF Undisturbed
  <2> QED  BY <2>6, <2>7 DEF TruthInv
<1> QED  BY <1>5, <1>6

LEMMA ReceivesTruth ==
  ASSUME PathInv, OursInv, LinkInv, TruthInv, DriverReceives
  PROVE  TruthInv'
<1> DEFINE m == Head(toDriver)
           over == stage = "wait" /\ EventOf(m).evt \in Current.on /\ EventOf(m).ch = WaitChannel
<1>1. UNCHANGED <<procedure, performed>> /\ IF over THEN WaitEnds(EventOf(m).code) ELSE UNCHANGED <<stage, call, answer, toClient>>
  BY Received
<1>2. CASE ~over
  BY <1>1, <1>2, GoesOnTruth
<1>3. CASE over
  <2>1. WaitEnds(EventOf(m).code) /\ stage = "wait" /\ EventOf(m).ch = WaitChannel /\ Over(m)
    BY <1>1, <1>3, WaitOver DEF TruthInv
  <2> HIDE DEF m, over
  <2>2. CASE EventOf(m).code # Ok
    BY <1>1, <2>1, <2>2, FailedTruth
  <2>3. CASE EventOf(m).code = Ok
    <3>1. CASE ~LastStep /\ stage' = "send" /\ call' = [call EXCEPT !.step = @ + 1] /\ UNCHANGED answer
      BY <2>1, <2>3, <3>1, NextStepTruth DEF m
    <3>2. CASE LastStep /\ call.op = "discover" /\ stage' = "scanning" /\ UNCHANGED answer
      BY <1>1, <2>1, <2>3, <3>2, ScanTruth
    <3>3. CASE LastStep /\ call.op # "discover" /\ call' = call /\ DataLost /\ Return(call.op, Gone, NoHandle)
      BY <2>1, <2>3, <3>3, DataLostTruth
    <3>4. CASE LastStep /\ call.op # "discover" /\ call' = call /\ ~DataLost /\ Return(call.op, Ok, ResultHandle)
      BY <2>1, <2>3, <3>4, SuccessTruth DEF m
    <3>5. \/ ~LastStep /\ stage' = "send" /\ call' = [call EXCEPT !.step = @ + 1] /\ UNCHANGED answer
          \/ LastStep /\ call.op = "discover" /\ stage' = "scanning" /\ UNCHANGED answer
          \/ LastStep /\ call.op # "discover" /\ call' = call /\ DataLost /\ Return(call.op, Gone, NoHandle)
          \/ LastStep /\ call.op # "discover" /\ call' = call /\ ~DataLost /\ Return(call.op, Ok, ResultHandle)
      BY <2>1, <2>3 DEF WaitEnds
    <3> QED  BY <3>1, <3>2, <3>3, <3>4, <3>5
  <2> QED  BY <2>2, <2>3
<1> QED  BY <1>2, <1>3

LEMMA TruthNext ==
  OthersInTime /\ PathInv /\ PathInv' /\ OursInv /\ LinkInv /\ OnDeviceInv /\ TruthInv /\ [Next]_vars => TruthInv'
<1> SUFFICES ASSUME OthersInTime, PathInv, PathInv', OursInv, LinkInv, OnDeviceInv, TruthInv, [Next]_vars PROVE TruthInv'
  OBVIOUS
<1>1. CASE Arrive
  BY <1>1, ArriveTruth
<1>2. CASE FCGIWorker
  BY <1>2, FCGIWorkerTruth
<1>3. CASE FinishRequest
  BY <1>3, FinishTruth
<1>4. CASE ExecuteWorkRequest
  BY <1>4, WorkerTruth
<1>5. CASE SendStep
  BY <1>5, SendStepTruth
<1>6. CASE WaitRunsOut
  BY <1>6, WaitRunsOutTruth
<1>7. CASE ScanEnds
  BY <1>7, ScanEndsTruth
<1>8. CASE DriverReceives
  BY <1>8, ReceivesTruth
<1>9. CASE ClientExecutes \/ ProcedureSucceeds \/ ProcedureFails \/ ProcedureFinds \/ LinkLost
  BY <1>9, DongleTruth
<1>10. CASE UNCHANGED vars
  <2>1. UNCHANGED <<stage, request, call, answer, connectedDevices, toClient, toDriver, links, procedure, asked, performed>>
    BY <1>10 DEF vars, gateway, dongle
  <2>2. Current' = Current /\ Did' = Did /\ WaitChannel' = WaitChannel /\ AtWork' = AtWork /\ Pending' = Pending
    BY <2>1 DEF Current, Did, WaitChannel, AtWork, Pending
  <2>3. (Accepted' <=> Accepted) /\ (Broken' <=> Broken)
    BY <2>1, <2>2 DEF Accepted, Broken
  <2>4. Progress' /\ LossKnown'
    BY <2>1, <2>2, <2>3 DEF TruthInv, Progress, LossKnown
  <2>5. StepsDone'
    <3>1. Script[call'.op][1].send = Script[call.op][1].send
      BY <2>1
    <3> QED  BY <2>1, <2>2, <2>3, <3>1 DEF TruthInv, StepsDone
  <2>6. StatusTruthful'
    <3>1. Left({"end_procedure"})' => Left({"end_procedure"})
      BY <2>1 DEF Left
    <3> QED  BY <2>1, <3>1, StatusStays DEF TruthInv
  <2> QED  BY <2>4, <2>5, <2>6 DEF TruthInv
<1> QED  BY <1>1, <1>2, <1>3, <1>4, <1>5, <1>6, <1>7, <1>8, <1>9, <1>10 DEF Next

LEMMA OthersWaitForResponses == OthersInTime => ResponsesInTime
<1>1. "GAP_CONNECTION_EVT" \notin ResponseEvents
  <2>1. \A c \in LinkCommands : SimpleConnectionEvent[c] # "GAP_CONNECTION_EVT"
    BY DEF SimpleConnectionEvent, LinkCommands
  <2> QED  BY <2>1 DEF ResponseEvents
<1> QED  BY <1>1 DEF OthersInTime, ResponsesInTime

\* If nothing but the wait for a new connection runs out, the status that the requester gets is
\* true of the dongle: no 200 or 201 for a command that the dongle has refused, failed or not
\* done, or without a command where one was needed (a read may be answered from the cache), and
\* no 502 or 404 where nothing went wrong, over all the waits and the links lost between them.
THEOREM PathStatusTruthful ==
  ASSUME OthersInTime
  PROVE  Spec => []StatusTruthful
<1>1. Spec => [](PathInv /\ OursInv /\ LinkInv /\ OnDeviceInv)
  BY PathLinks, OthersWaitForResponses
<1>2. Init => TruthInv
  BY TruthInit
<1>3. PathInv /\ PathInv' /\ OursInv /\ LinkInv /\ OnDeviceInv /\ TruthInv /\ [Next]_vars => TruthInv'
  BY TruthNext
<1>4. TruthInv => StatusTruthful
  BY DEF TruthInv
<1> QED  BY <1>1, <1>2, <1>3, <1>4, PTL DEF Spec
=============================================================================
